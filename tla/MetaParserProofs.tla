-------------------------- MODULE MetaParserProofs --------------------------
(***************************************************************************)
(* Proofs about the meta-parser for every alphabet and texts of any        *)
(* length: its types, its stack and its arrays.  The lemmas at the end are *)
(* for MetaParserAccepts: what a further lexeme leaves as it was, the      *)
(* table read alternative by alternative, the reading of a bracket, and the *)
(* texts that no continuation brings into the language (Dead).             *)
(***************************************************************************)
EXTENDS MetaParserProps, SequenceTheorems, FiniteSetTheorems, TLAPS

-----------------------------------------------------------------------------
(* The table.                                                              *)

ChildOf(rule) ==
  CASE rule = "abnf" -> "prod" [] rule = "prod" -> "alts" [] rule = "alts" -> "seq"
    [] rule = "seq" -> "elem"  [] rule = "elem" -> "atom" [] rule = "atom" -> "alts"

Leaves == {"term", "number", "prose", "ref"}

\* What the alternatives of a rule in a phase have in common.
AltOK(rule, phase, alt) ==
  /\ Len(alt.s) \in Nat /\ alt.b \in Nat
  /\ alt.p # "" => alt.p = ChildOf(rule)
  /\ alt.r # "" => rule = "prod" /\ alt.r = "prod" /\ phase = "close" /\ alt.p = ""
  /\ alt.a \in {"group", "opt"} \union Leaves => rule = "atom" /\ phase = "open"
  /\ alt.a = "close" => rule = "atom" /\ phase = "close"
  /\ alt.a = "close" => alt.c \in {"group", "opt"}
  /\ rule = "atom" /\ alt.p # "" => alt.a \in {"group", "opt"}
  /\ alt.a = "append" => rule = "elem" /\ phase = "close" /\ alt.p = ""
  /\ rule = "elem" /\ phase = "close" => alt.a = "append"
  /\ alt.a \in {"m*n", "m*", "n"} => 1 <= Len(alt.s)
  /\ alt.a = "*n" => 2 <= Len(alt.s)
  /\ alt.a = "m*n" => 3 <= Len(alt.s)

\* The lengths of the patterns that are more than one token long.
LEMMA Lengths ==
  ASSUME NEW a, NEW b, NEW c, NEW d
  PROVE  Len(<<a, b>>) = 2 /\ Len(<<a, b, c>>) = 3 /\ Len(<<a, b, c, d>>) = 4
OBVIOUS

LEMMA AbnfDomains ==
  DOMAIN AbnfRule["open"] = 1..2 /\ DOMAIN AbnfRule["close"] = 1..1
BY DEF AbnfRule

LEMMA AbnfTable ==
  ASSUME NEW phase \in {"open", "close"}, NEW n \in DOMAIN AbnfRule[phase]
  PROVE  AltOK("abnf", phase, AbnfRule[phase][n])
<1> USE DEF AltOK, ChildOf, Leaves, Leave, Push, Replace, Close, Alt
<1>1. AltOK("abnf", "open", AbnfRule["open"][1])
  BY DEF AbnfRule
<1>2. AltOK("abnf", "open", AbnfRule["open"][2])
  BY DEF AbnfRule
<1>3. AltOK("abnf", "close", AbnfRule["close"][1])
  BY DEF AbnfRule
<1> HIDE DEF AltOK
<1>4. QED
  BY AbnfDomains, <1>1, <1>2, <1>3

LEMMA ProdDomains ==
  DOMAIN ProdRule["open"] = 1..3 /\ DOMAIN ProdRule["close"] = 1..4
BY DEF ProdRule

LEMMA ProdTable ==
  ASSUME NEW phase \in {"open", "close"}, NEW n \in DOMAIN ProdRule[phase]
  PROVE  AltOK("prod", phase, ProdRule[phase][n])
<1> USE DEF AltOK, ChildOf, Leaves, Leave, Push, Replace, Close, Alt
<1>1. AltOK("prod", "open", ProdRule["open"][1])
  BY DEF ProdRule
<1>2. AltOK("prod", "open", ProdRule["open"][2])
  BY DEF ProdRule
<1>3. AltOK("prod", "open", ProdRule["open"][3])
  BY DEF ProdRule
<1>4. AltOK("prod", "close", ProdRule["close"][1])
  BY DEF ProdRule
<1>5. AltOK("prod", "close", ProdRule["close"][2])
  BY DEF ProdRule
<1>6. AltOK("prod", "close", ProdRule["close"][3])
  BY DEF ProdRule
<1>7. AltOK("prod", "close", ProdRule["close"][4])
  BY DEF ProdRule
<1> HIDE DEF AltOK
<1>8. QED
  BY ProdDomains, <1>1, <1>2, <1>3, <1>4, <1>5, <1>6, <1>7

LEMMA AltsDomains ==
  DOMAIN AltsRule["open"] = 1..1 /\ DOMAIN AltsRule["close"] = 1..2
BY DEF AltsRule

LEMMA AltsTable ==
  ASSUME NEW phase \in {"open", "close"}, NEW n \in DOMAIN AltsRule[phase]
  PROVE  AltOK("alts", phase, AltsRule[phase][n])
<1> USE DEF AltOK, ChildOf, Leaves, Leave, Push, Replace, Close, Alt
<1>1. AltOK("alts", "open", AltsRule["open"][1])
  BY DEF AltsRule
<1>2. AltOK("alts", "close", AltsRule["close"][1])
  BY DEF AltsRule
<1>3. AltOK("alts", "close", AltsRule["close"][2])
  BY DEF AltsRule
<1> HIDE DEF AltOK
<1>4. QED
  BY AltsDomains, <1>1, <1>2, <1>3

LEMMA SeqDomains ==
  DOMAIN SeqRule["open"] = 1..8 /\ DOMAIN SeqRule["close"] = 1..8
BY DEF SeqRule

LEMMA SeqTable ==
  ASSUME NEW phase \in {"open", "close"}, NEW n \in DOMAIN SeqRule[phase]
  PROVE  AltOK("seq", phase, SeqRule[phase][n])
<1> USE DEF AltOK, ChildOf, Leaves, Leave, Push, Replace, Close, Alt, AtName, AtNameAgain, AtProse, NameThenCount, NameThenAtom,
       AtSeqEnd, AtElem
<1>1. AltOK("seq", "open", SeqRule["open"][1])
  BY DEF SeqRule
<1>2. AltOK("seq", "open", SeqRule["open"][2])
  BY DEF SeqRule
<1>3. AltOK("seq", "open", SeqRule["open"][3])
  BY DEF SeqRule
<1>4. AltOK("seq", "open", SeqRule["open"][4])
  BY DEF SeqRule
<1>5. AltOK("seq", "open", SeqRule["open"][5])
  BY DEF SeqRule
<1>6. AltOK("seq", "open", SeqRule["open"][6])
  BY DEF SeqRule
<1>7. AltOK("seq", "open", SeqRule["open"][7])
  BY DEF SeqRule
<1>8. AltOK("seq", "open", SeqRule["open"][8])
  BY DEF SeqRule
<1>9. AltOK("seq", "close", SeqRule["close"][1])
  BY DEF SeqRule
<1>10. AltOK("seq", "close", SeqRule["close"][2])
  BY DEF SeqRule
<1>11. AltOK("seq", "close", SeqRule["close"][3])
  BY DEF SeqRule
<1>12. AltOK("seq", "close", SeqRule["close"][4])
  BY DEF SeqRule
<1>13. AltOK("seq", "close", SeqRule["close"][5])
  BY DEF SeqRule
<1>14. AltOK("seq", "close", SeqRule["close"][6])
  BY DEF SeqRule
<1>15. AltOK("seq", "close", SeqRule["close"][7])
  BY DEF SeqRule
<1>16. AltOK("seq", "close", SeqRule["close"][8])
  BY DEF SeqRule
<1> HIDE DEF AltOK
<1>17. QED
  BY SeqDomains, <1>1, <1>2, <1>3, <1>4, <1>5, <1>6, <1>7, <1>8, <1>9, <1>10, <1>11, <1>12, <1>13, <1>14, <1>15, <1>16

LEMMA ElemDomains ==
  DOMAIN ElemRule["open"] = 1..6 /\ DOMAIN ElemRule["close"] = 1..1
BY DEF ElemRule

LEMMA ElemTable ==
  ASSUME NEW phase \in {"open", "close"}, NEW n \in DOMAIN ElemRule[phase]
  PROVE  AltOK("elem", phase, ElemRule[phase][n])
<1> USE DEF AltOK, ChildOf, Leaves, Leave, Push, Replace, Close, Alt
<1>1. AltOK("elem", "open", ElemRule["open"][1])
  <2>1. AltOK("elem", "open", Push(<<{"NUM"}, {"STAR"}, {"NUM"}, ATOM>>, 1, "atom", "m*n"))
    BY Lengths
  <2>2. QED
    BY <2>1 DEF ElemRule
<1>2. AltOK("elem", "open", ElemRule["open"][2])
  <2>1. AltOK("elem", "open", Push(<<{"NUM"}, {"STAR"}, ATOM>>, 1, "atom", "m*"))
    BY Lengths
  <2>2. QED
    BY <2>1 DEF ElemRule
<1>3. AltOK("elem", "open", ElemRule["open"][3])
  <2>1. AltOK("elem", "open", Push(<<{"STAR"}, {"NUM"}, ATOM>>, 1, "atom", "*n"))
    BY Lengths
  <2>2. QED
    BY <2>1 DEF ElemRule
<1>4. AltOK("elem", "open", ElemRule["open"][4])
  BY DEF ElemRule
<1>5. AltOK("elem", "open", ElemRule["open"][5])
  <2>1. AltOK("elem", "open", Push(<<{"NUM"}, ATOM>>, 1, "atom", "n"))
    BY Lengths
  <2>2. QED
    BY <2>1 DEF ElemRule
<1>6. AltOK("elem", "open", ElemRule["open"][6])
  BY DEF ElemRule
<1>7. AltOK("elem", "close", ElemRule["close"][1])
  BY DEF ElemRule
<1> HIDE DEF AltOK
<1>8. QED
  BY ElemDomains, <1>1, <1>2, <1>3, <1>4, <1>5, <1>6, <1>7

LEMMA AtomDomains ==
  DOMAIN AtomRule["open"] = 1..7 /\ DOMAIN AtomRule["close"] = 1..4
BY DEF AtomRule

LEMMA AtomTable ==
  ASSUME NEW phase \in {"open", "close"}, NEW n \in DOMAIN AtomRule[phase]
  PROVE  AltOK("atom", phase, AtomRule[phase][n])
<1> USE DEF AltOK, ChildOf, Leaves, Leave, Push, Replace, Close, Alt
<1>1. AltOK("atom", "open", AtomRule["open"][1])
  BY DEF AtomRule
<1>2. AltOK("atom", "open", AtomRule["open"][2])
  BY DEF AtomRule
<1>3. AltOK("atom", "open", AtomRule["open"][3])
  BY DEF AtomRule
<1>4. AltOK("atom", "open", AtomRule["open"][4])
  BY DEF AtomRule
<1>5. AltOK("atom", "open", AtomRule["open"][5])
  BY DEF AtomRule
<1>6. AltOK("atom", "open", AtomRule["open"][6])
  BY DEF AtomRule
<1>7. AltOK("atom", "open", AtomRule["open"][7])
  BY DEF AtomRule
<1>8. AltOK("atom", "close", AtomRule["close"][1])
  BY DEF AtomRule
<1>9. AltOK("atom", "close", AtomRule["close"][2])
  BY DEF AtomRule
<1>10. AltOK("atom", "close", AtomRule["close"][3])
  BY DEF AtomRule
<1>11. AltOK("atom", "close", AtomRule["close"][4])
  BY DEF AtomRule
<1> HIDE DEF AltOK
<1>12. QED
  BY AtomDomains, <1>1, <1>2, <1>3, <1>4, <1>5, <1>6, <1>7, <1>8, <1>9, <1>10, <1>11

\* Every alternative of the meta-grammar's table obeys AltOK.
LEMMA Table ==
  ASSUME NEW rule \in RuleNames, NEW phase \in {"open", "close"},
         NEW n \in DOMAIN Rules[rule][phase]
  PROVE  AltOK(rule, phase, Rules[rule][phase][n])
BY AbnfTable, ProdTable, AltsTable, SeqTable, ElemTable, AtomTable DEF Rules, RuleNames

-----------------------------------------------------------------------------
(* Replacing the top of a stack.                                           *)

LEMMA Single ==
  ASSUME NEW S, NEW x \in S
  PROVE  <<x>> \in Seq(S) /\ <<x>> # <<>> /\ Len(<<x>>) = 1 /\ <<x>>[1] = x
BY EmptySeq

LEMMA Replaced ==
  ASSUME NEW S, NEW s \in Seq(S), NEW m \in 0..Len(s), NEW f \in S
  PROVE  LET r == Append(SubSeq(s, 1, m), f)
         IN  /\ r \in Seq(S) /\ Len(r) = m + 1 /\ r[m + 1] = f
             /\ \A n \in 1..m : r[n] = s[n]
<1> DEFINE p == SubSeq(s, 1, m)
<1>1. Len(s) \in Nat
  BY LenProperties
<1>2. p \in Seq(S) /\ Len(p) = m /\ \A n \in 1..m : p[n] = s[n]
  BY <1>1, ElementOfSeq, SubSeqProperties
<1> HIDE DEF p
<1>3. /\ Append(p, f) \in Seq(S) /\ Len(Append(p, f)) = m + 1
      /\ Append(p, f)[m + 1] = f /\ \A n \in 1..m : Append(p, f)[n] = s[n]
  BY <1>1, <1>2, AppendProperties
<1>4. QED
  BY <1>3 DEF p

LEMMA Pushed ==
  ASSUME NEW S, NEW s \in Seq(S), NEW m \in 0..Len(s), NEW f \in S, NEW g \in S
  PROVE  LET r == Append(Append(SubSeq(s, 1, m), f), g)
         IN  /\ r \in Seq(S) /\ Len(r) = m + 2
             /\ r[m + 1] = f /\ r[m + 2] = g /\ \A n \in 1..m : r[n] = s[n]
<1> DEFINE q == Append(SubSeq(s, 1, m), f)
<1>1. m \in Nat
  BY LenProperties
<1>2. /\ q \in Seq(S) /\ Len(q) = m + 1 /\ q[m + 1] = f
      /\ \A n \in 1..m : q[n] = s[n]
  BY Replaced
<1> HIDE DEF q
<1>3. /\ Append(q, g) \in Seq(S) /\ Len(Append(q, g)) = m + 2
      /\ Append(q, g)[m + 1] = f /\ Append(q, g)[m + 2] = g
      /\ \A n \in 1..m : Append(q, g)[n] = s[n]
  BY <1>1, <1>2, AppendProperties
<1>4. QED
  BY <1>3 DEF q

-----------------------------------------------------------------------------
(* The alternative the running frame takes.                                *)

\* It is one of the table, and its condition on the bracket's kind holds.
LEMMA Taken ==
  ASSUME TypeOK, status = "run", NEW n \in DOMAIN Alternatives, First(n)
  PROVE  /\ Len(stack) \in Nat \ {0} /\ Top \in Frames
         /\ AltOK(Top.rule, Top.phase, Alternatives[n])
         /\ Alternatives[n].c # "" => Top.grp = Alternatives[n].c
<1>1. Len(stack) \in Nat \ {0}
  BY EmptySeq, LenProperties DEF TypeOK
<1>2. Top \in Frames
  BY <1>1, ElementOfSeq DEF TypeOK, Top
<1>3. AltOK(Top.rule, Top.phase, Alternatives[n])
  BY <1>2, Table DEF Frames, Alternatives
<1>4. Fits(Alternatives[n])
  BY DEF First, Candidates
<1>5. QED
  BY <1>1, <1>2, <1>3, <1>4 DEF Fits

\* The lexemes matched so far are numbered within the text.
LEMMA Counted ==
  ASSUME TypeOK, NEW k \in Nat \ {0}, k <= Len(la)
  PROVE  Num(k) \in Nat
<1>1. Len(la) \in Nat /\ Len(input) \in Nat /\ Len(la) <= Len(input)
  BY LenProperties DEF TypeOK
<1>2. Consumed + k \in 1..Len(input)
  BY <1>1 DEF Consumed
<1>3. input[Consumed + k] \in Alphabet \union {End}
  BY <1>1, <1>2, ElementOfSeq DEF TypeOK
<1>4. QED
  BY <1>3, ParserAssumption DEF Num, End

\* The lexemes an action reads the values of are there.
LEMMA Matches ==
  ASSUME TypeOK, NEW rule, NEW phase, NEW alt, AltOK(rule, phase, alt),
         Len(alt.s) <= Len(la)
  PROVE  /\ Consumed + 1 \in Nat
         /\ alt.a \in {"m*n", "m*", "n"} => Num(1) \in Int
         /\ alt.a = "*n" => Num(2) \in Int
         /\ alt.a = "m*n" => Num(3) \in Int
<1> DEFINE size == Len(alt.s)
<1>1. /\ size \in Nat
      /\ alt.a \in {"m*n", "m*", "n"} => 1 <= size
      /\ alt.a = "*n" => 2 <= size
      /\ alt.a = "m*n" => 3 <= size
  BY DEF AltOK
<1>2. size <= Len(la)
  OBVIOUS
<1> HIDE DEF size
<1>3. Len(la) \in Nat /\ Len(input) \in Nat /\ Len(la) <= Len(input)
  BY LenProperties DEF TypeOK
<1>4. ASSUME NEW k \in 1..3, k <= size
      PROVE  Num(k) \in Nat
  <2>1. k \in Nat \ {0} /\ k <= Len(la)
    BY <1>1, <1>2, <1>3, <1>4
  <2>2. QED
    BY <2>1, Counted
<1>5. QED
  BY <1>1, <1>3, <1>4 DEF Consumed

LEMMA CountTypes == 0 \in Int /\ Unbounded \in Int
BY DEF Unbounded

LEMMA NodeType ==
  ASSUME NEW kind \in NodeKinds, NEW at \in Nat, NEW ref \in Nat
  PROVE  Node(kind, at, ref) \in Nodes
BY DEF Nodes, Node

LEMMA FrameParts ==
  ASSUME NEW f \in Frames
  PROVE  /\ f.rule \in RuleNames /\ f.phase \in {"open", "close"}
         /\ f.at \in Nat /\ f.child \in Nodes /\ f.node \in Nodes
         /\ f.min \in Int /\ f.max \in Int /\ f.child.ref \in Nat /\ f.node.ref \in Nat
BY DEF Frames, Nodes

LEMMA FrameUpdates ==
  ASSUME NEW f \in Frames, NEW m \in Int, NEW n \in Int, NEW node \in Nodes,
         NEW at \in Nat, NEW b \in BOOLEAN, NEW grp \in {"group", "opt"}
  PROVE  /\ [f EXCEPT !.min = m, !.max = n] \in Frames
         /\ [f EXCEPT !.node = node] \in Frames
         /\ [f EXCEPT !.child = node] \in Frames
         /\ [f EXCEPT !.phase = "close"] \in Frames
         /\ [f EXCEPT !.at = at, !.incr = b] \in Frames
         /\ [f EXCEPT !.grp = grp, !.at = at] \in Frames
BY DEF Frames

\* An action leaves the rule alone, and everywhere but in atom the node.
LEMMA ActedFrame ==
  ASSUME TypeOK, NEW alt, NEW f \in Frames, AltOK(f.rule, f.phase, alt),
         alt.c # "" => f.grp = alt.c, Len(alt.s) <= Len(la)
  PROVE  LET g == Acted(f, alt.a)
         IN  /\ g \in Frames /\ g.rule = f.rule
             /\ f.rule # "atom" \/ alt.p # "" => g.node = f.node
             /\ f.rule = "atom" /\ alt.p # "" => g.grp # "" /\ f.phase = "open"
<1> DEFINE g == Acted(f, alt.a)
<1>1. /\ Consumed + 1 \in Nat
      /\ alt.a \in {"m*n", "m*", "n"} => Num(1) \in Int
      /\ alt.a = "*n" => Num(2) \in Int
      /\ alt.a = "m*n" => Num(3) \in Int
  BY Matches
<1>2. /\ alt.a = "close" => f.grp \in {"group", "opt"} /\ f.rule = "atom"
      /\ alt.a = "close" => alt.p = ""
      /\ alt.a \in Leaves => f.rule = "atom" /\ alt.p = ""
      /\ f.rule = "atom" /\ alt.p # "" => alt.a \in {"group", "opt"}
      /\ alt.a \in {"group", "opt"} => f.phase = "open"
  BY DEF AltOK, Leaves
<1>3. CASE alt.a \in {"define", "extend"}
  BY <1>1, <1>2, <1>3 DEF Acted, Frames
<1>4. CASE alt.a \in {"group", "opt"}
  BY <1>1, <1>2, <1>4 DEF Acted, Frames
<1>5. CASE alt.a \in {"m*n", "m*", "*n", "*", "n"}
  <2>1. \E m, n \in Int : g = [f EXCEPT !.min = m, !.max = n]
    <3>1. /\ alt.a = "m*n" => g = [f EXCEPT !.min = Num(1), !.max = Num(3)]
          /\ alt.a = "m*" => g = [f EXCEPT !.min = Num(1), !.max = Unbounded]
          /\ alt.a = "*n" => g = [f EXCEPT !.min = 0, !.max = Num(2)]
          /\ alt.a = "*" => g = [f EXCEPT !.min = 0, !.max = Unbounded]
          /\ alt.a = "n" => g = [f EXCEPT !.min = Num(1), !.max = Num(1)]
      BY DEF Acted
    <3> HIDE DEF g
    <3>2. QED
      BY <1>1, <1>5, <3>1, CountTypes
  <2> HIDE DEF g
  <2>2. g \in Frames /\ g.rule = f.rule /\ g.node = f.node
    BY <2>1 DEF Frames
  <2>3. QED
    BY <1>2, <1>5, <2>2 DEF g
<1>6. CASE alt.a = "close"
  <2>1. Node(f.grp, f.at, f.child.ref) \in Nodes
    BY <1>2, <1>6, FrameParts, NodeType DEF NodeKinds
  <2>2. QED
    BY <1>2, <1>6, <2>1 DEF Acted, Frames
<1>7. CASE alt.a \in Leaves
  <2>1. Node(alt.a, Consumed + 1, 0) \in Nodes
    BY <1>1, <1>7, NodeType DEF NodeKinds, Leaves
  <2>2. QED
    BY <1>2, <1>7, <2>1 DEF Acted, Frames, Leaves
<1>8. CASE alt.a \notin {"define", "extend", "group", "opt", "m*n", "m*", "*n", "*",
                       "n", "close"} \union Leaves
  BY <1>2, <1>8 DEF Acted, Leaves
<1>9. QED
  BY <1>3, <1>4, <1>5, <1>6, <1>7, <1>8

-----------------------------------------------------------------------------
(* Frames and arrays made by a step.                                       *)

LEMMA NewFrameType ==
  ASSUME heap \in Seq(Seq(Nodes)), NEW rule \in RuleNames, NEW node \in Nodes
  PROVE  NewFrame(rule, node) \in Frames
<1>1. Len(heap) + 1 \in Nat
  BY LenProperties
<1>2. Arr(Len(heap) + 1) \in Nodes /\ Undefined \in Nodes
  BY <1>1, NodeType DEF Arr, Undefined, NodeKinds
<1>3. QED
  BY <1>2 DEF NewFrame, Frames

LEMMA HeapGrows ==
  ASSUME heap \in Seq(Seq(Nodes)), NEW rule
  PROVE  /\ HeapAfterBo(rule) \in Seq(Seq(Nodes))
         /\ Len(HeapAfterBo(rule)) = Len(heap) + IF rule \in Owners THEN 1 ELSE 0
<1>1. <<>> \in Seq(Nodes) /\ Len(heap) \in Nat
  BY EmptySeq, LenProperties
<1>2. QED
  BY <1>1, AppendProperties DEF HeapAfterBo

LEMMA AppendedType ==
  ASSUME heap \in Seq(Seq(Nodes)), NEW array, NEW item \in Nodes
  PROVE  Appended(array, item) \in Seq(Seq(Nodes)) /\ Len(Appended(array, item)) = Len(heap)
<1>1. CASE array.ref \in DOMAIN heap
  <2>1. array.ref \in 1..Len(heap) /\ heap[array.ref] \in Seq(Nodes)
    BY <1>1, ElementOfSeq, LenProperties
  <2>2. Append(heap[array.ref], item) \in Seq(Nodes)
    BY <2>1, AppendProperties
  <2>3. QED
    BY <2>1, <2>2, ExceptSeq DEF Appended
<1>2. CASE array.ref \notin DOMAIN heap
  <2>1. Appended(array, item) = heap
    BY <1>2, SeqDef DEF Appended
  <2>2. QED
    BY <2>1
<1>3. QED
  BY <1>1, <1>2

LEMMA HeapAfterBcType ==
  ASSUME heap \in Seq(Seq(Nodes)), NEW f \in Frames
  PROVE  HeapAfterBc(f) \in Seq(Seq(Nodes)) /\ Len(HeapAfterBc(f)) = Len(heap)
<1>1. Node(IF f.incr THEN "incremental" ELSE "production", f.at, f.child.ref) \in Nodes
  BY FrameParts, NodeType DEF NodeKinds
<1>2. f.child \in Nodes
  BY FrameParts
<1>3. QED
  BY <1>1, <1>2, AppendedType DEF HeapAfterBc

-----------------------------------------------------------------------------
(* What each step does to the stack, the arrays and the lookahead.         *)

LEMMA RestType ==
  ASSUME la \in Seq(Kinds), NEW alt, Len(alt.s) \in Nat, alt.b \in Nat
  PROVE  Rest(alt) \in Seq(Kinds) /\ Len(Rest(alt)) <= Len(la)
<1> DEFINE taken == IF Len(alt.s) > alt.b THEN Len(alt.s) - alt.b ELSE 0
<1>1. taken \in Nat
  OBVIOUS
<1> HIDE DEF taken
<1>2. Len(la) \in Nat /\ \A k \in 1..Len(la) : la[k] \in Kinds
  BY LenProperties, ElementOfSeq
<1>3. /\ SubSeq(la, taken + 1, Len(la)) \in Seq(Kinds)
      /\ Len(SubSeq(la, taken + 1, Len(la))) <= Len(la)
  BY <1>1, <1>2, SubSeqProperties
<1>4. QED
  BY <1>3 DEF Rest, taken

LEMMA PushStep ==
  ASSUME TypeOK, status = "run", NEW n \in DOMAIN Alternatives, First(n),
         PushRule(Alternatives[n])
  PROVE  \E g \in Frames, rule \in RuleNames, m \in Nat :
           /\ Len(stack) = m + 1 /\ rule = ChildOf(Top.rule)
           /\ rule = Alternatives[n].p
           /\ g.grp = Acted(Top, Alternatives[n].a).grp
           /\ g.at = Acted(Top, Alternatives[n].a).at
           /\ g.rule = Top.rule /\ g.node = Top.node /\ g.phase = "close"
           /\ Top.rule = "atom" => g.grp # "" /\ Top.phase = "open"
           /\ stack' \in Seq(Frames) /\ Len(stack') = m + 2
           /\ stack'[m + 1] = g /\ stack'[m + 2] = NewFrame(rule, g.node)
           /\ \A i \in 1..m : stack'[i] = stack[i]
           /\ heap' = HeapAfterBo(rule) /\ heap' \in Seq(Seq(Nodes))
<1> DEFINE alt == Alternatives[n]
           f   == Acted(Top, alt.a)
           g   == [f EXCEPT !.phase = "close"]
           m   == Len(stack) - 1
<1>1. /\ m \in Nat /\ Len(stack) = m + 1 /\ m \in 0..Len(stack) /\ Top \in Frames
      /\ AltOK(Top.rule, Top.phase, alt) /\ (alt.c # "" => Top.grp = alt.c)
  <2>1. Len(stack) \in Nat \ {0}
    BY Taken
  <2>2. m \in Nat /\ Len(stack) = m + 1 /\ m \in 0..Len(stack)
    BY <2>1
  <2>3. /\ Top \in Frames /\ AltOK(Top.rule, Top.phase, alt)
        /\ alt.c # "" => Top.grp = alt.c
    BY Taken
  <2>4. QED
    BY <2>2, <2>3
<1>2. /\ Len(alt.s) <= Len(la) /\ alt.p # "" /\ heap' = HeapAfterBo(alt.p)
      /\ stack' = Append(Append(SubSeq(stack, 1, m), g), NewFrame(alt.p, g.node))
  <2>1. /\ Len(alt.s) \in Nat /\ Len(la) \in Nat /\ Len(la) >= Len(alt.s)
        /\ alt.p # "" /\ heap' = HeapAfterBo(alt.p)
        /\ stack' = Append(Append(SubSeq(stack, 1, m), g), NewFrame(alt.p, g.node))
    BY <1>1, LenProperties DEF PushRule, Fires, TypeOK, Below, AltOK
  <2>2. QED
    BY <2>1
<1> HIDE DEF alt, m
<1>3. /\ f \in Frames /\ f.rule = Top.rule /\ f.node = Top.node
      /\ Top.rule = "atom" => f.grp # "" /\ Top.phase = "open"
  BY <1>1, <1>2, ActedFrame
<1>4. alt.p = ChildOf(Top.rule) /\ alt.p \in RuleNames
  BY <1>1, <1>2, FrameParts DEF AltOK, ChildOf, RuleNames
<1> HIDE DEF f
<1>5. /\ g \in Frames /\ g.grp = f.grp /\ g.at = f.at /\ g.rule = Top.rule /\ g.node = Top.node /\ g.phase = "close"
      /\ Top.rule = "atom" => g.grp # "" /\ Top.phase = "open"
  BY <1>3 DEF Frames
<1> HIDE DEF g
<1>6. NewFrame(alt.p, g.node) \in Frames /\ heap' \in Seq(Seq(Nodes))
  BY <1>2, <1>4, <1>5, FrameParts, NewFrameType, HeapGrows DEF TypeOK
<1>7. /\ stack' \in Seq(Frames) /\ Len(stack') = m + 2
      /\ stack'[m + 1] = g /\ stack'[m + 2] = NewFrame(alt.p, g.node)
      /\ \A i \in 1..m : stack'[i] = stack[i]
  <2>1. stack \in Seq(Frames)
    BY DEF TypeOK
  <2> DEFINE h == NewFrame(alt.p, g.node)
  <2>2. h \in Frames /\ stack' = Append(Append(SubSeq(stack, 1, m), g), h)
    BY <1>2, <1>6
  <2> HIDE DEF h
  <2>3. /\ stack' \in Seq(Frames) /\ Len(stack') = m + 2
        /\ stack'[m + 1] = g /\ stack'[m + 2] = h
        /\ \A i \in 1..m : stack'[i] = stack[i]
    <3>1. m \in 0..Len(stack) /\ g \in Frames
      BY <1>1, <1>5
    <3>2. QED
      BY <2>1, <2>2, <3>1, Pushed
  <2>4. QED
    BY <2>3 DEF h
<1>8. QED
  BY <1>1, <1>2, <1>4, <1>5, <1>6, <1>7 DEF alt, f

\* What every alternative that fires has in common.
LEMMA FiresStep ==
  ASSUME TypeOK, status = "run", NEW n \in DOMAIN Alternatives, First(n),
         Fires(Alternatives[n])
  PROVE  LET alt == Alternatives[n]
             f   == Acted(Top, alt.a)
         IN  /\ AltOK(Top.rule, Top.phase, alt)
             /\ f \in Frames /\ f.rule = Top.rule
             /\ Top.rule # "atom" => f.node = Top.node
             /\ input' \in Seq(Alphabet \union {End})
             /\ la' \in Seq(Kinds) /\ Len(la') <= Len(input')
<1> DEFINE alt == Alternatives[n]
<1>1. /\ Top \in Frames /\ AltOK(Top.rule, Top.phase, alt)
      /\ alt.c # "" => Top.grp = alt.c
  BY Taken
<1>2. /\ Len(alt.s) \in Nat /\ alt.b \in Nat
  BY <1>1 DEF AltOK
<1>3. Len(alt.s) <= Len(la)
  BY <1>2, LenProperties DEF Fires, TypeOK
<1>4. la' = Rest(alt) /\ input' = input
  BY DEF Fires
<1> HIDE DEF alt
<1>5. /\ Acted(Top, alt.a) \in Frames /\ Acted(Top, alt.a).rule = Top.rule
      /\ Top.rule # "atom" => Acted(Top, alt.a).node = Top.node
  BY <1>1, <1>3, ActedFrame
<1>6. input' \in Seq(Alphabet \union {End}) /\ la' \in Seq(Kinds) /\ Len(la') <= Len(input')
  <2>1. Rest(alt) \in Seq(Kinds) /\ Len(Rest(alt)) <= Len(la)
    BY <1>2, RestType DEF TypeOK
  <2>2. Len(la) <= Len(input) /\ input \in Seq(Alphabet \union {End}) /\ la \in Seq(Kinds)
    BY DEF TypeOK
  <2>3. Len(Rest(alt)) <= Len(input)
    <3>1. Len(la) \in Nat /\ Len(Rest(alt)) \in Nat /\ Len(input) \in Nat
      BY <2>1, <2>2, LenProperties
    <3>2. QED
      BY <2>1, <2>2, <3>1
  <2>4. QED
    BY <1>4, <2>1, <2>2, <2>3
<1>7. QED
  BY <1>1, <1>5, <1>6 DEF alt

LEMMA EndOpenStep ==
  ASSUME TypeOK, status = "run", NEW n \in DOMAIN Alternatives, First(n),
         EndOpen(Alternatives[n])
  PROVE  \E g \in Frames, m \in Nat :
           /\ Len(stack) = m + 1
           /\ g.grp = Acted(Top, Alternatives[n].a).grp
           /\ g.at = Acted(Top, Alternatives[n].a).at
           /\ g.node = Acted(Top, Alternatives[n].a).node
           /\ g.child = Acted(Top, Alternatives[n].a).child
           /\ g.rule = Top.rule /\ g.phase = "close"
           /\ Top.rule # "atom" => g.node = Top.node
           /\ stack' \in Seq(Frames) /\ Len(stack') = m + 1 /\ stack'[m + 1] = g
           /\ \A i \in 1..m : stack'[i] = stack[i]
<1> DEFINE f == Acted(Top, Alternatives[n].a)
           g == [f EXCEPT !.phase = "close"]
           m == Len(stack) - 1
<1>1. m \in Nat /\ Len(stack) = m + 1 /\ m \in 0..Len(stack)
  <2>1. Len(stack) \in Nat \ {0}
    BY Taken
  <2>2. QED
    BY <2>1
<1>2. stack' = Append(SubSeq(stack, 1, m), g) /\ stack \in Seq(Frames)
  BY DEF EndOpen, Below, TypeOK
<1>3. f \in Frames /\ f.rule = Top.rule /\ (Top.rule # "atom" => f.node = Top.node)
  BY FiresStep DEF EndOpen
<1> HIDE DEF f, m
<1>4. /\ g \in Frames /\ g.grp = f.grp /\ g.at = f.at /\ g.node = f.node /\ g.child = f.child
      /\ g.rule = Top.rule /\ g.phase = "close"
      /\ Top.rule # "atom" => g.node = Top.node
  BY <1>3 DEF Frames
<1> HIDE DEF g
<1>5. /\ stack' \in Seq(Frames) /\ Len(stack') = m + 1 /\ stack'[m + 1] = g
      /\ \A i \in 1..m : stack'[i] = stack[i]
  BY <1>1, <1>2, <1>4, Replaced
<1>6. QED
  BY <1>1, <1>4, <1>5 DEF f

LEMMA ReplaceStep ==
  ASSUME TypeOK, status = "run", NEW n \in DOMAIN Alternatives, First(n),
         ReplaceRule(Alternatives[n])
  PROVE  \E m \in Nat :
           /\ Len(stack) = m + 1 /\ Top.rule = "prod"
           /\ stack' \in Seq(Frames) /\ Len(stack') = m + 1
           /\ stack'[m + 1] = NewFrame("prod", Top.node)
           /\ \A i \in 1..m : stack'[i] = stack[i]
           /\ heap' = heap
<1> DEFINE m == Len(stack) - 1
           g == NewFrame("prod", Top.node)
<1>1. m \in Nat /\ Len(stack) = m + 1 /\ m \in 0..Len(stack)
  <2>1. Len(stack) \in Nat \ {0}
    BY Taken
  <2>2. QED
    BY <2>1
<1>2. Alternatives[n].r = "prod" /\ Top.rule = "prod"
  BY Taken DEF ReplaceRule, AltOK
<1>3. stack' = Append(SubSeq(stack, 1, m), g) /\ stack \in Seq(Frames) /\ heap' = heap
  BY <1>2 DEF ReplaceRule, Below, TypeOK, HeapAfterBo, Owners
<1>4. g \in Frames
  <2>1. Top.node \in Nodes /\ "prod" \in RuleNames
    BY Taken, FrameParts DEF RuleNames
  <2>2. QED
    BY <2>1, NewFrameType DEF TypeOK
<1> HIDE DEF m, g
<1>5. /\ stack' \in Seq(Frames) /\ Len(stack') = m + 1 /\ stack'[m + 1] = g
      /\ \A i \in 1..m : stack'[i] = stack[i]
  BY <1>1, <1>3, <1>4, Replaced
<1>6. QED
  BY <1>1, <1>2, <1>3, <1>5 DEF g

LEMMA PopStep ==
  ASSUME TypeOK, status = "run", NEW n \in DOMAIN Alternatives, First(n),
         PopRule(Alternatives[n])
  PROVE  \E g \in Frames, m \in Nat :
           /\ Len(stack) = m + 2
           /\ g.child = Acted(Top, Alternatives[n].a).node
           /\ g.grp = stack[m + 1].grp /\ g.at = stack[m + 1].at
           /\ heap' = IF Alternatives[n].a = "append" THEN ElemAppends ELSE HeapAfterBc(g)
           /\ g.rule = stack[m + 1].rule /\ g.phase = stack[m + 1].phase
           /\ g.node = stack[m + 1].node
           /\ stack' \in Seq(Frames) /\ Len(stack') = m + 1 /\ stack'[m + 1] = g
           /\ \A i \in 1..m : stack'[i] = stack[i]
           /\ heap' \in Seq(Seq(Nodes)) /\ Len(heap') = Len(heap)
<1> DEFINE alt == Alternatives[n]
           f == Acted(Top, alt.a)
           m == Len(stack) - 2
           g == [stack[Len(stack) - 1] EXCEPT !.child = f.node]
<1>1. m \in Nat /\ Len(stack) = m + 2 /\ m \in 0..Len(stack) /\ Len(stack) - 1 = m + 1
  <2>1. Len(stack) \in Nat \ {0} /\ Len(stack) > 1
    BY Taken DEF PopRule
  <2>2. QED
    BY <2>1
<1>2. stack' = Append(SubSeq(stack, 1, m), g) /\ stack \in Seq(Frames)
  BY DEF PopRule, Below, TypeOK
<1>3. heap' = IF alt.a = "append" THEN ElemAppends ELSE HeapAfterBc(g)
  BY DEF PopRule
<1>4. f \in Frames
  BY FiresStep DEF PopRule, Ends
<1>5. g = [stack[m + 1] EXCEPT !.child = f.node]
  BY <1>1
<1> HIDE DEF f, m, g
<1>6. stack[m + 1] \in Frames
  BY <1>1, <1>2, ElementOfSeq
<1>7. /\ g \in Frames /\ g.child = f.node
      /\ g.grp = stack[m + 1].grp /\ g.at = stack[m + 1].at /\ g.rule = stack[m + 1].rule /\ g.phase = stack[m + 1].phase
      /\ g.node = stack[m + 1].node
  BY <1>4, <1>5, <1>6 DEF Frames
<1>8. heap' \in Seq(Seq(Nodes)) /\ Len(heap') = Len(heap)
  <2>1. [Top.child EXCEPT !.min = Top.min, !.max = Top.max] \in Nodes
    BY Taken DEF Frames, Nodes
  <2>2. /\ ElemAppends \in Seq(Seq(Nodes)) /\ Len(ElemAppends) = Len(heap)
    BY <2>1, AppendedType DEF ElemAppends, TypeOK
  <2>3. /\ HeapAfterBc(g) \in Seq(Seq(Nodes)) /\ Len(HeapAfterBc(g)) = Len(heap)
    BY <1>7, HeapAfterBcType DEF TypeOK
  <2>4. QED
    BY <1>3, <2>2, <2>3
<1>9. /\ stack' \in Seq(Frames) /\ Len(stack') = m + 1 /\ stack'[m + 1] = g
      /\ \A i \in 1..m : stack'[i] = stack[i]
  BY <1>1, <1>2, <1>7, Replaced
<1>10. QED
  BY <1>1, <1>3, <1>7, <1>8, <1>9 DEF alt, f

LEMMA LexStep ==
  ASSUME TypeOK, status = "run", NEW alt, Lex(alt)
  PROVE  TypeOK' /\ stack' = stack /\ heap' = heap
<1>1. PICK x \in NextLexemes :
        /\ input' = Append(input, x)
        /\ la' = Append(la, Lexed(x.kind, Offered(Len(la) + 1)))
        /\ status' \in {"run", "error"}
  BY DEF Lex
<1> DEFINE kind == Lexed(x.kind, Offered(Len(la) + 1))
<1>2. x \in Alphabet \union {End} /\ x.kind \in Kinds
  BY ParserAssumption DEF NextLexemes, End, Kinds, Fixed
<1>3. kind \in Kinds
  BY <1>2 DEF Lexed, Kinds
<1> HIDE DEF kind
<1>4. input' \in Seq(Alphabet \union {End}) /\ Len(input') = Len(input) + 1
  BY <1>1, <1>2, AppendProperties DEF TypeOK
<1>5. la' \in Seq(Kinds) /\ Len(la') = Len(la) + 1
  BY <1>1, <1>3, AppendProperties DEF TypeOK, kind
<1>6. Len(la') <= Len(input')
  <2>1. Len(la) \in Nat /\ Len(input) \in Nat /\ Len(la) <= Len(input)
    BY LenProperties DEF TypeOK
  <2>2. QED
    BY <1>4, <1>5, <2>1
<1>7. stack' = stack /\ heap' = heap
  BY DEF Lex
<1>8. status' \in {"run", "done", "error", "numeric"} /\ (status' = "run" => stack # <<>>)
  BY <1>1 DEF TypeOK
<1>9. QED
  BY <1>4, <1>5, <1>6, <1>7, <1>8 DEF TypeOK

-----------------------------------------------------------------------------
(* Type correctness.                                                       *)

\* The parser's state keeps its types, whatever the text: every reference an
\* action makes is a node, and a running parse always has a rule to run.
THEOREM TypeCorrect == Spec => []TypeOK
<1>1. Init => TypeOK
  <2> SUFFICES ASSUME Init PROVE TypeOK
    OBVIOUS
  <2>1. Undefined \in Nodes /\ Arr(1) \in Nodes
    BY NodeType DEF Undefined, Arr, NodeKinds
  <2>2. stack \in Seq(Frames) /\ stack # <<>>
    <3>1. [rule |-> "abnf", phase |-> "open", grp |-> "", at |-> 0, incr |-> FALSE,
           min |-> 1, max |-> 1, child |-> Undefined, node |-> Arr(1)] \in Frames
      BY <2>1 DEF Frames, RuleNames
    <3>2. QED
      BY <3>1, Single DEF Init
  <2>3. heap \in Seq(Seq(Nodes))
    BY Single, EmptySeq DEF Init
  <2>4. /\ input \in Seq(Alphabet \union {End}) /\ la \in Seq(Kinds)
        /\ Len(la) <= Len(input)
    <3>1. input = <<>> /\ la = <<>>
      BY DEF Init
    <3>2. Len(la) = 0 /\ Len(input) = 0
      BY <3>1, EmptySeq
    <3>3. QED
      BY <3>1, <3>2, EmptySeq
  <2>5. QED
    BY <2>2, <2>3, <2>4 DEF Init, TypeOK
<1>2. ASSUME TypeOK, [Next]_vars
      PROVE  TypeOK'
  <2>1. CASE UNCHANGED vars
    BY <1>2, <2>1 DEF vars, TypeOK
  <2>2. CASE Reject
    BY <1>2, <2>2 DEF Reject, TypeOK
  <2>3. ASSUME status = "run", NEW n \in DOMAIN Alternatives, First(n),
               Step(Alternatives[n])
        PROVE  TypeOK'
    <3> DEFINE alt == Alternatives[n]
    <3>1. CASE Lex(alt)
      BY <1>2, <2>3, <3>1, LexStep
    <3>2. CASE ThrowNumeric(alt)
      BY <1>2, <3>2 DEF ThrowNumeric, TypeOK
    <3>3. ASSUME Fires(alt)
          PROVE  /\ input' \in Seq(Alphabet \union {End})
                 /\ la' \in Seq(Kinds) /\ Len(la') <= Len(input')
      BY <1>2, <2>3, <3>3, FiresStep
    <3>4. CASE PushRule(alt)
      <4>1. stack' \in Seq(Frames) /\ stack' # <<>> /\ heap' \in Seq(Seq(Nodes))
        <5>1. PICK m \in Nat : /\ stack' \in Seq(Frames) /\ Len(stack') = m + 2
                              /\ heap' \in Seq(Seq(Nodes))
          BY <1>2, <2>3, <3>4, PushStep
        <5>2. QED
          BY <5>1, EmptySeq
      <4>2. QED
        BY <1>2, <3>3, <3>4, <4>1 DEF PushRule, TypeOK
    <3>5. CASE EndOpen(alt)
      <4>1. stack' \in Seq(Frames) /\ stack' # <<>>
        BY <1>2, <2>3, <3>5, EndOpenStep, EmptySeq
      <4>2. QED
        BY <1>2, <3>3, <3>5, <4>1 DEF EndOpen, TypeOK
    <3>6. CASE ReplaceRule(alt)
      <4>1. stack' \in Seq(Frames) /\ stack' # <<>> /\ heap' = heap
        BY <1>2, <2>3, <3>6, ReplaceStep, EmptySeq
      <4>2. QED
        BY <1>2, <3>3, <3>6, <4>1 DEF ReplaceRule, TypeOK
    <3>7. CASE PopRule(alt)
      <4>1. stack' \in Seq(Frames) /\ stack' # <<>> /\ heap' \in Seq(Seq(Nodes))
        BY <1>2, <2>3, <3>7, PopStep, EmptySeq
      <4>2. QED
        BY <1>2, <3>3, <3>7, <4>1 DEF PopRule, Ends, TypeOK
    <3>8. CASE Accept(alt)
      <4>1. stack' \in Seq(Frames)
        BY <3>8, EmptySeq DEF Accept
      <4>2. QED
        BY <1>2, <3>3, <3>8, <4>1 DEF Accept, Ends, TypeOK
    <3>9. QED
      BY <2>3, <3>1, <3>2, <3>4, <3>5, <3>6, <3>7, <3>8 DEF Step
  <2>4. QED
    BY <1>2, <2>1, <2>2, <2>3 DEF Next, Ended
<1>3. TypeOK /\ [Next]_vars => TypeOK'
  BY <1>2
<1>4. QED
  BY <1>1, <1>3, PTL DEF Spec

-----------------------------------------------------------------------------
(* The shape of the stack and the arrays its frames refer to.              *)

LEMMA NextLevel ==
  ASSUME NEW n \in Nat \ {0}
  PROVE  LevelRule(n + 1) = ChildOf(LevelRule(n))
<1>1. CASE n = 1
  BY <1>1 DEF LevelRule, ChildOf
<1>2. CASE n = 2
  BY <1>2 DEF LevelRule, ChildOf
<1>3. ASSUME n > 2
      PROVE  /\ n % 4 \in 0..3 /\ (n + 1) % 4 = (IF n % 4 = 3 THEN 0 ELSE (n % 4) + 1)
             /\ n # 1 /\ n # 2 /\ n + 1 # 1 /\ n + 1 # 2
  BY <1>3
<1>4. CASE n > 2
  <2>1. CASE n % 4 = 0
    BY <1>3, <1>4, <2>1 DEF LevelRule, ChildOf
  <2>2. CASE n % 4 = 1
    BY <1>3, <1>4, <2>2 DEF LevelRule, ChildOf
  <2>3. CASE n % 4 = 2
    BY <1>3, <1>4, <2>3 DEF LevelRule, ChildOf
  <2>4. CASE n % 4 = 3
    BY <1>3, <1>4, <2>4 DEF LevelRule, ChildOf
  <2>5. QED
    BY <1>3, <1>4, <2>1, <2>2, <2>3, <2>4
<1>5. QED
  BY <1>1, <1>2, <1>4

\* A bracket costs the engine four rule levels and nothing else costs any
\* (rs/src/parser_abnf.rs 45-59), in texts of any depth.
THEOREM LevelsFollowBrackets == Spec => []FourLevelsPerBracket
<1>1. Init => FourLevelsPerBracket
  <2> SUFFICES ASSUME Init PROVE FourLevelsPerBracket
    OBVIOUS
  <2>1. Len(stack) = 1 /\ DOMAIN stack = 1..1 /\ stack[1].rule = "abnf"
    <3> DEFINE f == [rule |-> "abnf", phase |-> "open", grp |-> "", at |-> 0,
                     incr |-> FALSE, min |-> 1, max |-> 1, child |-> Undefined,
                     node |-> Arr(1)]
    <3>1. stack = <<f>>
      BY DEF Init
    <3>2. f.rule = "abnf"
      OBVIOUS
    <3> HIDE DEF f
    <3>3. QED
      BY <3>1, <3>2
  <2>2. QED
    BY <2>1 DEF FourLevelsPerBracket, LevelRule
<1>2. ASSUME TypeOK, FourLevelsPerBracket, [Next]_vars
      PROVE  FourLevelsPerBracket'
  <2>1. CASE UNCHANGED stack
    BY <1>2, <2>1 DEF FourLevelsPerBracket
  <2>2. ASSUME status = "run", NEW n \in DOMAIN Alternatives, First(n),
               Step(Alternatives[n])
        PROVE  FourLevelsPerBracket'
    <3> DEFINE alt == Alternatives[n]
    <3>1. DOMAIN stack = 1..Len(stack) /\ Len(stack) \in Nat
      BY <1>2, LenProperties DEF TypeOK
    <3>2. Top = stack[Len(stack)]
      BY DEF Top
    <3>3. CASE PushRule(alt)
      <4>1. PICK g \in Frames, rule \in RuleNames, m \in Nat :
              /\ Len(stack) = m + 1 /\ rule = ChildOf(Top.rule) /\ g.rule = Top.rule
              /\ Top.rule = "atom" => g.grp # ""
              /\ stack' \in Seq(Frames) /\ Len(stack') = m + 2
              /\ stack'[m + 1] = g /\ stack'[m + 2] = NewFrame(rule, g.node)
              /\ \A i \in 1..m : stack'[i] = stack[i]
        BY <1>2, <2>2, <3>3, PushStep
      <4>2. DOMAIN stack' = 1..(m + 2)
        BY <4>1, LenProperties
      <4>3. NewFrame(rule, g.node).rule = rule
        BY DEF NewFrame
      <4>4. LevelRule(m + 2) = ChildOf(LevelRule(m + 1))
        BY NextLevel
      <4>5. ASSUME NEW i \in 1..(m + 2)
            PROVE  /\ stack'[i].rule = LevelRule(i)
                   /\ i < m + 2 /\ stack'[i].rule = "atom" => stack'[i].grp # ""
        <5>1. m \in Nat /\ Len(stack) = m + 1
          BY <4>1
        <5>2. /\ stack[m + 1].rule = LevelRule(m + 1)
              /\ \A k \in 1..m : /\ stack[k].rule = LevelRule(k)
                                 /\ stack[k].rule = "atom" => stack[k].grp # ""
          <6>1. /\ m + 1 \in DOMAIN stack
                /\ \A k \in 1..m : k \in DOMAIN stack /\ k < Len(stack)
            BY <3>1, <5>1
          <6>2. QED
            BY <1>2, <6>1 DEF FourLevelsPerBracket
        <5>3. CASE i = m + 2
          <6>1. stack'[i].rule = ChildOf(stack[m + 1].rule)
            BY <3>2, <4>1, <4>3, <5>3
          <6>2. stack'[i].rule = LevelRule(i)
            BY <4>4, <5>2, <5>3, <6>1
          <6>3. ~(i < m + 2)
            BY <5>1, <5>3
          <6>4. QED
            BY <6>2, <6>3
        <5>4. CASE i = m + 1
          <6>1. /\ stack'[i].rule = stack[m + 1].rule
                /\ stack'[i].rule = "atom" => stack'[i].grp # ""
            BY <3>2, <4>1, <5>4
          <6>2. QED
            BY <5>2, <5>4, <6>1
        <5>5. CASE i \in 1..m
          <6>1. stack'[i] = stack[i]
            BY <4>1, <5>5
          <6>2. QED
            BY <5>2, <5>5, <6>1
        <5>6. QED
          <6>1. i = m + 2 \/ i = m + 1 \/ i \in 1..m
            BY <5>1
          <6>2. QED
            BY <5>3, <5>4, <5>5, <6>1
      <4>6. QED
        BY <4>1, <4>2, <4>5 DEF FourLevelsPerBracket
    <3>4. ASSUME NEW m \in Nat, m + 1 <= Len(stack),
                 stack' \in Seq(Frames), Len(stack') = m + 1,
                 stack'[m + 1].rule = stack[m + 1].rule,
                 \A i \in 1..m : stack'[i] = stack[i]
          PROVE  FourLevelsPerBracket'
      <4>1. DOMAIN stack' = 1..(m + 1)
        BY <3>4, LenProperties
      <4>2. ASSUME NEW i \in 1..(m + 1)
            PROVE  /\ stack'[i].rule = LevelRule(i)
                   /\ i < m + 1 /\ stack'[i].rule = "atom" => stack'[i].grp # ""
        <5>1. /\ stack[i].rule = LevelRule(i)
              /\ i < m + 1 /\ stack[i].rule = "atom" => stack[i].grp # ""
          <6>1. i \in DOMAIN stack /\ (i < m + 1 => i < Len(stack))
            BY <3>1, <3>4
          <6>2. QED
            BY <1>2, <6>1 DEF FourLevelsPerBracket
        <5>2. stack'[i].rule = stack[i].rule /\ (i < m + 1 => stack'[i] = stack[i])
          BY <3>4
        <5>3. QED
          BY <5>1, <5>2
      <4>3. QED
        BY <3>4, <4>1, <4>2 DEF FourLevelsPerBracket
    <3>5. CASE EndOpen(alt)
      <4>1. PICK g \in Frames, m \in Nat :
              /\ Len(stack) = m + 1 /\ g.rule = Top.rule
              /\ stack' \in Seq(Frames) /\ Len(stack') = m + 1 /\ stack'[m + 1] = g
              /\ \A i \in 1..m : stack'[i] = stack[i]
        BY <1>2, <2>2, <3>5, EndOpenStep
      <4>2. m + 1 <= Len(stack) /\ stack'[m + 1].rule = stack[m + 1].rule
        BY <3>2, <4>1
      <4>3. QED
        BY <3>4, <4>1, <4>2
    <3>6. CASE ReplaceRule(alt)
      <4>1. PICK m \in Nat :
              /\ Len(stack) = m + 1 /\ Top.rule = "prod"
              /\ stack' \in Seq(Frames) /\ Len(stack') = m + 1
              /\ stack'[m + 1] = NewFrame("prod", Top.node)
              /\ \A i \in 1..m : stack'[i] = stack[i]
        BY <1>2, <2>2, <3>6, ReplaceStep
      <4>2. m + 1 <= Len(stack) /\ stack'[m + 1].rule = stack[m + 1].rule
        <5>1. NewFrame("prod", Top.node).rule = "prod"
          BY DEF NewFrame
        <5>2. m \in Nat /\ Len(stack) = m + 1
          BY <4>1
        <5>3. QED
          BY <3>2, <4>1, <5>1, <5>2
      <4>3. QED
        BY <3>4, <4>1, <4>2
    <3>7. CASE PopRule(alt)
      <4>1. PICK g \in Frames, m \in Nat :
              /\ Len(stack) = m + 2 /\ g.rule = stack[m + 1].rule
              /\ stack' \in Seq(Frames) /\ Len(stack') = m + 1 /\ stack'[m + 1] = g
              /\ \A i \in 1..m : stack'[i] = stack[i]
        BY <1>2, <2>2, <3>7, PopStep
      <4>2. m + 1 <= Len(stack) /\ stack'[m + 1].rule = stack[m + 1].rule
        BY <4>1
      <4>3. QED
        BY <3>4, <4>1, <4>2
    <3>8. CASE Accept(alt)
      <4>1. DOMAIN stack' = {}
        BY <3>8 DEF Accept
      <4>2. QED
        BY <4>1 DEF FourLevelsPerBracket
    <3>9. CASE Lex(alt) \/ ThrowNumeric(alt)
      BY <2>1, <3>9 DEF Lex, ThrowNumeric
    <3>10. QED
      BY <2>2, <3>3, <3>5, <3>6, <3>7, <3>8, <3>9 DEF Step
  <2>3. QED
    BY <1>2, <2>1, <2>2 DEF Next, Ended, Reject, vars
<1>3. TypeOK /\ FourLevelsPerBracket /\ [Next]_vars => FourLevelsPerBracket'
  BY <1>2
<1>4. QED
  BY <1>1, <1>3, TypeCorrect, PTL DEF Spec

\* The node of the frame at level n of a stack s over arrays 1..size.
Place(s, size, n) ==
  /\ s[n].rule # "atom" => s[n].node.kind = "arr" /\ s[n].node.ref \in 1..size
  /\ s[n].rule \in {"prod", "elem"} => s[n].node = s[n - 1].node
  /\ s[n].rule \in {"alts", "seq"} =>
       \A m \in 1..(n - 1) : s[m].node.ref < s[n].node.ref

\* The inductive invariant: NodesInPlace, and that an atom refers to no array
\* before its bracket is closed, which is when it is the running frame.
Placed ==
  /\ \A n \in DOMAIN stack : Place(stack, Len(heap), n)
  /\ \A n \in DOMAIN stack :
       stack[n].rule = "atom" /\ (n < Len(stack) \/ stack[n].phase = "open")
         => stack[n].node.ref = 0

\* A frame that keeps its rule and its node stays in place.
LEMMA PlaceKept ==
  ASSUME NEW s, NEW t, NEW y \in Nat, NEW z \in Nat, y <= z, NEW i \in Nat \ {0},
         s[1].rule = "abnf", Place(s, y, i),
         \A k \in 1..i : t[k].rule = s[k].rule,
         \A k \in 1..(i - 1) : t[k].node = s[k].node,
         s[i].rule # "atom" => t[i].node = s[i].node
  PROVE  Place(t, z, i)
<1>1. t[i].rule = s[i].rule
  OBVIOUS
<1>2. t[i].rule # "atom" => t[i].node.kind = "arr" /\ t[i].node.ref \in 1..z
  <2>1. s[i].node.ref \in 1..y => s[i].node.ref \in 1..z
    OBVIOUS
  <2>2. QED
    BY <1>1, <2>1 DEF Place
<1>3. t[i].rule \in {"prod", "elem"} => t[i].node = t[i - 1].node
  <2>1. CASE i = 1
    BY <1>1, <2>1
  <2>2. CASE i # 1
    <3>1. i - 1 \in 1..(i - 1)
      BY <2>2
    <3>2. QED
      BY <1>1, <3>1 DEF Place
  <2>3. QED
    BY <2>1, <2>2
<1>4. t[i].rule \in {"alts", "seq"} =>
        \A m \in 1..(i - 1) : t[m].node.ref < t[i].node.ref
  BY <1>1 DEF Place
<1>5. QED
  BY <1>2, <1>3, <1>4 DEF Place

\* The actions' appends land in the arrays they are meant for: a reference a
\* frame inherits is never one that another rule's bo or bc has replaced.
THEOREM AppendsLandInPlace == Spec => []NodesInPlace
<1> DEFINE Inv == TypeOK /\ FourLevelsPerBracket
<1>1. Init => Placed
  <2> SUFFICES ASSUME Init PROVE Placed
    OBVIOUS
  <2> DEFINE f == [rule |-> "abnf", phase |-> "open", grp |-> "", at |-> 0,
                   incr |-> FALSE, min |-> 1, max |-> 1, child |-> Undefined,
                   node |-> Arr(1)]
  <2>1. stack = <<f>> /\ f.rule = "abnf" /\ f.node.kind = "arr" /\ f.node.ref = 1
    BY DEF Init, Arr, Node
  <2> HIDE DEF f
  <2>2. Len(heap) = 1
    BY Single DEF Init
  <2>3. DOMAIN stack = {1} /\ stack[1] = f
    BY <2>1
  <2>4. QED
    BY <2>1, <2>2, <2>3 DEF Placed, Place
<1>2. ASSUME Inv, Placed, [Next]_vars
      PROVE  Placed'
  <2>1. CASE UNCHANGED <<stack, heap>>
    BY <1>2, <2>1 DEF Placed
  <2>2. ASSUME status = "run", NEW n \in DOMAIN Alternatives, First(n),
               Step(Alternatives[n])
        PROVE  Placed'
    <3> DEFINE alt == Alternatives[n]
               z   == Len(heap)
    <3>1. /\ Len(stack) \in Nat \ {0} /\ DOMAIN stack = 1..Len(stack) /\ z \in Nat
          /\ Top = stack[Len(stack)]
      BY <1>2, EmptySeq, LenProperties, <2>2 DEF TypeOK, Top
    <3>2. stack[1].rule = "abnf"
      <4>1. 1 \in DOMAIN stack
        BY <3>1
      <4>2. QED
        BY <1>2, <4>1 DEF FourLevelsPerBracket, LevelRule
    <3>3. \A i \in 1..Len(stack) :
            /\ Place(stack, z, i)
            /\ stack[i].rule = "atom" /\ (i < Len(stack) \/ stack[i].phase = "open")
                 => stack[i].node.ref = 0
      BY <1>2, <3>1 DEF Placed
    <3> HIDE DEF z
    \* Frames below the top are left alone by every step but their own.
    <3>4. ASSUME NEW m \in Nat, m + 1 <= Len(stack),
                 stack' \in Seq(Frames), Len(stack') = m + 1,
                 stack'[m + 1].rule = stack[m + 1].rule,
                 stack[m + 1].rule # "atom" => stack'[m + 1].node = stack[m + 1].node,
                 stack'[m + 1].rule = "atom" /\ stack'[m + 1].phase = "open"
                   => stack'[m + 1].node.ref = 0,
                 \A i \in 1..m : stack'[i] = stack[i],
                 Len(heap') = z
          PROVE  Placed'
      <4>1. DOMAIN stack' = 1..(m + 1)
        BY <3>4, LenProperties
      <4>2. ASSUME NEW i \in 1..(m + 1)
            PROVE  Place(stack', z, i)
        <5>1. Place(stack, z, i) /\ i \in Nat \ {0} /\ z <= z
          BY <3>1, <3>3, <3>4
        <5>2. /\ \A k \in 1..i : stack'[k].rule = stack[k].rule
              /\ \A k \in 1..(i - 1) : stack'[k].node = stack[k].node
              /\ stack[i].rule # "atom" => stack'[i].node = stack[i].node
          BY <3>4
        <5>3. QED
          BY <3>1, <3>2, <5>1, <5>2, PlaceKept
      <4>3. ASSUME NEW i \in 1..(m + 1), stack'[i].rule = "atom",
                   i < m + 1 \/ stack'[i].phase = "open"
            PROVE  stack'[i].node.ref = 0
        <5>1. CASE i = m + 1
          BY <3>4, <4>3, <5>1
        <5>2. CASE i < m + 1
          <6>1. i \in 1..Len(stack) /\ i < Len(stack) /\ stack'[i] = stack[i]
            BY <3>1, <3>4, <5>2
          <6>2. QED
            BY <3>3, <4>3, <6>1
        <5>3. QED
          BY <5>1, <5>2
      <4>4. QED
        BY <3>4, <4>1, <4>2, <4>3 DEF Placed
    <3>5. CASE EndOpen(alt)
      <4>1. PICK g \in Frames, m \in Nat :
              /\ Len(stack) = m + 1
              /\ g.rule = Top.rule /\ g.phase = "close"
              /\ Top.rule # "atom" => g.node = Top.node
              /\ stack' \in Seq(Frames) /\ Len(stack') = m + 1 /\ stack'[m + 1] = g
              /\ \A i \in 1..m : stack'[i] = stack[i]
        BY <1>2, <2>2, <3>5, EndOpenStep
      <4>2. /\ m + 1 <= Len(stack) /\ Len(heap') = z
            /\ stack'[m + 1].rule = stack[m + 1].rule
            /\ stack[m + 1].rule # "atom" => stack'[m + 1].node = stack[m + 1].node
            /\ stack'[m + 1].phase # "open"
        <5>1. Len(heap') = z
          BY <3>5 DEF EndOpen, z
        <5>2. m + 1 <= Len(stack) /\ Top = stack[m + 1]
          BY <3>1, <4>1
        <5>3. QED
          BY <4>1, <5>1, <5>2
      <4>3. QED
        BY <3>4, <4>1, <4>2
    <3>6. CASE ReplaceRule(alt)
      <4>1. PICK m \in Nat :
              /\ Len(stack) = m + 1 /\ Top.rule = "prod"
              /\ stack' \in Seq(Frames) /\ Len(stack') = m + 1
              /\ stack'[m + 1] = NewFrame("prod", Top.node)
              /\ \A i \in 1..m : stack'[i] = stack[i]
              /\ heap' = heap
        BY <1>2, <2>2, <3>6, ReplaceStep
      <4>2. NewFrame("prod", Top.node).rule = "prod" /\ NewFrame("prod", Top.node).node = Top.node
        BY DEF NewFrame, Owners
      <4>3. /\ m + 1 <= Len(stack) /\ Len(heap') = z
            /\ stack'[m + 1].rule = stack[m + 1].rule /\ stack'[m + 1].rule # "atom"
            /\ stack'[m + 1].node = stack[m + 1].node
        BY <3>1, <4>1, <4>2 DEF z
      <4>4. QED
        BY <3>4, <4>1, <4>3
    <3>7. CASE PopRule(alt)
      <4>1. PICK g \in Frames, m \in Nat :
              /\ Len(stack) = m + 2
              /\ g.rule = stack[m + 1].rule /\ g.node = stack[m + 1].node
              /\ stack' \in Seq(Frames) /\ Len(stack') = m + 1 /\ stack'[m + 1] = g
              /\ \A i \in 1..m : stack'[i] = stack[i]
              /\ Len(heap') = Len(heap)
        BY <1>2, <2>2, <3>7, PopStep
      <4>2. m + 1 \in 1..Len(stack) /\ m + 1 < Len(stack) /\ m + 1 <= Len(stack)
        BY <4>1
      <4>3. stack[m + 1].rule = "atom" => stack[m + 1].node.ref = 0
        BY <3>3, <4>2
      <4>4. /\ stack'[m + 1].rule = stack[m + 1].rule /\ Len(heap') = z
            /\ stack'[m + 1].node = stack[m + 1].node
        BY <4>1 DEF z
      <4>5. QED
        BY <3>4, <4>1, <4>2, <4>3, <4>4
    <3>8. CASE Accept(alt)
      <4>1. DOMAIN stack' = {}
        BY <3>8 DEF Accept
      <4>2. QED
        BY <4>1 DEF Placed
    <3>9. CASE Lex(alt) \/ ThrowNumeric(alt)
      BY <2>1, <3>9 DEF Lex, ThrowNumeric
    <3>10. CASE PushRule(alt)
      <4>1. PICK g \in Frames, rule \in RuleNames, m \in Nat :
              /\ Len(stack) = m + 1 /\ rule = ChildOf(Top.rule)
              /\ g.rule = Top.rule /\ g.node = Top.node
              /\ Top.rule = "atom" => Top.phase = "open"
              /\ stack' \in Seq(Frames) /\ Len(stack') = m + 2
              /\ stack'[m + 1] = g /\ stack'[m + 2] = NewFrame(rule, g.node)
              /\ \A i \in 1..m : stack'[i] = stack[i]
              /\ heap' = HeapAfterBo(rule)
        BY <1>2, <2>2, <3>10, PushStep
      <4> DEFINE h == NewFrame(rule, g.node)
                 y == Len(heap')
      <4>2. DOMAIN stack' = 1..(m + 2) /\ m \in Nat /\ Len(stack) = m + 1
        BY <4>1, LenProperties
      <4>3. y = z + (IF rule \in Owners THEN 1 ELSE 0) /\ y \in Nat /\ z <= y
        <5>1. y = z + (IF rule \in Owners THEN 1 ELSE 0)
          BY <1>2, <4>1, HeapGrows DEF TypeOK, z
        <5> HIDE DEF y
        <5>2. QED
          BY <3>1, <5>1
      <4>4. /\ h.rule = rule
            /\ rule \in Owners => h.node = Arr(z + 1)
            /\ rule \in {"prod", "elem"} => h.node = g.node
            /\ rule = "atom" => h.node = Undefined
        BY DEF NewFrame, Owners, z
      <4> HIDE DEF h, y
      <4>5. /\ \A k \in 1..(m + 1) : /\ stack'[k].rule = stack[k].rule
                                     /\ stack'[k].node = stack[k].node
            /\ \A k \in 1..(m + 1) : Place(stack, z, k)
            /\ \A k \in 1..(m + 1) : stack[k].rule = "atom" => stack[k].node.ref = 0
        <5>1. Top = stack[m + 1] /\ stack'[m + 1] = g
          BY <3>1, <4>1, <4>2
        <5>2. ASSUME NEW k \in 1..(m + 1)
              PROVE  stack'[k].rule = stack[k].rule /\ stack'[k].node = stack[k].node
          <6>1. k = m + 1 \/ k \in 1..m
            BY <4>2
          <6>2. QED
            BY <4>1, <5>1, <6>1
        <5>3. ASSUME NEW k \in 1..(m + 1)
              PROVE  /\ Place(stack, z, k)
                     /\ stack[k].rule = "atom" => stack[k].node.ref = 0
          <6>1. k \in 1..Len(stack) /\ (k = m + 1 \/ k < Len(stack))
            BY <4>2
          <6>2. k = m + 1 /\ stack[k].rule = "atom" => stack[k].phase = "open"
            BY <4>1, <5>1
          <6>3. QED
            BY <3>3, <6>1, <6>2
        <5>4. QED
          BY <5>2, <5>3
      <4>6. ASSUME NEW i \in 1..(m + 1)
            PROVE  Place(stack', y, i)
        <5>1. i \in Nat \ {0} /\ Place(stack, z, i)
          BY <4>2, <4>5
        <5>2. /\ \A k \in 1..i : stack'[k].rule = stack[k].rule
              /\ \A k \in 1..(i - 1) : stack'[k].node = stack[k].node
              /\ stack'[i].node = stack[i].node
          BY <4>2, <4>5
        <5>3. QED
          BY <3>1, <3>2, <4>3, <5>1, <5>2, PlaceKept
      <4>7. Place(stack', y, m + 2)
        <5>1. stack'[m + 2] = h
          BY <4>1 DEF h
        <5>2. rule \in Owners =>
                h.node.kind = "arr" /\ h.node.ref = z + 1 /\ h.node.ref \in 1..y
          BY <3>1, <4>3, <4>4 DEF Arr, Node
        <5>3. \A k \in 1..(m + 1) : stack'[k].node.ref < z + 1
          <6>1. ASSUME NEW k \in 1..(m + 1)
                PROVE  stack[k].node.ref < z + 1
            <7>1. stack[k].node.ref \in 1..z \/ stack[k].node.ref = 0
              BY <4>5 DEF Place
            <7>2. QED
              BY <3>1, <7>1
          <6>2. QED
            BY <4>5, <6>1
        <5>4. rule \in {"prod", "elem"} =>
                /\ h.node = stack'[m + 1].node
                /\ h.node.kind = "arr" /\ h.node.ref \in 1..y
          <6>1. rule \in {"prod", "elem"} => stack'[m + 1].rule # "atom"
            <7>1. rule = ChildOf(g.rule) /\ stack'[m + 1].rule = g.rule
              BY <4>1
            <7>2. QED
              BY <7>1 DEF ChildOf
          <6>2. m + 1 \in 1..(m + 1)
            BY <4>2
          <6>3. stack'[m + 1].rule # "atom" =>
                  stack'[m + 1].node.kind = "arr" /\ stack'[m + 1].node.ref \in 1..y
            BY <4>6, <6>2 DEF Place
          <6>4. QED
            BY <4>1, <4>4, <6>1, <6>3
        <5>5. rule \in Owners \/ rule \in {"prod", "elem"} \/ rule = "atom"
          BY DEF RuleNames, Owners
        <5>6. h.rule = rule /\ m + 2 - 1 = m + 1
          BY <4>2, <4>4
        <5>7. /\ h.rule # "atom" => h.node.kind = "arr" /\ h.node.ref \in 1..y
              /\ h.rule \in {"prod", "elem"} => h.node = stack'[m + 1].node
              /\ h.rule \in {"alts", "seq"} =>
                   \A k \in 1..(m + 1) : stack'[k].node.ref < h.node.ref
          BY <5>2, <5>3, <5>4, <5>5, <5>6 DEF Owners
        <5>8. QED
          BY <5>1, <5>6, <5>7 DEF Place
      <4>8. ASSUME NEW i \in 1..(m + 2), stack'[i].rule = "atom"
            PROVE  stack'[i].node.ref = 0
        <5>1. CASE i = m + 2
          BY <4>1, <4>4, <4>8, <5>1 DEF h, Undefined, Node
        <5>2. CASE i \in 1..(m + 1)
          BY <4>5, <4>8, <5>2
        <5>3. QED
          BY <4>2, <5>1, <5>2
      <4>9. ASSUME NEW i \in 1..(m + 2)
            PROVE  Place(stack', y, i)
        <5>1. i = m + 2 \/ i \in 1..(m + 1)
          BY <4>2
        <5>2. QED
          BY <4>6, <4>7, <5>1
      <4>10. QED
        BY <4>2, <4>8, <4>9 DEF Placed, y
    <3>11. QED
      BY <2>2, <3>5, <3>6, <3>7, <3>8, <3>9, <3>10 DEF Step
  <2>3. QED
    BY <1>2, <2>1, <2>2 DEF Next, Ended, Reject, vars
<1>3. Inv /\ Placed => NodesInPlace
  <2> SUFFICES ASSUME TypeOK, Placed PROVE NodesInPlace
    OBVIOUS
  <2>1. DOMAIN heap = 1..Len(heap)
    BY LenProperties DEF TypeOK
  <2>2. QED
    BY <2>1 DEF Placed, Place, NodesInPlace
<1>4. Inv /\ Placed /\ [Next]_vars => Placed'
  BY <1>2
<1>5. QED
  BY <1>1, <1>3, <1>4, TypeCorrect, LevelsFollowBrackets, PTL DEF Spec

-----------------------------------------------------------------------------
(* Texts: brackets opened and not closed, and what a further lexeme leaves *)
(* as it was.                                                              *)

Lexemes ==
  {x \in [kind : Kinds \ {"NR"}, val : Nat] : x.kind = "NV" => x.val \in {0, Fault}}

LEMMA TextLexemes == Alphabet \union {End} \subseteq Lexemes
<1>1. \A x \in Alphabet : x \in Lexemes
  BY ParserAssumption DEF Lexemes
<1>2. End \in Lexemes
  BY DEF End, Lexemes, Kinds, Fixed
<1>3. QED
  BY <1>1, <1>2

LEMMA TextIs ==
  ASSUME TypeOK
  PROVE  input \in Seq(Lexemes)
BY TextLexemes, SeqMonotonic DEF TypeOK

\* Brackets opened and not closed in the first k lexemes of w.
Depth(w, k) == Balance(w, 1, k)

TurnOf(kind) ==
  IF kind \in {"LP", "OB"} THEN 1 ELSE IF kind \in {"RP", "CB"} THEN -1 ELSE 0

LEMMA UpTo ==
  ASSUME NEW X, NEW i \in Int, NEW k \in Int
  PROVE  IsFiniteSet(X \intersect (i..k)) /\ Cardinality(X \intersect (i..k)) \in Nat
<1>1. IsFiniteSet(i..k)
  BY FS_Interval
<1>2. IsFiniteSet(X \intersect (i..k))
  BY <1>1, FS_Intersection
<1>3. QED
  BY <1>2, FS_CardinalityType

LEMMA UpToNext ==
  ASSUME NEW X, NEW k \in Nat
  PROVE  /\ Cardinality(X \intersect (1..k)) \in Nat
         /\ Cardinality(X \intersect (1..(k + 1))) =
              IF k + 1 \in X THEN Cardinality(X \intersect (1..k)) + 1
              ELSE Cardinality(X \intersect (1..k))
<1> DEFINE S == X \intersect (1..k)
<1>1. IsFiniteSet(S) /\ Cardinality(S) \in Nat
  <2>1. 1 \in Int /\ k \in Int
    OBVIOUS
  <2>2. QED
    BY <2>1, UpTo
<1>2. CASE k + 1 \in X
  <2>1. X \intersect (1..(k + 1)) = S \union {k + 1} /\ k + 1 \notin S
    BY <1>2
  <2> HIDE DEF S
  <2>2. QED
    BY <1>1, <1>2, <2>1, FS_AddElement DEF S
<1>3. CASE k + 1 \notin X
  <2>1. X \intersect (1..(k + 1)) = S
    BY <1>3
  <2>2. QED
    BY <1>1, <1>3, <2>1
<1>4. QED
  BY <1>2, <1>3

\* Opens, Closes and Headers by the kinds at their positions.
LEMMA KindsAt ==
  ASSUME NEW w \in Seq(Lexemes), NEW i
  PROVE  /\ Len(w) \in Nat /\ DOMAIN w = 1..Len(w)
         /\ i \in Opens(w) <=> KindAt(w, i) \in {"LP", "OB"}
         /\ i \in Closes(w) <=> KindAt(w, i) \in {"RP", "CB"}
         /\ i \in DOMAIN w <=> KindAt(w, i) # ""
         /\ i \in DOMAIN w => w[i] \in Lexemes /\ w[i].kind = KindAt(w, i)
         /\ i \in Elements(w) <=> /\ KindAt(w, i) \in Starters
                                  /\ ~IsHeader(w, i)
                                  /\ KindAt(w, i - 1) \notin {"SS", "SI"}
<1>1. Len(w) \in Nat /\ DOMAIN w = 1..Len(w)
  BY LenProperties
<1>2. i \in DOMAIN w => w[i] \in Lexemes /\ w[i].kind = KindAt(w, i)
  BY <1>1, ElementOfSeq DEF KindAt
<1>3. i \notin DOMAIN w => KindAt(w, i) = ""
  BY DEF KindAt
<1>4. \A x \in Lexemes : x.kind # ""
  <2>1. "" \notin Kinds
    BY DEF Kinds, Fixed, Matched
  <2>2. QED
    BY <2>1 DEF Lexemes
<1>5. QED
  BY <1>1, <1>2, <1>3, <1>4 DEF Opens, Closes, Elements, Starters

LEMMA DepthStep ==
  ASSUME NEW w \in Seq(Lexemes), NEW k \in Nat
  PROVE  /\ Depth(w, 0) = 0 /\ Depth(w, k) \in Int
         /\ Depth(w, k + 1) = Depth(w, k) + TurnOf(KindAt(w, k + 1))
<1>1. /\ k + 1 \in Opens(w) <=> KindAt(w, k + 1) \in {"LP", "OB"}
      /\ k + 1 \in Closes(w) <=> KindAt(w, k + 1) \in {"RP", "CB"}
  BY KindsAt
<1>2. /\ Cardinality(Opens(w) \intersect (1..0)) = 0
      /\ Cardinality(Closes(w) \intersect (1..0)) = 0
  <2>1. (1..0) = {} /\ \A X : X \intersect {} = {}
    OBVIOUS
  <2>2. QED
    BY <2>1, FS_EmptySet
<1>3. ASSUME NEW X
      PROVE  /\ Cardinality(X \intersect (1..k)) \in Nat
             /\ Cardinality(X \intersect (1..(k + 1))) =
                  IF k + 1 \in X THEN Cardinality(X \intersect (1..k)) + 1
                  ELSE Cardinality(X \intersect (1..k))
  BY UpToNext
<1>4. Depth(w, 0) = 0
  BY <1>2 DEF Depth, Balance
<1> DEFINE o(m) == Cardinality(Opens(w) \intersect (1..m))
           c(m) == Cardinality(Closes(w) \intersect (1..m))
<1>5. /\ Depth(w, k) = o(k) - c(k) /\ Depth(w, k + 1) = o(k + 1) - c(k + 1)
      /\ o(k) \in Nat /\ c(k) \in Nat
      /\ o(k + 1) = IF k + 1 \in Opens(w) THEN o(k) + 1 ELSE o(k)
      /\ c(k + 1) = IF k + 1 \in Closes(w) THEN c(k) + 1 ELSE c(k)
  BY <1>3 DEF Depth, Balance
<1> HIDE DEF o, c
<1>6. /\ Depth(w, k) \in Int
      /\ Depth(w, k + 1) = Depth(w, k) + TurnOf(KindAt(w, k + 1))
  BY <1>1, <1>5 DEF TurnOf
<1>7. QED
  BY <1>4, <1>6

LEMMA BalanceIs ==
  ASSUME NEW w \in Seq(Lexemes), NEW i \in Nat \ {0}, NEW k \in Nat, i <= k + 1
  PROVE  Balance(w, i, k) = Depth(w, k) - Depth(w, i - 1)
<1>1. ASSUME NEW X
      PROVE  /\ Cardinality(X \intersect (1..k)) =
                  Cardinality(X \intersect (1..(i - 1))) + Cardinality(X \intersect (i..k))
             /\ Cardinality(X \intersect (i..k)) \in Nat
             /\ Cardinality(X \intersect (1..(i - 1))) \in Nat
  <2> DEFINE A == X \intersect (1..(i - 1))
             B == X \intersect (i..k)
  <2>1. IsFiniteSet(A) /\ IsFiniteSet(B) /\ Cardinality(A) \in Nat /\ Cardinality(B) \in Nat
    <3>1. 1 \in Int /\ i - 1 \in Int /\ i \in Int /\ k \in Int
      OBVIOUS
    <3>2. QED
      BY <3>1, UpTo
  <2>2. A \intersect B = {} /\ A \union B = X \intersect (1..k)
    OBVIOUS
  <2> HIDE DEF A, B
  <2>3. Cardinality(A \union B) = Cardinality(A) + Cardinality(B) - Cardinality(A \intersect B)
    BY <2>1, FS_Union
  <2>4. Cardinality(A \intersect B) = 0
    BY <2>2, FS_EmptySet
  <2>5. Cardinality(A \union B) = Cardinality(A) + Cardinality(B)
    BY <2>1, <2>3, <2>4
  <2>6. QED
    BY <2>1, <2>2, <2>5 DEF A, B
<1> DEFINE o(m, n) == Cardinality(Opens(w) \intersect (m..n))
           c(m, n) == Cardinality(Closes(w) \intersect (m..n))
<1>2. /\ o(1, k) = o(1, i - 1) + o(i, k) /\ o(i, k) \in Nat /\ o(1, i - 1) \in Nat
      /\ c(1, k) = c(1, i - 1) + c(i, k) /\ c(i, k) \in Nat /\ c(1, i - 1) \in Nat
  BY <1>1
<1>3. /\ Balance(w, i, k) = o(i, k) - c(i, k) /\ Depth(w, k) = o(1, k) - c(1, k)
      /\ Depth(w, i - 1) = o(1, i - 1) - c(1, i - 1)
  BY DEF Balance, Depth
<1> HIDE DEF o, c
<1>4. QED
  BY <1>2, <1>3

-----------------------------------------------------------------------------
LEMMA KindOfLonger ==
  ASSUME NEW w \in Seq(Lexemes), NEW x \in Lexemes, NEW i \in Int
  PROVE  LET v == Append(w, x)
         IN  /\ v \in Seq(Lexemes) /\ Len(v) = Len(w) + 1
             /\ KindAt(v, i) = IF i = Len(w) + 1 THEN x.kind ELSE KindAt(w, i)
             /\ i \in DOMAIN w => i \in DOMAIN v /\ v[i] = w[i]
             /\ v[Len(w) + 1] = x
<1> DEFINE v == Append(w, x)
           n == Len(w)
<1>1. /\ v \in Seq(Lexemes) /\ Len(v) = n + 1
      /\ \A k \in 1..n : v[k] = w[k]
      /\ v[n + 1] = x
  BY AppendProperties
<1>2. n \in Nat /\ DOMAIN w = 1..n /\ DOMAIN v = 1..(n + 1)
  BY <1>1, LenProperties
<1> HIDE DEF v, n
<1>3. CASE i \in 1..n
  <2>1. i \in DOMAIN w /\ i \in DOMAIN v /\ v[i] = w[i] /\ i # n + 1
    BY <1>1, <1>2, <1>3
  <2>2. QED
    BY <1>1, <2>1 DEF KindAt, v, n
<1>4. CASE i = n + 1
  <2>1. i \in DOMAIN v /\ i \notin DOMAIN w
    BY <1>2, <1>4
  <2>2. QED
    BY <1>1, <1>4, <2>1 DEF KindAt, v, n
<1>5. CASE i \notin 1..(n + 1)
  <2>1. i \notin DOMAIN v /\ i \notin DOMAIN w /\ i # n + 1
    BY <1>2, <1>5
  <2>2. QED
    BY <1>1, <2>1 DEF KindAt, v, n
<1>6. QED
  BY <1>2, <1>3, <1>4, <1>5

\* A header by the kinds of the lexeme and the next.
HeadKinds(isFirst, a, b) ==
  \/ a = "TX" /\ b \in Defines
  \/ a = "PV" /\ b = "DEF"
  \/ isFirst /\ a \in {"PV", "NV"} /\ b \in Defines

LEMMA HeaderBy ==
  ASSUME NEW w, NEW i \in Int
  PROVE  IsHeader(w, i) <=> HeadKinds(i = 1, KindAt(w, i), KindAt(w, i + 1))
<1>1. CASE i = 1
  <2>1. i + 1 = 2
    BY <1>1
  <2>2. KindAt(w, i) = KindAt(w, 1) /\ KindAt(w, i + 1) = KindAt(w, 2)
    BY <1>1, <2>1
  <2>3. QED
    BY <1>1, <2>2, Zenon DEF IsHeader, HeadKinds
<1>2. CASE i # 1
  BY <1>2, Zenon DEF IsHeader, HeadKinds
<1>3. QED
  BY <1>1, <1>2

\* Only the lexeme before a new `=' or `=/' becomes a header.
LEMMA HeaderOfLonger ==
  ASSUME NEW w \in Seq(Lexemes), NEW x \in Lexemes, NEW i \in Int
  PROVE  LET v == Append(w, x)
         IN  /\ IsHeader(w, i) => IsHeader(v, i)
             /\ i # Len(w) \/ x.kind \notin Defines => (IsHeader(v, i) <=> IsHeader(w, i))
<1> DEFINE v == Append(w, x)
           n == Len(w)
<1>1. n \in Nat /\ KindAt(w, n + 1) = "" /\ KindAt(w, n + 2) = ""
  <2>1. n \in Nat /\ DOMAIN w = 1..n
    BY LenProperties
  <2> HIDE DEF n
  <2>2. n + 1 \notin DOMAIN w /\ n + 2 \notin DOMAIN w
    BY <2>1
  <2>3. QED
    BY <2>1, <2>2 DEF KindAt
<1>0. n \in Nat
  BY LenProperties
<1>2. \A k \in Int : KindAt(v, k) = IF k = n + 1 THEN x.kind ELSE KindAt(w, k)
  BY KindOfLonger
<1> HIDE DEF v, n
<1>3. CASE i = n + 1
  <2>1. ~IsHeader(w, i)
    <3>1. KindAt(w, i) = "" /\ (i = 1 => KindAt(w, 1) = "")
      BY <1>1, <1>3
    <3>2. QED
      BY <3>1 DEF IsHeader
  <2>2. ~IsHeader(v, i)
    <3>1. KindAt(v, i + 1) = "" /\ (i = 1 => KindAt(v, 2) = "")
      <4>1. i + 1 \in Int /\ i + 1 # n + 1 /\ i + 1 = n + 2
        BY <1>0, <1>3
      <4>2. KindAt(v, i + 1) = ""
        BY <1>1, <1>2, <4>1
      <4>3. i = 1 => i + 1 = 2
        OBVIOUS
      <4>4. QED
        BY <4>2, <4>3
    <3>2. QED
      BY <3>1 DEF IsHeader, Defines
  <2>3. QED
    BY <2>1, <2>2 DEF v
<1>4. CASE i # n + 1
  <2>1. KindAt(v, i) = KindAt(w, i) /\ (i = 1 => KindAt(v, 1) = KindAt(w, 1))
    BY <1>2, <1>4
  <2>2. IF i = n
        THEN KindAt(w, i + 1) = "" /\ KindAt(v, i + 1) = x.kind
        ELSE KindAt(v, i + 1) = KindAt(w, i + 1)
    <3>1. i + 1 \in Int /\ (i + 1 = n + 1 <=> i = n)
      BY <1>0
    <3>2. KindAt(v, i + 1) = IF i + 1 = n + 1 THEN x.kind ELSE KindAt(w, i + 1)
      BY <1>2, <3>1
    <3>3. QED
      BY <1>1, <3>1, <3>2
  <2> DEFINE a == KindAt(w, i + 1)
             b == KindAt(v, i + 1)
  <2>3. IF i = n THEN a = "" /\ b = x.kind ELSE b = a
    BY <2>2
  <2>4. /\ IsHeader(w, i) <=> HeadKinds(i = 1, KindAt(w, i), a)
        /\ IsHeader(v, i) <=> HeadKinds(i = 1, KindAt(w, i), b)
    BY <2>1, HeaderBy
  <2> HIDE DEF a, b
  <2>5. QED
    BY <2>3, <2>4 DEF HeadKinds, Defines, v, n
<1>5. QED
  BY <1>3, <1>4

LEMMA BalanceOfLonger ==
  ASSUME NEW w \in Seq(Lexemes), NEW x \in Lexemes, NEW i \in Int, NEW k \in Int,
         k <= Len(w)
  PROVE  Balance(Append(w, x), i, k) = Balance(w, i, k)
<1> DEFINE v == Append(w, x)
<1>1. Len(w) \in Nat
  BY LenProperties
<1>2. ASSUME NEW j \in i..k
      PROVE  /\ j \in Opens(v) <=> j \in Opens(w)
             /\ j \in Closes(v) <=> j \in Closes(w)
  <2>1. j \in Int /\ j # Len(w) + 1
    BY <1>1
  <2>2. KindAt(v, j) = KindAt(w, j) /\ v \in Seq(Lexemes)
    BY <2>1, KindOfLonger
  <2> HIDE DEF v
  <2>3. QED
    BY <2>2, KindsAt
<1>3. /\ Opens(v) \intersect (i..k) = Opens(w) \intersect (i..k)
      /\ Closes(v) \intersect (i..k) = Closes(w) \intersect (i..k)
  BY <1>2
<1>4. QED
  BY <1>3 DEF Balance

\* The bracket i is closed by its mate j, in its production.
Mated(w, i, j) ==
  /\ Pairs(w, i, j) /\ Mates(w, i, j)
  /\ ~\E h \in Headers(w) : i < h /\ h < j

\* What WellFormed asks of the lexeme i, as far as the lexemes up to i tell.
SoundAt(w, i) ==
  /\ KindAt(w, i) # "BD"
  /\ KindAt(w, i) = "NV" /\ ~IsHeader(w, i) => w[i].val # Fault
  /\ KindAt(w, i) \in Defines => IsHeader(w, i - 1)
  /\ KindAt(w, i - 1) \in Counts => KindAt(w, i) \in Counts \union Starters
  /\ i \in Elements(w) => PrefixFits(w, i)
  /\ IsHeader(w, i) => KindAt(w, i - 1) \notin Counts /\ Depth(w, i) = 0
  /\ i \in Closes(w) => \E j \in Opens(w) : Mated(w, j, i)
  /\ Depth(w, i) >= 0

\* The bracket i is the d-th of those open after c lexemes, and everything
\* since is in its production.
OpenAt(w, c, i, grp, d) ==
  /\ i \in 1..c
  /\ KindAt(w, i) = IF grp = "group" THEN "LP" ELSE "OB"
  /\ Depth(w, i - 1) = d - 1
  /\ \A k \in i..c : Depth(w, k) >= d
  /\ \A h \in i..c : ~IsHeader(w, h)

\* A bracket that no continuation of w can close.
Doomed(w, i) ==
  /\ i \in Opens(w)
  /\ \E d \in DOMAIN w :
       /\ i < d /\ \A k \in i..(d - 1) : Balance(w, i, k) > 0
       /\ \/ d \in Closes(w) /\ Balance(w, i, d) = 0 /\ ~Mates(w, i, d)
          \/ IsHeader(w, d)
          \/ \A e \in d..Len(w) : KindAt(w, e) = "ZZ"

SomeDoomed(w) == \E i \in DOMAIN w : Doomed(w, i)

\* What the lexer never does: end a text twice, or separate `%s' and its string.
Proper(w) ==
  /\ \A i, j \in DOMAIN w : i < j /\ KindAt(w, i) = "ZZ" => KindAt(w, j) = "ZZ"
  /\ \A i \in DOMAIN w : i < Len(w) /\ KindAt(w, i) \in {"SS", "SI"}
                           => KindAt(w, i + 1) = "ST"

\* A prefix is told by the four lexemes before the element.
LEMMA PrefixBy ==
  ASSUME NEW w, NEW v, NEW i \in Int, NEW j \in Int,
         KindAt(w, i - 1) = KindAt(v, j - 1), KindAt(w, i - 2) = KindAt(v, j - 2),
         KindAt(w, i - 3) = KindAt(v, j - 3), KindAt(w, i - 4) = KindAt(v, j - 4)
  PROVE  PrefixFits(w, i) <=> PrefixFits(v, j)
<1>1. PrefixOf(w, i) = PrefixOf(v, j)
  BY Zenon DEF PrefixOf
<1>2. PrefixOf(w, i) \in {<<>>, <<"NUM">>, <<"STAR">>, <<"NUM", "STAR">>, <<"STAR", "NUM">>,
                          <<"NUM", "STAR", "NUM">>}
  BY Zenon DEF PrefixOf
<1>3. Len(PrefixOf(w, i)) \in 0..3
  <2>1. Len(<<>>) = 0 /\ Len(<<"NUM">>) = 1 /\ Len(<<"STAR">>) = 1
    OBVIOUS
  <2>2. QED
    BY <1>2, <2>1, Lengths
<1> DEFINE n == Len(PrefixOf(w, i))
<1>4. KindAt(w, i - 1 - n) = KindAt(v, j - 1 - n)
  <2> HIDE DEF n
  <2>1. n \in 0..3
    BY <1>3 DEF n
  <2>2. CASE n = 0
    <3>1. i - 1 - n = i - 1 /\ j - 1 - n = j - 1
      BY <2>2
    <3>2. QED
      BY <3>1
  <2>3. CASE n = 1
    <3>1. i - 1 - n = i - 2 /\ j - 1 - n = j - 2
      BY <2>3
    <3>2. QED
      BY <3>1
  <2>4. CASE n = 2
    <3>1. i - 1 - n = i - 3 /\ j - 1 - n = j - 3
      BY <2>4
    <3>2. QED
      BY <3>1
  <2>5. CASE n = 3
    <3>1. i - 1 - n = i - 4 /\ j - 1 - n = j - 4
      BY <2>5
    <3>2. QED
      BY <3>1
  <2>6. QED
    BY <2>1, <2>2, <2>3, <2>4, <2>5
<1>5. QED
  BY <1>1, <1>4 DEF PrefixFits

-----------------------------------------------------------------------------
(* A further lexeme leaves what is known of the lexemes before it.         *)

LEMMA PrefixOfLonger ==
  ASSUME NEW w \in Seq(Lexemes), NEW x \in Lexemes, NEW i \in Int, i <= Len(w) + 1
  PROVE  PrefixFits(Append(w, x), i) <=> PrefixFits(w, i)
<1> DEFINE v == Append(w, x)
<1>1. ASSUME NEW d \in 1..4
      PROVE  KindAt(v, i - d) = KindAt(w, i - d)
  <2>1. i - d \in Int /\ i - d # Len(w) + 1
    BY LenProperties
  <2>2. QED
    BY <2>1, KindOfLonger
<1> HIDE DEF v
<1>2. /\ KindAt(v, i - 1) = KindAt(w, i - 1) /\ KindAt(v, i - 2) = KindAt(w, i - 2)
      /\ KindAt(v, i - 3) = KindAt(w, i - 3) /\ KindAt(v, i - 4) = KindAt(w, i - 4)
  BY <1>1
<1>3. QED
  BY <1>2, PrefixBy DEF v

LEMMA DepthOfLonger ==
  ASSUME NEW w \in Seq(Lexemes), NEW x \in Lexemes, NEW k \in Int, k <= Len(w)
  PROVE  Depth(Append(w, x), k) = Depth(w, k)
<1>1. 1 \in Int
  OBVIOUS
<1>2. QED
  BY <1>1, BalanceOfLonger DEF Depth

LEMMA MatedOfLonger ==
  ASSUME NEW w \in Seq(Lexemes), NEW x \in Lexemes,
         NEW i \in Opens(w), NEW j \in Closes(w)
  PROVE  LET v == Append(w, x)
         IN  /\ i \in Opens(v) /\ j \in Closes(v)
             /\ Pairs(v, i, j) <=> Pairs(w, i, j)
             /\ Mated(v, i, j) <=> Mated(w, i, j)
<1> DEFINE v == Append(w, x)
<1>1. Len(w) \in Nat /\ i \in 1..Len(w) /\ j \in 1..Len(w)
  BY LenProperties DEF Opens, Closes
<1>2. /\ i \in Opens(v) /\ j \in Closes(v)
      /\ v[i].kind = w[i].kind /\ v[j].kind = w[j].kind
  <2>1. v \in Seq(Lexemes) /\ \A k \in DOMAIN w : k \in DOMAIN v /\ v[k] = w[k]
    BY <1>1, KindOfLonger, LenProperties
  <2>2. QED
    BY <2>1 DEF Opens, Closes
<1>3. \A k \in i..j : Balance(v, i, k) = Balance(w, i, k)
  BY <1>1, BalanceOfLonger
<1>4. \A h \in Int : h < j => (h \in Headers(v) <=> h \in Headers(w))
  <2>1. ASSUME NEW h \in Int, h < j
        PROVE  IsHeader(v, h) <=> IsHeader(w, h)
    <3>1. h # Len(w)
      BY <1>1, <2>1
    <3>2. QED
      BY <3>1, HeaderOfLonger
  <2>2. DOMAIN v = 1..(Len(w) + 1) /\ DOMAIN w = 1..Len(w)
    <3>1. v \in Seq(Lexemes) /\ Len(v) = Len(w) + 1
      BY AppendProperties
    <3>2. QED
      BY <3>1, LenProperties
  <2> HIDE DEF v
  <2>3. QED
    BY <1>1, <2>1, <2>2 DEF Headers
<1>5. Headers(v) \subseteq Int /\ Headers(w) \subseteq Int
  <2>1. v \in Seq(Lexemes)
    BY AppendProperties
  <2> HIDE DEF v
  <2>2. QED
    BY <2>1, LenProperties DEF Headers
<1> HIDE DEF v
<1>6. Mates(v, i, j) <=> Mates(w, i, j)
  BY <1>2 DEF Mates
<1>7. Pairs(v, i, j) <=> Pairs(w, i, j)
  <2>1. /\ Pairs(v, i, j) <=> /\ i < j /\ Balance(v, i, j) = 0
                              /\ \A k \in i..(j - 1) : Balance(v, i, k) > 0
        /\ Pairs(w, i, j) <=> /\ i < j /\ Balance(w, i, j) = 0
                              /\ \A k \in i..(j - 1) : Balance(w, i, k) > 0
    BY <1>2 DEF Pairs
  <2>2. i < j => j \in i..j /\ \A k \in i..(j - 1) : k \in i..j
    BY <1>1
  <2>3. QED
    BY <1>3, <2>1, <2>2
<1>8. (\E h \in Headers(v) : i < h /\ h < j) <=> (\E h \in Headers(w) : i < h /\ h < j)
  BY <1>4, <1>5
<1>9. QED
  BY <1>2, <1>6, <1>7, <1>8 DEF Mated, v

LEMMA SoundOfLonger ==
  ASSUME NEW w \in Seq(Lexemes), NEW x \in Lexemes, NEW i \in 1..Len(w),
         i < Len(w) \/ x.kind \notin Defines, SoundAt(w, i)
  PROVE  SoundAt(Append(w, x), i)
<1> DEFINE v == Append(w, x)
<1>1. Len(w) \in Nat /\ i \in Int /\ i - 1 \in Int /\ i \in DOMAIN w
  BY LenProperties
<1>2. /\ KindAt(v, i) = KindAt(w, i) /\ KindAt(v, i - 1) = KindAt(w, i - 1)
      /\ v[i] = w[i] /\ v \in Seq(Lexemes)
  <2>1. i # Len(w) + 1 /\ i - 1 # Len(w) + 1
    BY <1>1
  <2>2. QED
    BY <1>1, <2>1, KindOfLonger
<1>3. /\ IsHeader(v, i) <=> IsHeader(w, i)
      /\ IsHeader(w, i - 1) => IsHeader(v, i - 1)
  <2>1. i # Len(w) \/ x.kind \notin Defines
    BY <1>1
  <2>2. QED
    BY <1>1, <2>1, HeaderOfLonger
<1>4. (i \in Elements(v) <=> i \in Elements(w)) /\ (PrefixFits(v, i) <=> PrefixFits(w, i))
  <2>1. PrefixFits(v, i) <=> PrefixFits(w, i)
    BY <1>1, PrefixOfLonger
  <2> HIDE DEF v
  <2>2. QED
    BY <1>2, <1>3, <2>1, KindsAt
<1>5. Depth(v, i) = Depth(w, i)
  BY <1>1, DepthOfLonger
<1>6. i \in Closes(v) => \E j \in Opens(v) : Mated(v, j, i)
  <2>1. SUFFICES ASSUME i \in Closes(v) PROVE \E j \in Opens(v) : Mated(v, j, i)
    OBVIOUS
  <2>2. i \in Closes(w)
    <3> HIDE DEF v
    <3>1. QED
      BY <1>2, <2>1, KindsAt
  <2>3. PICK j \in Opens(w) : Mated(w, j, i)
    BY <2>2 DEF SoundAt
  <2>4. j \in Opens(v) /\ Mated(v, j, i)
    BY <2>2, <2>3, MatedOfLonger
  <2>5. QED
    BY <2>4
<1> HIDE DEF v
<1>7. SoundAt(v, i)
  BY <1>2, <1>3, <1>4, <1>5, <1>6 DEF SoundAt
<1>8. QED
  BY <1>7 DEF v

LEMMA OpenOfLonger ==
  ASSUME NEW w \in Seq(Lexemes), NEW x \in Lexemes, NEW c \in 0..Len(w), NEW i, NEW grp,
         NEW d, c < Len(w) \/ x.kind \notin Defines, OpenAt(w, c, i, grp, d)
  PROVE  OpenAt(Append(w, x), c, i, grp, d)
<1> DEFINE v == Append(w, x)
<1>1. Len(w) \in Nat /\ i \in 1..c /\ i - 1 \in Int
  BY LenProperties DEF OpenAt
<1>2. KindAt(v, i) = KindAt(w, i)
  <2>1. i \in Int /\ i # Len(w) + 1
    BY <1>1
  <2>2. QED
    BY <2>1, KindOfLonger
<1>3. \A k \in Int : k <= c => Depth(v, k) = Depth(w, k)
  BY <1>1, DepthOfLonger
<1>4. \A h \in i..c : IsHeader(v, h) <=> IsHeader(w, h)
  <2>1. ASSUME NEW h \in i..c
        PROVE  h \in Int /\ (h # Len(w) \/ x.kind \notin Defines)
    BY <1>1
  <2>2. QED
    BY <2>1, HeaderOfLonger
<1> HIDE DEF v
<1>5. OpenAt(v, c, i, grp, d)
  <2>1. i - 1 <= c /\ \A k \in i..c : k \in Int /\ k <= c
    BY <1>1
  <2>2. QED
    BY <1>1, <1>2, <1>3, <1>4, <2>1 DEF OpenAt
<1>6. QED
  BY <1>5 DEF v

LEMMA DoomedOfLonger ==
  ASSUME NEW w \in Seq(Lexemes), NEW x \in Lexemes, SomeDoomed(w),
         \A i \in DOMAIN w : KindAt(w, i) = "ZZ" => x.kind = "ZZ"
  PROVE  SomeDoomed(Append(w, x))
<1> DEFINE v == Append(w, x)
<1>1. PICK i \in DOMAIN w : Doomed(w, i)
  BY DEF SomeDoomed
<1>2. i \in Opens(w)
  BY <1>1 DEF Doomed
<1>3. PICK d \in DOMAIN w :
        /\ i < d /\ \A k \in i..(d - 1) : Balance(w, i, k) > 0
        /\ \/ d \in Closes(w) /\ Balance(w, i, d) = 0 /\ ~Mates(w, i, d)
           \/ IsHeader(w, d)
           \/ \A e \in d..Len(w) : KindAt(w, e) = "ZZ"
  BY <1>1 DEF Doomed
<1>4. /\ Len(w) \in Nat /\ i \in 1..Len(w) /\ d \in 1..Len(w) /\ Len(v) = Len(w) + 1
      /\ i \in DOMAIN v /\ d \in DOMAIN v /\ v[i] = w[i] /\ v[d] = w[d]
  <2>1. Len(w) \in Nat /\ i \in 1..Len(w) /\ d \in 1..Len(w)
    BY LenProperties
  <2>2. QED
    BY <2>1, KindOfLonger
<1>5. \A k \in Int : k <= d => Balance(v, i, k) = Balance(w, i, k)
  BY <1>4, BalanceOfLonger
<1>6. IsHeader(w, d) => IsHeader(v, d)
  BY <1>4, HeaderOfLonger
<1>7. \A e \in Int : KindAt(v, e) = IF e = Len(w) + 1 THEN x.kind ELSE KindAt(w, e)
  BY KindOfLonger
<1> HIDE DEF v
<1>8. i \in Opens(v) /\ (d \in Closes(w) => d \in Closes(v)) /\ (Mates(v, i, d) <=> Mates(w, i, d))
  BY <1>2, <1>4 DEF Opens, Closes, Mates
<1>9. \A k \in i..(d - 1) : Balance(v, i, k) > 0
  <2>1. \A k \in i..(d - 1) : k \in Int /\ k <= d
    BY <1>4
  <2>2. QED
    BY <1>3, <1>5, <2>1
<1>10. \/ d \in Closes(v) /\ Balance(v, i, d) = 0 /\ ~Mates(v, i, d)
       \/ IsHeader(v, d)
       \/ \A e \in d..Len(v) : KindAt(v, e) = "ZZ"
  <2>1. CASE d \in Closes(w) /\ Balance(w, i, d) = 0 /\ ~Mates(w, i, d)
    <3>1. d \in Int /\ d <= d
      BY <1>4
    <3>2. QED
      BY <1>5, <1>8, <2>1, <3>1
  <2>2. CASE IsHeader(w, d)
    BY <1>6, <2>2
  <2>3. CASE \A e \in d..Len(w) : KindAt(w, e) = "ZZ"
    <3>1. x.kind = "ZZ"
      <4>1. d \in d..Len(w)
        BY <1>4
      <4>2. QED
        BY <2>3, <4>1
    <3>2. ASSUME NEW e \in d..Len(v)
          PROVE  KindAt(v, e) = "ZZ"
      <4>1. e \in Int /\ (e = Len(w) + 1 \/ e \in d..Len(w))
        BY <1>4
      <4>2. QED
        BY <1>7, <2>3, <3>1, <4>1
    <3>3. QED
      BY <3>2
  <2>4. QED
    BY <1>3, <2>1, <2>2, <2>3
<1>11. Doomed(v, i)
  BY <1>3, <1>4, <1>8, <1>9, <1>10 DEF Doomed
<1>12. QED
  BY <1>4, <1>11 DEF SomeDoomed, v

LEMMA ProperOfLonger ==
  ASSUME input \in Seq(Lexemes), Proper(input), NEW x \in NextLexemes
  PROVE  /\ x \in Lexemes /\ Proper(Append(input, x))
         /\ \A i \in DOMAIN input : KindAt(input, i) = "ZZ" => x.kind = "ZZ"
<1> DEFINE v == Append(input, x)
           n == Len(input)
<1>1. x \in Lexemes
  BY TextLexemes DEF NextLexemes
<1>2. n \in Nat /\ DOMAIN input = 1..n
  BY LenProperties
<1>3. \A k \in Int : KindAt(v, k) = IF k = n + 1 THEN x.kind ELSE KindAt(input, k)
  BY <1>1, KindOfLonger
<1>4. DOMAIN v = 1..(n + 1) /\ Len(v) = n + 1
  <2>1. v \in Seq(Lexemes) /\ Len(v) = n + 1
    BY <1>1, AppendProperties
  <2>2. QED
    BY <2>1, LenProperties
<1>5. n > 0 => /\ KindAt(input, n) = "ZZ" => x.kind = "ZZ"
               /\ KindAt(input, n) \in {"SS", "SI"} => x.kind = "ST"
  <2>1. SUFFICES ASSUME n > 0
                 PROVE  /\ KindAt(input, n) = "ZZ" => x.kind = "ZZ"
                        /\ KindAt(input, n) \in {"SS", "SI"} => x.kind = "ST"
    OBVIOUS
  <2>2. input # <<>> /\ KindAt(input, n) = input[n].kind
    <3>1. n \in DOMAIN input
      BY <1>2, <2>1
    <3>2. QED
      BY <3>1 DEF KindAt
  <2>3. QED
    BY <2>2 DEF NextLexemes, End
<1> HIDE DEF v, n
<1>6. \A i \in DOMAIN input : KindAt(input, i) = "ZZ" => x.kind = "ZZ"
  <2>1. ASSUME NEW i \in DOMAIN input, KindAt(input, i) = "ZZ"
        PROVE  n > 0 /\ KindAt(input, n) = "ZZ"
    <3>1. n > 0 /\ n \in DOMAIN input /\ (i = n \/ i < n)
      BY <1>2, <2>1
    <3>2. QED
      BY <2>1, <3>1 DEF Proper
  <2>2. QED
    BY <1>5, <2>1
<1>7. \A i, j \in DOMAIN v : i < j /\ KindAt(v, i) = "ZZ" => KindAt(v, j) = "ZZ"
  <2>1. ASSUME NEW i \in DOMAIN v, NEW j \in DOMAIN v, i < j, KindAt(v, i) = "ZZ"
        PROVE  KindAt(v, j) = "ZZ"
    <3>1. i \in DOMAIN input /\ KindAt(input, i) = "ZZ" /\ (j = n + 1 \/ j \in DOMAIN input)
          /\ j \in Int
      BY <1>2, <1>3, <1>4, <2>1
    <3>2. CASE j = n + 1
      BY <1>3, <1>6, <3>1, <3>2
    <3>3. CASE j # n + 1
      <4>1. KindAt(input, j) = "ZZ"
        BY <2>1, <3>1, <3>3 DEF Proper
      <4>2. QED
        BY <1>3, <3>1, <3>3, <4>1
    <3>4. QED
      BY <3>2, <3>3
  <2>2. QED
    BY <2>1
<1>8. \A i \in DOMAIN v : i < Len(v) /\ KindAt(v, i) \in {"SS", "SI"} => KindAt(v, i + 1) = "ST"
  <2>1. ASSUME NEW i \in DOMAIN v, i < Len(v), KindAt(v, i) \in {"SS", "SI"}
        PROVE  KindAt(v, i + 1) = "ST"
    <3>1. /\ i \in DOMAIN input /\ i \in Int /\ i + 1 \in Int
          /\ KindAt(input, i) \in {"SS", "SI"} /\ n > 0
      BY <1>2, <1>3, <1>4, <2>1
    <3>2. CASE i = n
      <4>1. x.kind = "ST" /\ i + 1 = n + 1
        BY <1>5, <3>1, <3>2
      <4>2. QED
        BY <1>3, <3>1, <4>1
    <3>3. CASE i # n
      <4>1. i < n /\ i + 1 # n + 1
        BY <1>2, <3>1, <3>3
      <4>2. KindAt(input, i + 1) = "ST"
        BY <3>1, <4>1 DEF Proper, n
      <4>3. QED
        BY <1>3, <3>1, <4>1, <4>2
    <3>4. QED
      BY <3>2, <3>3
  <2>2. QED
    BY <2>1
<1>9. QED
  BY <1>1, <1>6, <1>7, <1>8 DEF Proper, v

-----------------------------------------------------------------------------
(* What the invariant gives when the text has ended.                       *)

LEMMA DoomedIsUnmated ==
  ASSUME NEW w \in Seq(Lexemes), Proper(w), SomeDoomed(w)
  PROVE  \E i \in Opens(w) : ~\E j \in Closes(w) : Mated(w, i, j)
<1>1. PICK i \in DOMAIN w : Doomed(w, i)
  BY DEF SomeDoomed
<1>2. i \in Opens(w)
  BY <1>1 DEF Doomed
<1>3. PICK d \in DOMAIN w :
        /\ i < d /\ \A k \in i..(d - 1) : Balance(w, i, k) > 0
        /\ \/ d \in Closes(w) /\ Balance(w, i, d) = 0 /\ ~Mates(w, i, d)
           \/ IsHeader(w, d)
           \/ \A e \in d..Len(w) : KindAt(w, e) = "ZZ"
  BY <1>1 DEF Doomed
<1>4. Len(w) \in Nat /\ DOMAIN w = 1..Len(w)
  BY LenProperties
<1>5. SUFFICES ASSUME NEW j \in Closes(w), Mated(w, i, j)
               PROVE  FALSE
  BY <1>2
<1>6. /\ i < j /\ Balance(w, i, j) = 0 /\ \A k \in i..(j - 1) : Balance(w, i, k) > 0
      /\ Mates(w, i, j) /\ ~\E h \in Headers(w) : i < h /\ h < j
  BY <1>5 DEF Mated, Pairs
<1>7. j \in 1..Len(w) /\ KindAt(w, j) \in {"RP", "CB"}
  BY <1>4, KindsAt DEF Closes
<1>8. j >= d
  <2>1. SUFFICES ASSUME j < d PROVE FALSE
    BY <1>4, <1>7
  <2>2. j \in i..(d - 1)
    BY <1>4, <1>6, <1>7, <2>1
  <2>3. QED
    BY <1>3, <1>6, <2>2
<1>9. CASE d \in Closes(w) /\ Balance(w, i, d) = 0 /\ ~Mates(w, i, d)
  <2>1. j # d
    BY <1>6, <1>9
  <2>2. d \in i..(j - 1)
    BY <1>3, <1>4, <1>7, <1>8, <2>1
  <2>3. QED
    BY <1>6, <1>9, <2>2
<1>10. CASE IsHeader(w, d)
  <2>1. j # d
    <3>1. KindAt(w, d) \in {"TX", "PV", "NV"}
      <4>1. d = 1 => KindAt(w, d) = KindAt(w, 1)
        OBVIOUS
      <4>2. QED
        BY <1>10, <4>1 DEF IsHeader
    <3>2. QED
      BY <1>7, <3>1
  <2>2. d \in Headers(w) /\ i < d /\ d < j
    BY <1>3, <1>4, <1>7, <1>8, <1>10, <2>1 DEF Headers
  <2>3. QED
    BY <1>6, <2>2
<1>11. CASE \A e \in d..Len(w) : KindAt(w, e) = "ZZ"
  <2>1. j \in d..Len(w)
    BY <1>4, <1>7, <1>8
  <2>2. QED
    BY <1>7, <1>11, <2>1
<1>12. QED
  BY <1>3, <1>9, <1>10, <1>11

LEMMA NumericValues ==
  ASSUME NEW x \in Lexemes, x.kind = "NV", x.val # Fault
  PROVE  x.val = 0
BY DEF Lexemes

\* The text ends after the first c lexemes, each of them sound.
LEMMA SoundIsWellFormed ==
  ASSUME NEW w \in Seq(Lexemes), Proper(w), NEW c \in Nat, c + 1 \in DOMAIN w,
         KindAt(w, c + 1) = "ZZ", IsHeader(w, 1), KindAt(w, c) \notin Counts,
         \A i \in 1..c : SoundAt(w, i),
         \A i \in Opens(w) : i <= c => \E j \in Closes(w) : Pairs(w, i, j)
  PROVE  WellFormed(w)
<1> DEFINE n == Len(w)
<1>1. n \in Nat /\ DOMAIN w = 1..n /\ c + 1 <= n
  BY LenProperties
<1> HIDE DEF n
<1>2. \A i \in 1..n : i \in 1..c \/ KindAt(w, i) = "ZZ"
  <2>1. ASSUME NEW i \in 1..n, i \notin 1..c, i # c + 1
        PROVE  KindAt(w, i) = "ZZ"
    <3>1. i \in DOMAIN w /\ c + 1 < i
      BY <1>1, <2>1
    <3>2. QED
      BY <3>1 DEF Proper
  <2>2. QED
    BY <2>1
<1>3. KindAt(w, n) = "ZZ"
  <2>1. n \in 1..n /\ (n \in 1..c => FALSE)
    BY <1>1
  <2>2. QED
    BY <1>2, <2>1
<1>4. ASSUME NEW i \in 1..n, KindAt(w, i) # "ZZ"
      PROVE  i \in 1..c /\ SoundAt(w, i)
  BY <1>2, <1>4
<1>5. ASSUME NEW i \in 1..n
      PROVE  /\ i \in Opens(w) \/ i \in Closes(w) \/ IsHeader(w, i) \/ i \in Elements(w)
                 => KindAt(w, i) # "ZZ"
             /\ w[i].kind = KindAt(w, i) /\ w[i] \in Lexemes
  <2>1. IsHeader(w, i) => KindAt(w, i) # "ZZ"
    <3>1. i = 1 => KindAt(w, i) = KindAt(w, 1)
      OBVIOUS
    <3>2. QED
      BY <3>1 DEF IsHeader
  <2>2. i \in DOMAIN w
    BY <1>1
  <2>3. QED
    BY <2>1, <2>2, KindsAt DEF Starters
<1>6. ASSUME NEW i \in 1..n
      PROVE  /\ w[i].kind # "BD"
             /\ w[i].kind = "NV" /\ ~IsHeader(w, i) => w[i].val = 0
             /\ w[i].kind \in Defines => IsHeader(w, i - 1)
             /\ w[i].kind \in Counts => KindAt(w, i + 1) \in Counts \union Starters
             /\ i \in Elements(w) => PrefixFits(w, i)
  <2>1. w[i].kind = KindAt(w, i) /\ w[i] \in Lexemes
    BY <1>5
  <2>2. CASE KindAt(w, i) = "ZZ"
    BY <1>5, <2>1, <2>2 DEF Defines, Counts
  <2>3. CASE KindAt(w, i) # "ZZ"
    <3>1. i \in 1..c /\ SoundAt(w, i)
      BY <1>4, <2>3
    <3>2. w[i].kind = "NV" /\ ~IsHeader(w, i) => w[i].val = 0
      BY <2>1, <3>1, NumericValues DEF SoundAt
    <3>3. w[i].kind \in Counts => KindAt(w, i + 1) \in Counts \union Starters
      <4>1. SUFFICES ASSUME KindAt(w, i) \in Counts
                     PROVE  KindAt(w, i + 1) \in Counts \union Starters
        BY <2>1
      <4>2. i # c
        BY <4>1
      <4>3. i + 1 \in 1..c
        BY <3>1, <4>2
      <4>4. SoundAt(w, i + 1) /\ (i + 1) - 1 = i
        BY <4>3
      <4>5. QED
        BY <4>1, <4>4 DEF SoundAt
    <3>4. QED
      BY <2>1, <3>1, <3>2, <3>3 DEF SoundAt
  <2>4. QED
    BY <2>2, <2>3
<1>7. ASSUME NEW i \in Headers(w)
      PROVE  /\ KindAt(w, i - 1) \notin Counts
             /\ \A j \in Opens(w) : j < i => Balance(w, j, i) <= 0
  <2>1. i \in 1..n /\ IsHeader(w, i)
    BY <1>1 DEF Headers
  <2>2. i \in 1..c /\ SoundAt(w, i)
    BY <1>4, <1>5, <2>1
  <2>3. KindAt(w, i - 1) \notin Counts /\ Depth(w, i) = 0
    BY <2>1, <2>2 DEF SoundAt
  <2>4. ASSUME NEW j \in Opens(w), j < i
        PROVE  Balance(w, j, i) <= 0
    <3>1. j \in 1..n
      BY <1>1 DEF Opens
    <3>2. j \in Nat \ {0} /\ i \in Nat /\ j <= i + 1
      BY <2>2, <2>4, <3>1
    <3>3. Balance(w, j, i) = 0 - Depth(w, j - 1)
      BY <2>3, <3>2, BalanceIs
    <3>4. Depth(w, j - 1) >= 0 /\ Depth(w, j - 1) \in Int
      <4>1. CASE j = 1
        <5>1. j - 1 = 0 /\ Depth(w, 0) = 0
          BY <4>1, DepthStep
        <5>2. QED
          BY <5>1
      <4>2. CASE j # 1
        <5>1. j - 1 \in 1..c /\ j - 1 \in Nat
          BY <2>2, <2>4, <3>1, <4>2
        <5>2. QED
          BY <5>1, DepthStep DEF SoundAt
      <4>3. QED
        BY <4>1, <4>2
    <3>5. QED
      BY <3>3, <3>4
  <2>5. QED
    BY <2>3, <2>4
<1>8. ASSUME NEW j \in Closes(w)
      PROVE  \E i \in Opens(w) : /\ Pairs(w, i, j) /\ Mates(w, i, j)
                                 /\ ~\E h \in Headers(w) : i < h /\ h < j
  <2>1. j \in 1..n
    BY <1>1 DEF Closes
  <2>2. SoundAt(w, j)
    BY <1>4, <1>5, <2>1
  <2>3. QED
    BY <2>2 DEF SoundAt, Mated
<1>9. ASSUME NEW i \in Opens(w)
      PROVE  ~Open(w, i)
  <2>1. i \in 1..n
    BY <1>1 DEF Opens
  <2>2. i \in 1..c
    BY <1>4, <1>5, <2>1
  <2>3. QED
    BY <2>2 DEF Open
<1>10. Sound(w)
  BY <1>1, <1>6, <1>7, <1>8 DEF Sound
<1>11. QED
  BY <1>3, <1>9, <1>10 DEF WellFormed, n

-----------------------------------------------------------------------------
(* The table read alternative by alternative: its pattern, and the rest.   *)

Act(alt, b, p, r, c, a) == alt.b = b /\ alt.p = p /\ alt.r = r /\ alt.c = c /\ alt.a = a

Is0(alt, b, p, r, c, a) ==
  DOMAIN alt.s = {} /\ Len(alt.s) = 0 /\ Act(alt, b, p, r, c, a)
Is1(alt, A, b, p, r, c, a) ==
  DOMAIN alt.s = 1..1 /\ Len(alt.s) = 1 /\ alt.s[1] = A /\ Act(alt, b, p, r, c, a)
Is2(alt, A, B, b, p, r, c, a) ==
  /\ DOMAIN alt.s = 1..2 /\ Len(alt.s) = 2 /\ alt.s[1] = A /\ alt.s[2] = B
  /\ Act(alt, b, p, r, c, a)
Is3(alt, A, B, C, b, p, r, c, a) ==
  /\ DOMAIN alt.s = 1..3 /\ Len(alt.s) = 3
  /\ alt.s[1] = A /\ alt.s[2] = B /\ alt.s[3] = C
  /\ Act(alt, b, p, r, c, a)
Is4(alt, A, B, C, D, b, p, r, c, a) ==
  /\ DOMAIN alt.s = 1..4 /\ Len(alt.s) = 4
  /\ alt.s[1] = A /\ alt.s[2] = B /\ alt.s[3] = C /\ alt.s[4] = D
  /\ Act(alt, b, p, r, c, a)

LEMMA Alt0 ==
  ASSUME NEW b, NEW p, NEW a
  PROVE  Is0(Alt(<<>>, b, p, a), b, p, "", "", a)
<1>1. Alt(<<>>, b, p, a).s = <<>>
  BY DEF Alt
<1>2. Act(Alt(<<>>, b, p, a), b, p, "", "", a)
  BY DEF Alt, Act
<1>3. DOMAIN Alt(<<>>, b, p, a).s = {} /\ Len(Alt(<<>>, b, p, a).s) = 0
  BY <1>1, EmptySeq
<1>4. QED
  BY <1>2, <1>3 DEF Is0

LEMMA Alt1 ==
  ASSUME NEW A, NEW b, NEW p, NEW a
  PROVE  Is1(Alt(<<A>>, b, p, a), A, b, p, "", "", a)
BY DEF Is1, Act, Alt

LEMMA Alt2 ==
  ASSUME NEW A, NEW B, NEW b, NEW p, NEW a
  PROVE  Is2(Alt(<<A, B>>, b, p, a), A, B, b, p, "", "", a)
BY DEF Is2, Act, Alt

LEMMA Alt3 ==
  ASSUME NEW A, NEW B, NEW C, NEW b, NEW p, NEW a
  PROVE  Is3(Alt(<<A, B, C>>, b, p, a), A, B, C, b, p, "", "", a)
BY DEF Is3, Act, Alt

LEMMA Alt4 ==
  ASSUME NEW A, NEW B, NEW C, NEW D, NEW b, NEW p, NEW a
  PROVE  Is4(Alt(<<A, B, C, D>>, b, p, a), A, B, C, D, b, p, "", "", a)
BY DEF Is4, Act, Alt

LEMMA Replace2 ==
  ASSUME NEW A, NEW B, NEW b, NEW r
  PROVE  Is2(Replace(<<A, B>>, b, r), A, B, b, "", r, "", "")
BY DEF Is2, Act, Replace, Alt

LEMMA Close1 ==
  ASSUME NEW k, NEW grp, NEW a
  PROVE  Is1(Close(k, grp, a), {k}, 0, "", "", grp, a)
BY DEF Is1, Act, Close, Alt

LEMMA AbnfOpen ==
  ASSUME Top.rule = "abnf", Top.phase = "open"
  PROVE  /\ DOMAIN Alternatives = 1..2
         /\ Is1(Alternatives[1], {"ZZ"}, 0, "", "", "", "")
         /\ Is0(Alternatives[2], 0, "prod", "", "", "")
<1> DEFINE table == AbnfRule["open"]
<1>0. Alternatives = table /\ DOMAIN table = 1..2
  BY AbnfDomains DEF Alternatives, Rules
<1>1. Is1(table[1], {"ZZ"}, 0, "", "", "", "")
  BY Alt1 DEF AbnfRule, Leave
<1>2. Is0(table[2], 0, "prod", "", "", "")
  BY Alt0 DEF AbnfRule, Push
<1> HIDE DEF table
<1>3. QED
  BY <1>0, <1>1, <1>2

LEMMA AbnfClose ==
  ASSUME Top.rule = "abnf", Top.phase = "close"
  PROVE  /\ DOMAIN Alternatives = 1..1
         /\ Is1(Alternatives[1], {"ZZ"}, 0, "", "", "", "")
<1> DEFINE table == AbnfRule["close"]
<1>0. Alternatives = table /\ DOMAIN table = 1..1
  BY AbnfDomains DEF Alternatives, Rules
<1>1. Is1(table[1], {"ZZ"}, 0, "", "", "", "")
  BY Alt1 DEF AbnfRule, Leave
<1> HIDE DEF table
<1>2. QED
  BY <1>0, <1>1

LEMMA ProdOpen ==
  ASSUME Top.rule = "prod", Top.phase = "open"
  PROVE  /\ DOMAIN Alternatives = 1..3
         /\ Is2(Alternatives[1], {"TX"}, {"DEF"}, 0, "alts", "", "", "define")
         /\ Is2(Alternatives[2], {"PV"}, {"DEF"}, 0, "alts", "", "", "define")
         /\ Is2(Alternatives[3], {"TX"}, {"DEFA"}, 0, "alts", "", "", "extend")
<1> DEFINE table == ProdRule["open"]
<1>0. Alternatives = table /\ DOMAIN table = 1..3
  BY ProdDomains DEF Alternatives, Rules
<1>1. Is2(table[1], {"TX"}, {"DEF"}, 0, "alts", "", "", "define")
  BY Alt2 DEF ProdRule, Push
<1>2. Is2(table[2], {"PV"}, {"DEF"}, 0, "alts", "", "", "define")
  BY Alt2 DEF ProdRule, Push
<1>3. Is2(table[3], {"TX"}, {"DEFA"}, 0, "alts", "", "", "extend")
  BY Alt2 DEF ProdRule, Push
<1> HIDE DEF table
<1>4. QED
  BY <1>0, <1>1, <1>2, <1>3

LEMMA ProdClose ==
  ASSUME Top.rule = "prod", Top.phase = "close"
  PROVE  /\ DOMAIN Alternatives = 1..4
         /\ Is2(Alternatives[1], {"TX"}, {"DEF"}, 2, "", "prod", "", "")
         /\ Is2(Alternatives[2], {"TX"}, {"DEFA"}, 2, "", "prod", "", "")
         /\ Is2(Alternatives[3], {"PV"}, {"DEF"}, 2, "", "prod", "", "")
         /\ Is0(Alternatives[4], 1, "", "", "", "")
<1> DEFINE table == ProdRule["close"]
<1>0. Alternatives = table /\ DOMAIN table = 1..4
  BY ProdDomains DEF Alternatives, Rules
<1>1. Is2(table[1], {"TX"}, {"DEF"}, 2, "", "prod", "", "")
  BY Replace2 DEF ProdRule
<1>2. Is2(table[2], {"TX"}, {"DEFA"}, 2, "", "prod", "", "")
  BY Replace2 DEF ProdRule
<1>3. Is2(table[3], {"PV"}, {"DEF"}, 2, "", "prod", "", "")
  BY Replace2 DEF ProdRule
<1>4. Is0(table[4], 1, "", "", "", "")
  BY Alt0 DEF ProdRule, Leave
<1> HIDE DEF table
<1>5. QED
  BY <1>0, <1>1, <1>2, <1>3, <1>4

LEMMA AltsOpen ==
  ASSUME Top.rule = "alts", Top.phase = "open"
  PROVE  /\ DOMAIN Alternatives = 1..1
         /\ Is0(Alternatives[1], 0, "seq", "", "", "")
<1> DEFINE table == AltsRule["open"]
<1>0. Alternatives = table /\ DOMAIN table = 1..1
  BY AltsDomains DEF Alternatives, Rules
<1>1. Is0(table[1], 0, "seq", "", "", "")
  BY Alt0 DEF AltsRule, Push
<1> HIDE DEF table
<1>2. QED
  BY <1>0, <1>1

LEMMA AltsClose ==
  ASSUME Top.rule = "alts", Top.phase = "close"
  PROVE  /\ DOMAIN Alternatives = 1..2
         /\ Is1(Alternatives[1], {"ALT"}, 0, "seq", "", "", "")
         /\ Is0(Alternatives[2], 1, "", "", "", "")
<1> DEFINE table == AltsRule["close"]
<1>0. Alternatives = table /\ DOMAIN table = 1..2
  BY AltsDomains DEF Alternatives, Rules
<1>1. Is1(table[1], {"ALT"}, 0, "seq", "", "", "")
  BY Alt1 DEF AltsRule, Push
<1>2. Is0(table[2], 1, "", "", "", "")
  BY Alt0 DEF AltsRule, Leave
<1> HIDE DEF table
<1>3. QED
  BY <1>0, <1>1, <1>2

LEMMA SeqOpen ==
  ASSUME Top.rule = "seq", Top.phase = "open"
  PROVE  /\ DOMAIN Alternatives = 1..8
         /\ Is2(Alternatives[1], {"TX"}, {"DEF"}, 2, "", "", "", "")
         /\ Is2(Alternatives[2], {"TX"}, {"DEFA"}, 2, "", "", "", "")
         /\ Is2(Alternatives[3], {"TX"}, {"NUM"}, 2, "elem", "", "", "")
         /\ Is2(Alternatives[4], {"TX"}, ATOM, 2, "elem", "", "", "")
         /\ Is2(Alternatives[5], {"PV"}, {"DEF"}, 2, "", "", "", "")
         /\ Is1(Alternatives[6], {"ALT", "ZZ", "RP", "CB"}, 1, "", "", "", "")
         /\ Is1(Alternatives[7], ATOM \union {"STAR", "NUM"}, 1, "elem", "", "", "")
         /\ Is0(Alternatives[8], 0, "elem", "", "", "")
<1> DEFINE table == SeqRule["open"]
<1>0. Alternatives = table /\ DOMAIN table = 1..8
  BY SeqDomains DEF Alternatives, Rules
<1>1. Is2(table[1], {"TX"}, {"DEF"}, 2, "", "", "", "")
  BY Alt2 DEF SeqRule, AtName, Leave
<1>2. Is2(table[2], {"TX"}, {"DEFA"}, 2, "", "", "", "")
  BY Alt2 DEF SeqRule, AtNameAgain, Leave
<1>3. Is2(table[3], {"TX"}, {"NUM"}, 2, "elem", "", "", "")
  BY Alt2 DEF SeqRule, NameThenCount, Push
<1>4. Is2(table[4], {"TX"}, ATOM, 2, "elem", "", "", "")
  BY Alt2 DEF SeqRule, NameThenAtom, Push
<1>5. Is2(table[5], {"PV"}, {"DEF"}, 2, "", "", "", "")
  BY Alt2 DEF SeqRule, AtProse, Leave
<1>6. Is1(table[6], {"ALT", "ZZ", "RP", "CB"}, 1, "", "", "", "")
  BY Alt1 DEF SeqRule, AtSeqEnd, Leave
<1>7. Is1(table[7], ATOM \union {"STAR", "NUM"}, 1, "elem", "", "", "")
  BY Alt1 DEF SeqRule, AtElem, Push
<1>8. Is0(table[8], 0, "elem", "", "", "")
  BY Alt0 DEF SeqRule, Push
<1> HIDE DEF table
<1>9. QED
  BY <1>0, <1>1, <1>2, <1>3, <1>4, <1>5, <1>6, <1>7, <1>8

LEMMA SeqClose ==
  ASSUME Top.rule = "seq", Top.phase = "close"
  PROVE  /\ DOMAIN Alternatives = 1..8
         /\ Is2(Alternatives[1], {"TX"}, {"DEF"}, 2, "", "", "", "")
         /\ Is2(Alternatives[2], {"TX"}, {"DEFA"}, 2, "", "", "", "")
         /\ Is2(Alternatives[3], {"PV"}, {"DEF"}, 2, "", "", "", "")
         /\ Is2(Alternatives[4], {"TX"}, {"NUM"}, 2, "elem", "", "", "")
         /\ Is2(Alternatives[5], {"TX"}, ATOM, 2, "elem", "", "", "")
         /\ Is1(Alternatives[6], {"ALT", "ZZ", "RP", "CB"}, 1, "", "", "", "")
         /\ Is1(Alternatives[7], ATOM \union {"STAR", "NUM"}, 1, "elem", "", "", "")
         /\ Is0(Alternatives[8], 1, "", "", "", "")
<1> DEFINE table == SeqRule["close"]
<1>0. Alternatives = table /\ DOMAIN table = 1..8
  BY SeqDomains DEF Alternatives, Rules
<1>1. Is2(table[1], {"TX"}, {"DEF"}, 2, "", "", "", "")
  BY Alt2 DEF SeqRule, AtName, Leave
<1>2. Is2(table[2], {"TX"}, {"DEFA"}, 2, "", "", "", "")
  BY Alt2 DEF SeqRule, AtNameAgain, Leave
<1>3. Is2(table[3], {"PV"}, {"DEF"}, 2, "", "", "", "")
  BY Alt2 DEF SeqRule, AtProse, Leave
<1>4. Is2(table[4], {"TX"}, {"NUM"}, 2, "elem", "", "", "")
  BY Alt2 DEF SeqRule, NameThenCount, Push
<1>5. Is2(table[5], {"TX"}, ATOM, 2, "elem", "", "", "")
  BY Alt2 DEF SeqRule, NameThenAtom, Push
<1>6. Is1(table[6], {"ALT", "ZZ", "RP", "CB"}, 1, "", "", "", "")
  BY Alt1 DEF SeqRule, AtSeqEnd, Leave
<1>7. Is1(table[7], ATOM \union {"STAR", "NUM"}, 1, "elem", "", "", "")
  BY Alt1 DEF SeqRule, AtElem, Push
<1>8. Is0(table[8], 1, "", "", "", "")
  BY Alt0 DEF SeqRule, Leave
<1> HIDE DEF table
<1>9. QED
  BY <1>0, <1>1, <1>2, <1>3, <1>4, <1>5, <1>6, <1>7, <1>8

LEMMA ElemOpen ==
  ASSUME Top.rule = "elem", Top.phase = "open"
  PROVE  /\ DOMAIN Alternatives = 1..6
         /\ Is4(Alternatives[1], {"NUM"}, {"STAR"}, {"NUM"}, ATOM, 1, "atom", "", "", "m*n")
         /\ Is3(Alternatives[2], {"NUM"}, {"STAR"}, ATOM, 1, "atom", "", "", "m*")
         /\ Is3(Alternatives[3], {"STAR"}, {"NUM"}, ATOM, 1, "atom", "", "", "*n")
         /\ Is2(Alternatives[4], {"STAR"}, ATOM, 1, "atom", "", "", "*")
         /\ Is2(Alternatives[5], {"NUM"}, ATOM, 1, "atom", "", "", "n")
         /\ Is0(Alternatives[6], 0, "atom", "", "", "")
<1> DEFINE table == ElemRule["open"]
<1>0. Alternatives = table /\ DOMAIN table = 1..6
  BY ElemDomains DEF Alternatives, Rules
<1>1. Is4(table[1], {"NUM"}, {"STAR"}, {"NUM"}, ATOM, 1, "atom", "", "", "m*n")
  BY Alt4 DEF ElemRule, Push
<1>2. Is3(table[2], {"NUM"}, {"STAR"}, ATOM, 1, "atom", "", "", "m*")
  BY Alt3 DEF ElemRule, Push
<1>3. Is3(table[3], {"STAR"}, {"NUM"}, ATOM, 1, "atom", "", "", "*n")
  BY Alt3 DEF ElemRule, Push
<1>4. Is2(table[4], {"STAR"}, ATOM, 1, "atom", "", "", "*")
  BY Alt2 DEF ElemRule, Push
<1>5. Is2(table[5], {"NUM"}, ATOM, 1, "atom", "", "", "n")
  BY Alt2 DEF ElemRule, Push
<1>6. Is0(table[6], 0, "atom", "", "", "")
  BY Alt0 DEF ElemRule, Push
<1> HIDE DEF table
<1>7. QED
  BY <1>0, <1>1, <1>2, <1>3, <1>4, <1>5, <1>6

LEMMA ElemClose ==
  ASSUME Top.rule = "elem", Top.phase = "close"
  PROVE  /\ DOMAIN Alternatives = 1..1
         /\ Is0(Alternatives[1], 0, "", "", "", "append")
<1> DEFINE table == ElemRule["close"]
<1>0. Alternatives = table /\ DOMAIN table = 1..1
  BY ElemDomains DEF Alternatives, Rules
<1>1. Is0(table[1], 0, "", "", "", "append")
  BY Alt0 DEF ElemRule
<1> HIDE DEF table
<1>2. QED
  BY <1>0, <1>1

LEMMA AtomOpen ==
  ASSUME Top.rule = "atom", Top.phase = "open"
  PROVE  /\ DOMAIN Alternatives = 1..7
         /\ Is2(Alternatives[1], {"SS", "SI"}, {"ST"}, 0, "", "", "", "term")
         /\ Is1(Alternatives[2], {"ST"}, 0, "", "", "", "term")
         /\ Is1(Alternatives[3], {"NV"}, 0, "", "", "", "number")
         /\ Is1(Alternatives[4], {"PV"}, 0, "", "", "", "prose")
         /\ Is1(Alternatives[5], {"TX"}, 0, "", "", "", "ref")
         /\ Is1(Alternatives[6], {"LP"}, 0, "alts", "", "", "group")
         /\ Is1(Alternatives[7], {"OB"}, 0, "alts", "", "", "opt")
<1> DEFINE table == AtomRule["open"]
<1>0. Alternatives = table /\ DOMAIN table = 1..7
  BY AtomDomains DEF Alternatives, Rules
<1>1. Is2(table[1], {"SS", "SI"}, {"ST"}, 0, "", "", "", "term")
  BY Alt2 DEF AtomRule
<1>2. Is1(table[2], {"ST"}, 0, "", "", "", "term")
  BY Alt1 DEF AtomRule
<1>3. Is1(table[3], {"NV"}, 0, "", "", "", "number")
  BY Alt1 DEF AtomRule
<1>4. Is1(table[4], {"PV"}, 0, "", "", "", "prose")
  BY Alt1 DEF AtomRule
<1>5. Is1(table[5], {"TX"}, 0, "", "", "", "ref")
  BY Alt1 DEF AtomRule
<1>6. Is1(table[6], {"LP"}, 0, "alts", "", "", "group")
  BY Alt1 DEF AtomRule, Push
<1>7. Is1(table[7], {"OB"}, 0, "alts", "", "", "opt")
  BY Alt1 DEF AtomRule, Push
<1> HIDE DEF table
<1>8. QED
  BY <1>0, <1>1, <1>2, <1>3, <1>4, <1>5, <1>6, <1>7

LEMMA AtomClose ==
  ASSUME Top.rule = "atom", Top.phase = "close"
  PROVE  /\ DOMAIN Alternatives = 1..4
         /\ Is1(Alternatives[1], {"RP"}, 0, "", "", "group", "close")
         /\ Is1(Alternatives[2], {"CB"}, 0, "", "", "opt", "close")
         /\ Is1(Alternatives[3], ATOM \union {"NUM", "STAR", "RP", "CB", "ALT", "DEF", "ZZ"}, 1, "", "", "", "")
         /\ Is0(Alternatives[4], 1, "", "", "", "")
<1> DEFINE table == AtomRule["close"]
<1>0. Alternatives = table /\ DOMAIN table = 1..4
  BY AtomDomains DEF Alternatives, Rules
<1>1. Is1(table[1], {"RP"}, 0, "", "", "group", "close")
  BY Close1 DEF AtomRule
<1>2. Is1(table[2], {"CB"}, 0, "", "", "opt", "close")
  BY Close1 DEF AtomRule
<1>3. Is1(table[3], ATOM \union {"NUM", "STAR", "RP", "CB", "ALT", "DEF", "ZZ"}, 1, "", "", "", "")
  BY Alt1 DEF AtomRule, Leave
<1>4. Is0(table[4], 1, "", "", "", "")
  BY Alt0 DEF AtomRule, Leave
<1> HIDE DEF table
<1>5. QED
  BY <1>0, <1>1, <1>2, <1>3, <1>4

-----------------------------------------------------------------------------
(* What the running frame consumes and does, rule by rule.                 *)

\* Tokens no alternative takes: once next, they stay next.
Never == {"DEF", "DEFA", "NR"}

\* The next tokens begin a production.
HeaderNext(t) ==
  /\ Len(t) >= 2
  /\ (t[1] = "TX" /\ t[2] \in Defines) \/ (t[1] = "PV" /\ t[2] = "DEF")

\* The next token ends a sequence of elements.
Stopped(t) == Len(t) >= 1 /\ (t[1] \in {"ALT", "ZZ", "RP", "CB"} \/ HeaderNext(t))

\* How many tokens an alternative consumes.
Takes(alt) == IF Len(alt.s) > alt.b THEN Len(alt.s) - alt.b ELSE 0

\* An alternative whose tokens have all been lexed is the one to take.
Settled(n) ==
  /\ TypeOK /\ status = "run" /\ n \in DOMAIN Alternatives /\ First(n)
  /\ Len(la) >= Len(Alternatives[n].s)

LEMMA Reads ==
  ASSUME NEW n, Settled(n), NEW k \in DOMAIN Alternatives[n].s, k <= Len(la)
  PROVE  la[k] \in Alternatives[n].s[k]
BY DEF Settled, First, Candidates, Fits

LEMMA Reads1 ==
  ASSUME NEW n, Settled(n), NEW alt, alt = Alternatives[n],
         NEW A, NEW b, NEW p, NEW r, NEW c, NEW a,
         Is1(alt, A, b, p, r, c, a)
  PROVE  Len(la) >= 1 /\ la[1] \in A
<1>1. Len(la) \in Nat
  BY LenProperties DEF Settled, TypeOK
<1>2. Len(la) >= 1 /\ 1 \in DOMAIN Alternatives[n].s /\ Alternatives[n].s[1] = A
  BY <1>1 DEF Is1, Settled
<1>3. QED
  BY <1>1, <1>2, Reads

LEMMA Reads2 ==
  ASSUME NEW n, Settled(n), NEW alt, alt = Alternatives[n],
         NEW A, NEW B, NEW b, NEW p, NEW r, NEW c, NEW a,
         Is2(alt, A, B, b, p, r, c, a)
  PROVE  Len(la) >= 1 /\ Len(la) >= 2 /\ la[1] \in A /\ la[2] \in B
<1>1. Len(la) \in Nat
  BY LenProperties DEF Settled, TypeOK
<1>2. /\ Len(la) >= 2 /\ 1 \in DOMAIN Alternatives[n].s /\ 2 \in DOMAIN Alternatives[n].s
      /\ Alternatives[n].s[1] = A /\ Alternatives[n].s[2] = B
  BY <1>1 DEF Is2, Settled
<1>3. 1 <= Len(la) /\ 2 <= Len(la)
  BY <1>1, <1>2
<1>4. QED
  BY <1>2, <1>3, Reads

LEMMA Reads3 ==
  ASSUME NEW n, Settled(n), NEW alt, alt = Alternatives[n],
         NEW A, NEW B, NEW C, NEW b, NEW p, NEW r, NEW c, NEW a,
         Is3(alt, A, B, C, b, p, r, c, a)
  PROVE  Len(la) >= 1 /\ Len(la) >= 3 /\ la[1] \in A /\ la[2] \in B /\ la[3] \in C
<1>1. Len(la) \in Nat
  BY LenProperties DEF Settled, TypeOK
<1>2. /\ Len(la) >= 3 /\ \A k \in 1..3 : k \in DOMAIN Alternatives[n].s
      /\ Alternatives[n].s[1] = A /\ Alternatives[n].s[2] = B /\ Alternatives[n].s[3] = C
  BY <1>1 DEF Is3, Settled
<1>3. \A k \in 1..3 : k <= Len(la) /\ la[k] \in Alternatives[n].s[k]
  BY <1>1, <1>2, Reads
<1>4. QED
  BY <1>2, <1>3

LEMMA Reads4 ==
  ASSUME NEW n, Settled(n), NEW alt, alt = Alternatives[n],
         NEW A, NEW B, NEW C, NEW D,
         NEW b, NEW p, NEW r, NEW c, NEW a,
         Is4(alt, A, B, C, D, b, p, r, c, a)
  PROVE  Len(la) >= 1 /\ Len(la) >= 4 /\ la[1] \in A /\ la[2] \in B /\ la[3] \in C /\ la[4] \in D
<1>1. Len(la) \in Nat
  BY LenProperties DEF Settled, TypeOK
<1>2. /\ Len(la) >= 4 /\ \A k \in 1..4 : k \in DOMAIN Alternatives[n].s
      /\ Alternatives[n].s[1] = A /\ Alternatives[n].s[2] = B
      /\ Alternatives[n].s[3] = C /\ Alternatives[n].s[4] = D
  BY <1>1 DEF Is4, Settled
<1>3. \A k \in 1..4 : k <= Len(la) /\ la[k] \in Alternatives[n].s[k]
  BY <1>1, <1>2, Reads
<1>4. QED
  BY <1>2, <1>3

LEMMA OneToken ==
  ASSUME NEW alt, NEW A, NEW b, NEW p, NEW r, NEW c, NEW a, Is1(alt, A, b, p, r, c, a)
  PROVE  (\A k \in DOMAIN alt.s : k = 1) /\ alt.s[1] = A
<1>1. DOMAIN alt.s = 1..1 /\ alt.s[1] = A
  BY DEF Is1
<1>2. \A k \in 1..1 : k = 1
  OBVIOUS
<1>3. QED
  BY <1>1, <1>2, Zenon

\* An earlier alternative of one token does not match.
LEMMA PassedOver ==
  ASSUME NEW n, Settled(n), NEW m \in DOMAIN Alternatives, ~(n <= m),
         NEW A, NEW b, NEW p, NEW r, NEW c, NEW a, Is1(Alternatives[m], A, b, p, r, c, a),
         c # "" => Top.grp = c
  PROVE  Len(la) >= 1 /\ la[1] \notin A
<1>1. ~Fits(Alternatives[m])
  BY DEF Settled, First, Candidates
<1>2. Len(la) \in Nat
  BY LenProperties DEF Settled, TypeOK
<1>3. \E k \in DOMAIN Alternatives[m].s : k <= Len(la) /\ la[k] \notin Alternatives[m].s[k]
  BY <1>1 DEF Fits, Is1, Act
<1>4. (\A k \in DOMAIN Alternatives[m].s : k = 1) /\ Alternatives[m].s[1] = A
  BY OneToken, Zenon
<1>5. 1 <= Len(la) /\ la[1] \notin A
  BY <1>3, <1>4, Zenon
<1>6. QED
  BY <1>2, <1>5

\* What an alternative consumes and does.
Does(alt, k, p, r, a) == Takes(alt) = k /\ alt.p = p /\ alt.r = r /\ alt.a = a

LEMMA Doing0 ==
  ASSUME NEW alt, NEW b \in Nat, NEW p, NEW r, NEW c, NEW a,
         Is0(alt, b, p, r, c, a)
  PROVE  Does(alt, 0, p, r, a)
BY DEF Is0, Act, Does, Takes

LEMMA Doing10 ==
  ASSUME NEW alt, NEW A, NEW p, NEW r, NEW c, NEW a,
         Is1(alt, A, 0, p, r, c, a)
  PROVE  Does(alt, 1, p, r, a)
BY DEF Is1, Act, Does, Takes

LEMMA Doing11 ==
  ASSUME NEW alt, NEW A, NEW p, NEW r, NEW c, NEW a,
         Is1(alt, A, 1, p, r, c, a)
  PROVE  Does(alt, 0, p, r, a)
BY DEF Is1, Act, Does, Takes

LEMMA Doing20 ==
  ASSUME NEW alt, NEW A, NEW B, NEW p, NEW r, NEW c, NEW a,
         Is2(alt, A, B, 0, p, r, c, a)
  PROVE  Does(alt, 2, p, r, a)
BY DEF Is2, Act, Does, Takes

LEMMA Doing21 ==
  ASSUME NEW alt, NEW A, NEW B, NEW p, NEW r, NEW c, NEW a,
         Is2(alt, A, B, 1, p, r, c, a)
  PROVE  Does(alt, 1, p, r, a)
BY DEF Is2, Act, Does, Takes

LEMMA Doing22 ==
  ASSUME NEW alt, NEW A, NEW B, NEW p, NEW r, NEW c, NEW a,
         Is2(alt, A, B, 2, p, r, c, a)
  PROVE  Does(alt, 0, p, r, a)
BY DEF Is2, Act, Does, Takes

LEMMA Doing31 ==
  ASSUME NEW alt, NEW A, NEW B, NEW C, NEW p, NEW r, NEW c, NEW a,
         Is3(alt, A, B, C, 1, p, r, c, a)
  PROVE  Does(alt, 2, p, r, a)
BY DEF Is3, Act, Does, Takes

LEMMA Doing41 ==
  ASSUME NEW alt, NEW A, NEW B, NEW C, NEW D, NEW p, NEW r, NEW c, NEW a,
         Is4(alt, A, B, C, D, 1, p, r, c, a)
  PROVE  Does(alt, 3, p, r, a)
BY DEF Is4, Act, Does, Takes

LEMMA HeadKind ==
  ASSUME TypeOK, Len(la) >= 1
  PROVE  la[1] \in Kinds
<1>1. Len(la) \in Nat /\ la \in Seq(Kinds)
  BY LenProperties DEF TypeOK
<1>2. 1 \in 1..Len(la)
  BY <1>1
<1>3. QED
  BY <1>1, <1>2, ElementOfSeq

LEMMA AbnfOpenDoes ==
  ASSUME NEW n, Settled(n), NEW alt, alt = Alternatives[n],
         Top.rule = "abnf", Top.phase = "open"
  PROVE  /\ Does(alt, 0, "prod", "", "") \/ Does(alt, 1, "", "", "")
         /\ alt.p = "" => Len(la) >= 1 /\ la[1] = "ZZ"
<1>0. DOMAIN Alternatives = 1..2
  BY AbnfOpen, Zenon
<1>1. n = 1 \/ n = 2
  BY <1>0 DEF Settled
<1>2. CASE n = 1
  <2>1. Is1(alt, {"ZZ"}, 0, "", "", "", "")
    BY <1>2, AbnfOpen, Zenon
  <2>2. Does(alt, 1, "", "", "")
    BY <2>1, Doing10, Zenon
  <2>3. Len(la) >= 1 /\ la[1] = "ZZ"
    <3>1. Len(la) >= 1 /\ la[1] \in {"ZZ"}
      BY <2>1, Reads1, Zenon
    <3>2. QED
      BY <3>1
  <2>4. alt.p = "" /\ alt.r = ""
    BY <2>2 DEF Does
  <2>5. QED
    BY <2>2, <2>3, <2>4, Zenon
<1>3. CASE n = 2
  <2>1. Is0(alt, 0, "prod", "", "", "")
    BY <1>3, AbnfOpen, Zenon
  <2>2. Does(alt, 0, "prod", "", "")
    BY <2>1, Doing0, Zenon
  <2>3. alt.p = "prod" /\ alt.r = ""
    BY <2>2 DEF Does
  <2>4. QED
    BY <2>2, <2>3, Zenon
<1>4. QED
  BY <1>1, <1>2, <1>3, Zenon

LEMMA AbnfCloseDoes ==
  ASSUME NEW n, Settled(n), NEW alt, alt = Alternatives[n],
         Top.rule = "abnf", Top.phase = "close"
  PROVE  Does(alt, 1, "", "", "") /\ Len(la) >= 1 /\ la[1] = "ZZ"
<1>0. DOMAIN Alternatives = 1..1
  BY AbnfClose, Zenon
<1>1. n = 1
  BY <1>0 DEF Settled
<1>2. CASE n = 1
  <2>1. Is1(alt, {"ZZ"}, 0, "", "", "", "")
    BY <1>2, AbnfClose, Zenon
  <2>2. Does(alt, 1, "", "", "")
    BY <2>1, Doing10, Zenon
  <2>3. Len(la) >= 1 /\ la[1] = "ZZ"
    <3>1. Len(la) >= 1 /\ la[1] \in {"ZZ"}
      BY <2>1, Reads1, Zenon
    <3>2. QED
      BY <3>1
  <2>4. QED
    BY <2>2, <2>3, Zenon
<1>3. QED
  BY <1>1, <1>2, Zenon

LEMMA ProdOpenDoes ==
  ASSUME NEW n, Settled(n), NEW alt, alt = Alternatives[n],
         Top.rule = "prod", Top.phase = "open"
  PROVE  /\ Does(alt, 2, "alts", "", "define") \/ Does(alt, 2, "alts", "", "extend")
         /\ HeaderNext(la)
<1>0. DOMAIN Alternatives = 1..3
  BY ProdOpen, Zenon
<1>1. n = 1 \/ n = 2 \/ n = 3
  BY <1>0 DEF Settled
<1>2. CASE n = 1
  <2>1. Is2(alt, {"TX"}, {"DEF"}, 0, "alts", "", "", "define")
    BY <1>2, ProdOpen, Zenon
  <2>2. Does(alt, 2, "alts", "", "define")
    BY <2>1, Doing20, Zenon
  <2>3. Len(la) >= 1 /\ Len(la) >= 2 /\ la[1] = "TX" /\ la[2] = "DEF"
    <3>1. Len(la) >= 1 /\ Len(la) >= 2 /\ la[1] \in {"TX"} /\ la[2] \in {"DEF"}
      BY <2>1, Reads2, Zenon
    <3>2. QED
      BY <3>1
  <2>4. HeaderNext(la)
    BY <2>3 DEF HeaderNext, Defines
  <2>5. QED
    BY <2>2, <2>3, <2>4, Zenon
<1>3. CASE n = 2
  <2>1. Is2(alt, {"PV"}, {"DEF"}, 0, "alts", "", "", "define")
    BY <1>3, ProdOpen, Zenon
  <2>2. Does(alt, 2, "alts", "", "define")
    BY <2>1, Doing20, Zenon
  <2>3. Len(la) >= 1 /\ Len(la) >= 2 /\ la[1] = "PV" /\ la[2] = "DEF"
    <3>1. Len(la) >= 1 /\ Len(la) >= 2 /\ la[1] \in {"PV"} /\ la[2] \in {"DEF"}
      BY <2>1, Reads2, Zenon
    <3>2. QED
      BY <3>1
  <2>4. HeaderNext(la)
    BY <2>3 DEF HeaderNext, Defines
  <2>5. QED
    BY <2>2, <2>3, <2>4, Zenon
<1>4. CASE n = 3
  <2>1. Is2(alt, {"TX"}, {"DEFA"}, 0, "alts", "", "", "extend")
    BY <1>4, ProdOpen, Zenon
  <2>2. Does(alt, 2, "alts", "", "extend")
    BY <2>1, Doing20, Zenon
  <2>3. Len(la) >= 1 /\ Len(la) >= 2 /\ la[1] = "TX" /\ la[2] = "DEFA"
    <3>1. Len(la) >= 1 /\ Len(la) >= 2 /\ la[1] \in {"TX"} /\ la[2] \in {"DEFA"}
      BY <2>1, Reads2, Zenon
    <3>2. QED
      BY <3>1
  <2>4. HeaderNext(la)
    BY <2>3 DEF HeaderNext, Defines
  <2>5. QED
    BY <2>2, <2>3, <2>4, Zenon
<1>5. QED
  BY <1>1, <1>2, <1>3, <1>4, Zenon

LEMMA ProdCloseDoes ==
  ASSUME NEW n, Settled(n), NEW alt, alt = Alternatives[n],
         Top.rule = "prod", Top.phase = "close"
  PROVE  /\ Does(alt, 0, "", "prod", "") \/ Does(alt, 0, "", "", "")
         /\ alt.r # "" => HeaderNext(la)
<1>0. DOMAIN Alternatives = 1..4
  BY ProdClose, Zenon
<1>1. n = 1 \/ n = 2 \/ n = 3 \/ n = 4
  BY <1>0 DEF Settled
<1>2. CASE n = 1
  <2>1. Is2(alt, {"TX"}, {"DEF"}, 2, "", "prod", "", "")
    BY <1>2, ProdClose, Zenon
  <2>2. Does(alt, 0, "", "prod", "")
    BY <2>1, Doing22, Zenon
  <2>3. Len(la) >= 1 /\ Len(la) >= 2 /\ la[1] = "TX" /\ la[2] = "DEF"
    <3>1. Len(la) >= 1 /\ Len(la) >= 2 /\ la[1] \in {"TX"} /\ la[2] \in {"DEF"}
      BY <2>1, Reads2, Zenon
    <3>2. QED
      BY <3>1
  <2>4. HeaderNext(la)
    BY <2>3 DEF HeaderNext, Defines
  <2>5. alt.p = "" /\ alt.r = "prod"
    BY <2>2 DEF Does
  <2>6. QED
    BY <2>2, <2>3, <2>4, <2>5, Zenon
<1>3. CASE n = 2
  <2>1. Is2(alt, {"TX"}, {"DEFA"}, 2, "", "prod", "", "")
    BY <1>3, ProdClose, Zenon
  <2>2. Does(alt, 0, "", "prod", "")
    BY <2>1, Doing22, Zenon
  <2>3. Len(la) >= 1 /\ Len(la) >= 2 /\ la[1] = "TX" /\ la[2] = "DEFA"
    <3>1. Len(la) >= 1 /\ Len(la) >= 2 /\ la[1] \in {"TX"} /\ la[2] \in {"DEFA"}
      BY <2>1, Reads2, Zenon
    <3>2. QED
      BY <3>1
  <2>4. HeaderNext(la)
    BY <2>3 DEF HeaderNext, Defines
  <2>5. alt.p = "" /\ alt.r = "prod"
    BY <2>2 DEF Does
  <2>6. QED
    BY <2>2, <2>3, <2>4, <2>5, Zenon
<1>4. CASE n = 3
  <2>1. Is2(alt, {"PV"}, {"DEF"}, 2, "", "prod", "", "")
    BY <1>4, ProdClose, Zenon
  <2>2. Does(alt, 0, "", "prod", "")
    BY <2>1, Doing22, Zenon
  <2>3. Len(la) >= 1 /\ Len(la) >= 2 /\ la[1] = "PV" /\ la[2] = "DEF"
    <3>1. Len(la) >= 1 /\ Len(la) >= 2 /\ la[1] \in {"PV"} /\ la[2] \in {"DEF"}
      BY <2>1, Reads2, Zenon
    <3>2. QED
      BY <3>1
  <2>4. HeaderNext(la)
    BY <2>3 DEF HeaderNext, Defines
  <2>5. alt.p = "" /\ alt.r = "prod"
    BY <2>2 DEF Does
  <2>6. QED
    BY <2>2, <2>3, <2>4, <2>5, Zenon
<1>5. CASE n = 4
  <2>1. Is0(alt, 1, "", "", "", "")
    BY <1>5, ProdClose, Zenon
  <2>2. Does(alt, 0, "", "", "")
    BY <2>1, Doing0, Zenon
  <2>3. alt.p = "" /\ alt.r = ""
    BY <2>2 DEF Does
  <2>4. QED
    BY <2>2, <2>3, Zenon
<1>6. QED
  BY <1>1, <1>2, <1>3, <1>4, <1>5, Zenon

LEMMA AltsOpenDoes ==
  ASSUME NEW n, Settled(n), NEW alt, alt = Alternatives[n],
         Top.rule = "alts", Top.phase = "open"
  PROVE  Does(alt, 0, "seq", "", "")
<1>0. DOMAIN Alternatives = 1..1
  BY AltsOpen, Zenon
<1>1. n = 1
  BY <1>0 DEF Settled
<1>2. CASE n = 1
  <2>1. Is0(alt, 0, "seq", "", "", "")
    BY <1>2, AltsOpen, Zenon
  <2>2. Does(alt, 0, "seq", "", "")
    BY <2>1, Doing0, Zenon
  <2>3. QED
    BY <2>2, Zenon
<1>3. QED
  BY <1>1, <1>2, Zenon

LEMMA AltsCloseDoes ==
  ASSUME NEW n, Settled(n), NEW alt, alt = Alternatives[n],
         Top.rule = "alts", Top.phase = "close"
  PROVE  /\ Len(la) >= 1
         /\ \/ Does(alt, 1, "seq", "", "") /\ la[1] = "ALT"
            \/ Does(alt, 0, "", "", "") /\ la[1] # "ALT"
<1>0. DOMAIN Alternatives = 1..2
  BY AltsClose, Zenon
<1>1. n = 1 \/ n = 2
  BY <1>0 DEF Settled
<1>2. CASE n = 1
  <2>1. Is1(alt, {"ALT"}, 0, "seq", "", "", "")
    BY <1>2, AltsClose, Zenon
  <2>2. Does(alt, 1, "seq", "", "")
    BY <2>1, Doing10, Zenon
  <2>3. Len(la) >= 1 /\ la[1] = "ALT"
    <3>1. Len(la) >= 1 /\ la[1] \in {"ALT"}
      BY <2>1, Reads1, Zenon
    <3>2. QED
      BY <3>1
  <2>4. QED
    BY <2>2, <2>3, Zenon
<1>3. CASE n = 2
  <2>1. Is0(alt, 1, "", "", "", "")
    BY <1>3, AltsClose, Zenon
  <2>2. Does(alt, 0, "", "", "")
    BY <2>1, Doing0, Zenon
  <2>3. Is1(Alternatives[1], {"ALT"}, 0, "seq", "", "", "")
    BY AltsClose, Zenon
  <2>4. 1 \in DOMAIN Alternatives /\ ~(n <= 1)
    BY <1>0, <1>3
  <2>5. Len(la) >= 1 /\ la[1] # "ALT"
    BY <2>3, <2>4, PassedOver, Zenon
  <2>6. QED
    BY <2>2, <2>5, Zenon
<1>4. QED
  BY <1>1, <1>2, <1>3, Zenon

LEMMA SeqOpenDoes ==
  ASSUME NEW n, Settled(n), NEW alt, alt = Alternatives[n],
         Top.rule = "seq", Top.phase = "open"
  PROVE  /\ Len(la) >= 1
         /\ \/ Does(alt, 0, "elem", "", "")
            \/ Does(alt, 0, "", "", "") /\ Stopped(la)
<1>0. DOMAIN Alternatives = 1..8
  BY SeqOpen, Zenon
<1>1. n = 1 \/ n = 2 \/ n = 3 \/ n = 4 \/ n = 5 \/ n = 6 \/ n = 7 \/ n = 8
  BY <1>0 DEF Settled
<1>2. CASE n = 1
  <2>1. Is2(alt, {"TX"}, {"DEF"}, 2, "", "", "", "")
    BY <1>2, SeqOpen, Zenon
  <2>2. Does(alt, 0, "", "", "")
    BY <2>1, Doing22, Zenon
  <2>3. Len(la) >= 1 /\ Len(la) >= 2 /\ la[1] = "TX" /\ la[2] = "DEF"
    <3>1. Len(la) >= 1 /\ Len(la) >= 2 /\ la[1] \in {"TX"} /\ la[2] \in {"DEF"}
      BY <2>1, Reads2, Zenon
    <3>2. QED
      BY <3>1
  <2>4. Stopped(la)
    BY <2>3 DEF Stopped, HeaderNext, Defines
  <2>5. QED
    BY <2>2, <2>3, <2>4, Zenon
<1>3. CASE n = 2
  <2>1. Is2(alt, {"TX"}, {"DEFA"}, 2, "", "", "", "")
    BY <1>3, SeqOpen, Zenon
  <2>2. Does(alt, 0, "", "", "")
    BY <2>1, Doing22, Zenon
  <2>3. Len(la) >= 1 /\ Len(la) >= 2 /\ la[1] = "TX" /\ la[2] = "DEFA"
    <3>1. Len(la) >= 1 /\ Len(la) >= 2 /\ la[1] \in {"TX"} /\ la[2] \in {"DEFA"}
      BY <2>1, Reads2, Zenon
    <3>2. QED
      BY <3>1
  <2>4. Stopped(la)
    BY <2>3 DEF Stopped, HeaderNext, Defines
  <2>5. QED
    BY <2>2, <2>3, <2>4, Zenon
<1>4. CASE n = 3
  <2>1. Is2(alt, {"TX"}, {"NUM"}, 2, "elem", "", "", "")
    BY <1>4, SeqOpen, Zenon
  <2>2. Does(alt, 0, "elem", "", "")
    BY <2>1, Doing22, Zenon
  <2>3. Len(la) >= 1 /\ Len(la) >= 2 /\ la[1] = "TX" /\ la[2] = "NUM"
    <3>1. Len(la) >= 1 /\ Len(la) >= 2 /\ la[1] \in {"TX"} /\ la[2] \in {"NUM"}
      BY <2>1, Reads2, Zenon
    <3>2. QED
      BY <3>1
  <2>4. QED
    BY <2>2, <2>3, Zenon
<1>5. CASE n = 4
  <2>1. Is2(alt, {"TX"}, ATOM, 2, "elem", "", "", "")
    BY <1>5, SeqOpen, Zenon
  <2>2. Does(alt, 0, "elem", "", "")
    BY <2>1, Doing22, Zenon
  <2>3. Len(la) >= 1 /\ Len(la) >= 2 /\ la[1] = "TX" /\ la[2] \in ATOM
    <3>1. Len(la) >= 1 /\ Len(la) >= 2 /\ la[1] \in {"TX"} /\ la[2] \in ATOM
      BY <2>1, Reads2, Zenon
    <3>2. QED
      BY <3>1
  <2>4. QED
    BY <2>2, <2>3, Zenon
<1>6. CASE n = 5
  <2>1. Is2(alt, {"PV"}, {"DEF"}, 2, "", "", "", "")
    BY <1>6, SeqOpen, Zenon
  <2>2. Does(alt, 0, "", "", "")
    BY <2>1, Doing22, Zenon
  <2>3. Len(la) >= 1 /\ Len(la) >= 2 /\ la[1] = "PV" /\ la[2] = "DEF"
    <3>1. Len(la) >= 1 /\ Len(la) >= 2 /\ la[1] \in {"PV"} /\ la[2] \in {"DEF"}
      BY <2>1, Reads2, Zenon
    <3>2. QED
      BY <3>1
  <2>4. Stopped(la)
    BY <2>3 DEF Stopped, HeaderNext, Defines
  <2>5. QED
    BY <2>2, <2>3, <2>4, Zenon
<1>7. CASE n = 6
  <2>1. Is1(alt, {"ALT", "ZZ", "RP", "CB"}, 1, "", "", "", "")
    BY <1>7, SeqOpen, Zenon
  <2>2. Does(alt, 0, "", "", "")
    BY <2>1, Doing11, Zenon
  <2>3. Len(la) >= 1 /\ la[1] \in {"ALT", "ZZ", "RP", "CB"}
    BY <2>1, Reads1, Zenon
  <2>4. Stopped(la)
    BY <2>3 DEF Stopped, HeaderNext, Defines
  <2>5. QED
    BY <2>2, <2>3, <2>4, Zenon
<1>8. CASE n = 7
  <2>1. Is1(alt, ATOM \union {"STAR", "NUM"}, 1, "elem", "", "", "")
    BY <1>8, SeqOpen, Zenon
  <2>2. Does(alt, 0, "elem", "", "")
    BY <2>1, Doing11, Zenon
  <2>3. Len(la) >= 1 /\ la[1] \in (ATOM \union {"STAR", "NUM"})
    BY <2>1, Reads1, Zenon
  <2>4. QED
    BY <2>2, <2>3, Zenon
<1>9. CASE n = 8
  <2>1. Is0(alt, 0, "elem", "", "", "")
    BY <1>9, SeqOpen, Zenon
  <2>2. Does(alt, 0, "elem", "", "")
    BY <2>1, Doing0, Zenon
  <2>3. Is1(Alternatives[7], ATOM \union {"STAR", "NUM"}, 1, "elem", "", "", "")
    BY SeqOpen, Zenon
  <2>4. 7 \in DOMAIN Alternatives /\ ~(n <= 7)
    BY <1>0, <1>9
  <2>5. Len(la) >= 1 /\ la[1] \notin (ATOM \union {"STAR", "NUM"})
    BY <2>3, <2>4, PassedOver, Zenon
  <2>6. QED
    BY <2>2, <2>5, Zenon
<1>10. QED
  BY <1>1, <1>2, <1>3, <1>4, <1>5, <1>6, <1>7, <1>8, <1>9, Zenon

LEMMA SeqCloseDoes ==
  ASSUME NEW n, Settled(n), NEW alt, alt = Alternatives[n],
         Top.rule = "seq", Top.phase = "close"
  PROVE  /\ Len(la) >= 1
         /\ \/ Does(alt, 0, "elem", "", "")
            \/ Does(alt, 0, "", "", "") /\ (Stopped(la) \/ la[1] \in Never \union {"BD"})
<1>0. DOMAIN Alternatives = 1..8
  BY SeqClose, Zenon
<1>1. n = 1 \/ n = 2 \/ n = 3 \/ n = 4 \/ n = 5 \/ n = 6 \/ n = 7 \/ n = 8
  BY <1>0 DEF Settled
<1>2. CASE n = 1
  <2>1. Is2(alt, {"TX"}, {"DEF"}, 2, "", "", "", "")
    BY <1>2, SeqClose, Zenon
  <2>2. Does(alt, 0, "", "", "")
    BY <2>1, Doing22, Zenon
  <2>3. Len(la) >= 1 /\ Len(la) >= 2 /\ la[1] = "TX" /\ la[2] = "DEF"
    <3>1. Len(la) >= 1 /\ Len(la) >= 2 /\ la[1] \in {"TX"} /\ la[2] \in {"DEF"}
      BY <2>1, Reads2, Zenon
    <3>2. QED
      BY <3>1
  <2>4. Stopped(la)
    BY <2>3 DEF Stopped, HeaderNext, Defines
  <2>5. QED
    BY <2>2, <2>3, <2>4, Zenon
<1>3. CASE n = 2
  <2>1. Is2(alt, {"TX"}, {"DEFA"}, 2, "", "", "", "")
    BY <1>3, SeqClose, Zenon
  <2>2. Does(alt, 0, "", "", "")
    BY <2>1, Doing22, Zenon
  <2>3. Len(la) >= 1 /\ Len(la) >= 2 /\ la[1] = "TX" /\ la[2] = "DEFA"
    <3>1. Len(la) >= 1 /\ Len(la) >= 2 /\ la[1] \in {"TX"} /\ la[2] \in {"DEFA"}
      BY <2>1, Reads2, Zenon
    <3>2. QED
      BY <3>1
  <2>4. Stopped(la)
    BY <2>3 DEF Stopped, HeaderNext, Defines
  <2>5. QED
    BY <2>2, <2>3, <2>4, Zenon
<1>4. CASE n = 3
  <2>1. Is2(alt, {"PV"}, {"DEF"}, 2, "", "", "", "")
    BY <1>4, SeqClose, Zenon
  <2>2. Does(alt, 0, "", "", "")
    BY <2>1, Doing22, Zenon
  <2>3. Len(la) >= 1 /\ Len(la) >= 2 /\ la[1] = "PV" /\ la[2] = "DEF"
    <3>1. Len(la) >= 1 /\ Len(la) >= 2 /\ la[1] \in {"PV"} /\ la[2] \in {"DEF"}
      BY <2>1, Reads2, Zenon
    <3>2. QED
      BY <3>1
  <2>4. Stopped(la)
    BY <2>3 DEF Stopped, HeaderNext, Defines
  <2>5. QED
    BY <2>2, <2>3, <2>4, Zenon
<1>5. CASE n = 4
  <2>1. Is2(alt, {"TX"}, {"NUM"}, 2, "elem", "", "", "")
    BY <1>5, SeqClose, Zenon
  <2>2. Does(alt, 0, "elem", "", "")
    BY <2>1, Doing22, Zenon
  <2>3. Len(la) >= 1 /\ Len(la) >= 2 /\ la[1] = "TX" /\ la[2] = "NUM"
    <3>1. Len(la) >= 1 /\ Len(la) >= 2 /\ la[1] \in {"TX"} /\ la[2] \in {"NUM"}
      BY <2>1, Reads2, Zenon
    <3>2. QED
      BY <3>1
  <2>4. QED
    BY <2>2, <2>3, Zenon
<1>6. CASE n = 5
  <2>1. Is2(alt, {"TX"}, ATOM, 2, "elem", "", "", "")
    BY <1>6, SeqClose, Zenon
  <2>2. Does(alt, 0, "elem", "", "")
    BY <2>1, Doing22, Zenon
  <2>3. Len(la) >= 1 /\ Len(la) >= 2 /\ la[1] = "TX" /\ la[2] \in ATOM
    <3>1. Len(la) >= 1 /\ Len(la) >= 2 /\ la[1] \in {"TX"} /\ la[2] \in ATOM
      BY <2>1, Reads2, Zenon
    <3>2. QED
      BY <3>1
  <2>4. QED
    BY <2>2, <2>3, Zenon
<1>7. CASE n = 6
  <2>1. Is1(alt, {"ALT", "ZZ", "RP", "CB"}, 1, "", "", "", "")
    BY <1>7, SeqClose, Zenon
  <2>2. Does(alt, 0, "", "", "")
    BY <2>1, Doing11, Zenon
  <2>3. Len(la) >= 1 /\ la[1] \in {"ALT", "ZZ", "RP", "CB"}
    BY <2>1, Reads1, Zenon
  <2>4. Stopped(la)
    BY <2>3 DEF Stopped, HeaderNext, Defines
  <2>5. QED
    BY <2>2, <2>3, <2>4, Zenon
<1>8. CASE n = 7
  <2>1. Is1(alt, ATOM \union {"STAR", "NUM"}, 1, "elem", "", "", "")
    BY <1>8, SeqClose, Zenon
  <2>2. Does(alt, 0, "elem", "", "")
    BY <2>1, Doing11, Zenon
  <2>3. Len(la) >= 1 /\ la[1] \in (ATOM \union {"STAR", "NUM"})
    BY <2>1, Reads1, Zenon
  <2>4. QED
    BY <2>2, <2>3, Zenon
<1>9. CASE n = 8
  <2>1. Is0(alt, 1, "", "", "", "")
    BY <1>9, SeqClose, Zenon
  <2>2. Does(alt, 0, "", "", "")
    BY <2>1, Doing0, Zenon
  <2>3. Is1(Alternatives[7], ATOM \union {"STAR", "NUM"}, 1, "elem", "", "", "")
    BY SeqClose, Zenon
  <2>4. 7 \in DOMAIN Alternatives /\ ~(n <= 7)
    BY <1>0, <1>9
  <2>5. Len(la) >= 1 /\ la[1] \notin (ATOM \union {"STAR", "NUM"})
    BY <2>3, <2>4, PassedOver, Zenon
  <2>6. Stopped(la) \/ la[1] \in Never \union {"BD"}
    <3>1. la[1] \in Kinds
      BY <2>5, HeadKind DEF Settled
    <3>2. QED
      BY <2>5, <3>1 DEF Kinds, Fixed, Matched, ATOM, Never, Stopped
  <2>7. QED
    BY <2>2, <2>5, <2>6, Zenon
<1>10. QED
  BY <1>1, <1>2, <1>3, <1>4, <1>5, <1>6, <1>7, <1>8, <1>9, Zenon

LEMMA ElemOpenDoes ==
  ASSUME NEW n, Settled(n), NEW alt, alt = Alternatives[n],
         Top.rule = "elem", Top.phase = "open"
  PROVE  \/ Does(alt, 0, "atom", "", "")
         \/ /\ Does(alt, 1, "atom", "", "n") /\ Len(la) >= 2
            /\ la[1] = "NUM" /\ la[2] \in ATOM
         \/ /\ Does(alt, 1, "atom", "", "*") /\ Len(la) >= 2
            /\ la[1] = "STAR" /\ la[2] \in ATOM
         \/ /\ Does(alt, 2, "atom", "", "m*") /\ Len(la) >= 3
            /\ la[1] = "NUM" /\ la[2] = "STAR" /\ la[3] \in ATOM
         \/ /\ Does(alt, 2, "atom", "", "*n") /\ Len(la) >= 3
            /\ la[1] = "STAR" /\ la[2] = "NUM" /\ la[3] \in ATOM
         \/ /\ Does(alt, 3, "atom", "", "m*n") /\ Len(la) >= 4
            /\ la[1] = "NUM" /\ la[2] = "STAR" /\ la[3] = "NUM" /\ la[4] \in ATOM
<1>0. DOMAIN Alternatives = 1..6
  BY ElemOpen, Zenon
<1>1. n = 1 \/ n = 2 \/ n = 3 \/ n = 4 \/ n = 5 \/ n = 6
  BY <1>0 DEF Settled
<1>2. CASE n = 1
  <2>1. Is4(alt, {"NUM"}, {"STAR"}, {"NUM"}, ATOM, 1, "atom", "", "", "m*n")
    BY <1>2, ElemOpen, Zenon
  <2>2. Does(alt, 3, "atom", "", "m*n")
    BY <2>1, Doing41, Zenon
  <2>3. Len(la) >= 1 /\ Len(la) >= 4 /\ la[1] = "NUM" /\ la[2] = "STAR" /\ la[3] = "NUM" /\ la[4] \in ATOM
    <3>1. Len(la) >= 1 /\ Len(la) >= 4 /\ la[1] \in {"NUM"} /\ la[2] \in {"STAR"} /\ la[3] \in {"NUM"} /\ la[4] \in ATOM
      BY <2>1, Reads4, Zenon
    <3>2. QED
      BY <3>1
  <2>4. QED
    BY <2>2, <2>3, Zenon
<1>3. CASE n = 2
  <2>1. Is3(alt, {"NUM"}, {"STAR"}, ATOM, 1, "atom", "", "", "m*")
    BY <1>3, ElemOpen, Zenon
  <2>2. Does(alt, 2, "atom", "", "m*")
    BY <2>1, Doing31, Zenon
  <2>3. Len(la) >= 1 /\ Len(la) >= 3 /\ la[1] = "NUM" /\ la[2] = "STAR" /\ la[3] \in ATOM
    <3>1. Len(la) >= 1 /\ Len(la) >= 3 /\ la[1] \in {"NUM"} /\ la[2] \in {"STAR"} /\ la[3] \in ATOM
      BY <2>1, Reads3, Zenon
    <3>2. QED
      BY <3>1
  <2>4. QED
    BY <2>2, <2>3, Zenon
<1>4. CASE n = 3
  <2>1. Is3(alt, {"STAR"}, {"NUM"}, ATOM, 1, "atom", "", "", "*n")
    BY <1>4, ElemOpen, Zenon
  <2>2. Does(alt, 2, "atom", "", "*n")
    BY <2>1, Doing31, Zenon
  <2>3. Len(la) >= 1 /\ Len(la) >= 3 /\ la[1] = "STAR" /\ la[2] = "NUM" /\ la[3] \in ATOM
    <3>1. Len(la) >= 1 /\ Len(la) >= 3 /\ la[1] \in {"STAR"} /\ la[2] \in {"NUM"} /\ la[3] \in ATOM
      BY <2>1, Reads3, Zenon
    <3>2. QED
      BY <3>1
  <2>4. QED
    BY <2>2, <2>3, Zenon
<1>5. CASE n = 4
  <2>1. Is2(alt, {"STAR"}, ATOM, 1, "atom", "", "", "*")
    BY <1>5, ElemOpen, Zenon
  <2>2. Does(alt, 1, "atom", "", "*")
    BY <2>1, Doing21, Zenon
  <2>3. Len(la) >= 1 /\ Len(la) >= 2 /\ la[1] = "STAR" /\ la[2] \in ATOM
    <3>1. Len(la) >= 1 /\ Len(la) >= 2 /\ la[1] \in {"STAR"} /\ la[2] \in ATOM
      BY <2>1, Reads2, Zenon
    <3>2. QED
      BY <3>1
  <2>4. QED
    BY <2>2, <2>3, Zenon
<1>6. CASE n = 5
  <2>1. Is2(alt, {"NUM"}, ATOM, 1, "atom", "", "", "n")
    BY <1>6, ElemOpen, Zenon
  <2>2. Does(alt, 1, "atom", "", "n")
    BY <2>1, Doing21, Zenon
  <2>3. Len(la) >= 1 /\ Len(la) >= 2 /\ la[1] = "NUM" /\ la[2] \in ATOM
    <3>1. Len(la) >= 1 /\ Len(la) >= 2 /\ la[1] \in {"NUM"} /\ la[2] \in ATOM
      BY <2>1, Reads2, Zenon
    <3>2. QED
      BY <3>1
  <2>4. QED
    BY <2>2, <2>3, Zenon
<1>7. CASE n = 6
  <2>1. Is0(alt, 0, "atom", "", "", "")
    BY <1>7, ElemOpen, Zenon
  <2>2. Does(alt, 0, "atom", "", "")
    BY <2>1, Doing0, Zenon
  <2>3. QED
    BY <2>2, Zenon
<1>8. QED
  BY <1>1, <1>2, <1>3, <1>4, <1>5, <1>6, <1>7, Zenon

LEMMA ElemCloseDoes ==
  ASSUME NEW n, Settled(n), NEW alt, alt = Alternatives[n],
         Top.rule = "elem", Top.phase = "close"
  PROVE  Does(alt, 0, "", "", "append")
<1>0. DOMAIN Alternatives = 1..1
  BY ElemClose, Zenon
<1>1. n = 1
  BY <1>0 DEF Settled
<1>2. CASE n = 1
  <2>1. Is0(alt, 0, "", "", "", "append")
    BY <1>2, ElemClose, Zenon
  <2>2. Does(alt, 0, "", "", "append")
    BY <2>1, Doing0, Zenon
  <2>3. QED
    BY <2>2, Zenon
<1>3. QED
  BY <1>1, <1>2, Zenon

LEMMA AtomOpenDoes ==
  ASSUME NEW n, Settled(n), NEW alt, alt = Alternatives[n],
         Top.rule = "atom", Top.phase = "open"
  PROVE  /\ Len(la) >= 1
         /\ \/ Does(alt, 1, "", "", "term") /\ la[1] = "ST"
            \/ Does(alt, 1, "", "", "number") /\ la[1] = "NV"
            \/ Does(alt, 1, "", "", "prose") /\ la[1] = "PV"
            \/ Does(alt, 1, "", "", "ref") /\ la[1] = "TX"
            \/ /\ Does(alt, 2, "", "", "term") /\ Len(la) >= 2
               /\ la[1] \in {"SS", "SI"} /\ la[2] = "ST"
            \/ Does(alt, 1, "alts", "", "group") /\ la[1] = "LP"
            \/ Does(alt, 1, "alts", "", "opt") /\ la[1] = "OB"
<1>0. DOMAIN Alternatives = 1..7
  BY AtomOpen, Zenon
<1>1. n = 1 \/ n = 2 \/ n = 3 \/ n = 4 \/ n = 5 \/ n = 6 \/ n = 7
  BY <1>0 DEF Settled
<1>2. CASE n = 1
  <2>1. Is2(alt, {"SS", "SI"}, {"ST"}, 0, "", "", "", "term")
    BY <1>2, AtomOpen, Zenon
  <2>2. Does(alt, 2, "", "", "term")
    BY <2>1, Doing20, Zenon
  <2>3. Len(la) >= 1 /\ Len(la) >= 2 /\ la[1] \in {"SS", "SI"} /\ la[2] = "ST"
    <3>1. Len(la) >= 1 /\ Len(la) >= 2 /\ la[1] \in {"SS", "SI"} /\ la[2] \in {"ST"}
      BY <2>1, Reads2, Zenon
    <3>2. QED
      BY <3>1
  <2>4. QED
    BY <2>2, <2>3, Zenon
<1>3. CASE n = 2
  <2>1. Is1(alt, {"ST"}, 0, "", "", "", "term")
    BY <1>3, AtomOpen, Zenon
  <2>2. Does(alt, 1, "", "", "term")
    BY <2>1, Doing10, Zenon
  <2>3. Len(la) >= 1 /\ la[1] = "ST"
    <3>1. Len(la) >= 1 /\ la[1] \in {"ST"}
      BY <2>1, Reads1, Zenon
    <3>2. QED
      BY <3>1
  <2>4. QED
    BY <2>2, <2>3, Zenon
<1>4. CASE n = 3
  <2>1. Is1(alt, {"NV"}, 0, "", "", "", "number")
    BY <1>4, AtomOpen, Zenon
  <2>2. Does(alt, 1, "", "", "number")
    BY <2>1, Doing10, Zenon
  <2>3. Len(la) >= 1 /\ la[1] = "NV"
    <3>1. Len(la) >= 1 /\ la[1] \in {"NV"}
      BY <2>1, Reads1, Zenon
    <3>2. QED
      BY <3>1
  <2>4. QED
    BY <2>2, <2>3, Zenon
<1>5. CASE n = 4
  <2>1. Is1(alt, {"PV"}, 0, "", "", "", "prose")
    BY <1>5, AtomOpen, Zenon
  <2>2. Does(alt, 1, "", "", "prose")
    BY <2>1, Doing10, Zenon
  <2>3. Len(la) >= 1 /\ la[1] = "PV"
    <3>1. Len(la) >= 1 /\ la[1] \in {"PV"}
      BY <2>1, Reads1, Zenon
    <3>2. QED
      BY <3>1
  <2>4. QED
    BY <2>2, <2>3, Zenon
<1>6. CASE n = 5
  <2>1. Is1(alt, {"TX"}, 0, "", "", "", "ref")
    BY <1>6, AtomOpen, Zenon
  <2>2. Does(alt, 1, "", "", "ref")
    BY <2>1, Doing10, Zenon
  <2>3. Len(la) >= 1 /\ la[1] = "TX"
    <3>1. Len(la) >= 1 /\ la[1] \in {"TX"}
      BY <2>1, Reads1, Zenon
    <3>2. QED
      BY <3>1
  <2>4. QED
    BY <2>2, <2>3, Zenon
<1>7. CASE n = 6
  <2>1. Is1(alt, {"LP"}, 0, "alts", "", "", "group")
    BY <1>7, AtomOpen, Zenon
  <2>2. Does(alt, 1, "alts", "", "group")
    BY <2>1, Doing10, Zenon
  <2>3. Len(la) >= 1 /\ la[1] = "LP"
    <3>1. Len(la) >= 1 /\ la[1] \in {"LP"}
      BY <2>1, Reads1, Zenon
    <3>2. QED
      BY <3>1
  <2>4. QED
    BY <2>2, <2>3, Zenon
<1>8. CASE n = 7
  <2>1. Is1(alt, {"OB"}, 0, "alts", "", "", "opt")
    BY <1>8, AtomOpen, Zenon
  <2>2. Does(alt, 1, "alts", "", "opt")
    BY <2>1, Doing10, Zenon
  <2>3. Len(la) >= 1 /\ la[1] = "OB"
    <3>1. Len(la) >= 1 /\ la[1] \in {"OB"}
      BY <2>1, Reads1, Zenon
    <3>2. QED
      BY <3>1
  <2>4. QED
    BY <2>2, <2>3, Zenon
<1>9. QED
  BY <1>1, <1>2, <1>3, <1>4, <1>5, <1>6, <1>7, <1>8, Zenon

LEMMA AtomCloseDoes ==
  ASSUME NEW n, Settled(n), NEW alt, alt = Alternatives[n],
         Top.rule = "atom", Top.phase = "close"
  PROVE  \/ /\ Does(alt, 1, "", "", "close") /\ Len(la) >= 1
            /\ \/ la[1] = "RP" /\ Top.grp = "group"
               \/ la[1] = "CB" /\ Top.grp = "opt"
         \/ /\ Does(alt, 0, "", "", "") /\ Len(la) >= 1
            /\ ~(la[1] = "RP" /\ Top.grp = "group")
            /\ ~(la[1] = "CB" /\ Top.grp = "opt")
<1>0. DOMAIN Alternatives = 1..4
  BY AtomClose, Zenon
<1>1. n = 1 \/ n = 2 \/ n = 3 \/ n = 4
  BY <1>0 DEF Settled
<1>2. CASE n = 1
  <2>1. Is1(alt, {"RP"}, 0, "", "", "group", "close")
    BY <1>2, AtomClose, Zenon
  <2>2. Does(alt, 1, "", "", "close")
    BY <2>1, Doing10, Zenon
  <2>3. Len(la) >= 1 /\ la[1] = "RP"
    <3>1. Len(la) >= 1 /\ la[1] \in {"RP"}
      BY <2>1, Reads1, Zenon
    <3>2. QED
      BY <3>1
  <2>4. Top.grp = "group"
    BY <2>1, Taken DEF Settled, Is1, Act
  <2>5. QED
    BY <2>2, <2>3, <2>4, Zenon
<1>3. CASE n = 2
  <2>1. Is1(alt, {"CB"}, 0, "", "", "opt", "close")
    BY <1>3, AtomClose, Zenon
  <2>2. Does(alt, 1, "", "", "close")
    BY <2>1, Doing10, Zenon
  <2>3. Len(la) >= 1 /\ la[1] = "CB"
    <3>1. Len(la) >= 1 /\ la[1] \in {"CB"}
      BY <2>1, Reads1, Zenon
    <3>2. QED
      BY <3>1
  <2>4. Top.grp = "opt"
    BY <2>1, Taken DEF Settled, Is1, Act
  <2>5. QED
    BY <2>2, <2>3, <2>4, Zenon
<1>4. CASE n = 3
  <2>1. Is1(alt, ATOM \union {"NUM", "STAR", "RP", "CB", "ALT", "DEF", "ZZ"}, 1, "", "", "", "")
    BY <1>4, AtomClose, Zenon
  <2>2. Does(alt, 0, "", "", "")
    BY <2>1, Doing11, Zenon
  <2>3. Len(la) >= 1 /\ la[1] \in (ATOM \union {"NUM", "STAR", "RP", "CB", "ALT", "DEF", "ZZ"})
    BY <2>1, Reads1, Zenon
  <2>4. ~(la[1] = "RP" /\ Top.grp = "group")
    <3>1. SUFFICES ASSUME Top.grp = "group" PROVE la[1] # "RP"
      OBVIOUS
    <3>2. Is1(Alternatives[1], {"RP"}, 0, "", "", "group", "close")
      BY AtomClose, Zenon
    <3>3. 1 \in DOMAIN Alternatives /\ ~(n <= 1)
      BY <1>0, <1>4
    <3>4. QED
      BY <3>1, <3>2, <3>3, PassedOver, Zenon
  <2>5. ~(la[1] = "CB" /\ Top.grp = "opt")
    <3>1. SUFFICES ASSUME Top.grp = "opt" PROVE la[1] # "CB"
      OBVIOUS
    <3>2. Is1(Alternatives[2], {"CB"}, 0, "", "", "opt", "close")
      BY AtomClose, Zenon
    <3>3. 2 \in DOMAIN Alternatives /\ ~(n <= 2)
      BY <1>0, <1>4
    <3>4. QED
      BY <3>1, <3>2, <3>3, PassedOver, Zenon
  <2>6. QED
    BY <2>2, <2>3, <2>4, <2>5, Zenon
<1>5. CASE n = 4
  <2>1. Is0(alt, 1, "", "", "", "")
    BY <1>5, AtomClose, Zenon
  <2>2. Does(alt, 0, "", "", "")
    BY <2>1, Doing0, Zenon
  <2>3. Is1(Alternatives[3], ATOM \union {"NUM", "STAR", "RP", "CB", "ALT", "DEF", "ZZ"}, 1, "", "", "", "")
    BY AtomClose, Zenon
  <2>4. 3 \in DOMAIN Alternatives /\ ~(n <= 3)
    BY <1>0, <1>5
  <2>5. Len(la) >= 1 /\ la[1] \notin (ATOM \union {"NUM", "STAR", "RP", "CB", "ALT", "DEF", "ZZ"})
    BY <2>3, <2>4, PassedOver, Zenon
  <2>6. ~(la[1] = "RP" /\ Top.grp = "group")
    <3>1. SUFFICES ASSUME Top.grp = "group" PROVE la[1] # "RP"
      OBVIOUS
    <3>2. Is1(Alternatives[1], {"RP"}, 0, "", "", "group", "close")
      BY AtomClose, Zenon
    <3>3. 1 \in DOMAIN Alternatives /\ ~(n <= 1)
      BY <1>0, <1>5
    <3>4. QED
      BY <3>1, <3>2, <3>3, PassedOver, Zenon
  <2>7. ~(la[1] = "CB" /\ Top.grp = "opt")
    <3>1. SUFFICES ASSUME Top.grp = "opt" PROVE la[1] # "CB"
      OBVIOUS
    <3>2. Is1(Alternatives[2], {"CB"}, 0, "", "", "opt", "close")
      BY AtomClose, Zenon
    <3>3. 2 \in DOMAIN Alternatives /\ ~(n <= 2)
      BY <1>0, <1>5
    <3>4. QED
      BY <3>1, <3>2, <3>3, PassedOver, Zenon
  <2>8. QED
    BY <2>2, <2>5, <2>6, <2>7, Zenon
<1>6. QED
  BY <1>1, <1>2, <1>3, <1>4, <1>5, Zenon

-----------------------------------------------------------------------------
(* Reading one more lexeme of a text: w, of which c lexemes are consumed.  *)

\* A bracket whose alternatives are being read.
InBracket(f) == f.rule = "atom" /\ f.grp # ""

\* The bracket frames of a stack are the brackets open in the text.
Nested(w, c, s) ==
  \A n \in 1..Len(s) : InBracket(s[n]) =>
    /\ OpenAt(w, c, s[n].at, s[n].grp, (n - 2) \div 4)
    /\ s[n].node.kind = "undefined"

\* What has been read is sound, and every bracket in it open or closed.
Sounded(w, c, s) ==
  /\ c > 0 => IsHeader(w, 1)
  /\ \A i \in 1..c : SoundAt(w, i)
  /\ \A i \in Opens(w) : i <= c =>
       \/ \E n \in 1..Len(s) : InBracket(s[n]) /\ s[n].at = i
       \/ \E j \in Closes(w) : Pairs(w, i, j)

LEMMA SoundOne ==
  ASSUME NEW w \in Seq(Lexemes), NEW c \in Nat,
         KindAt(w, c + 1) \notin {"BD"} \union Defines,
         KindAt(w, c + 1) = "NV" => w[c + 1].val # Fault,
         KindAt(w, c) \in Counts => KindAt(w, c + 1) \in Counts \union Starters,
         c + 1 \in Elements(w) => PrefixFits(w, c + 1),
         c + 1 \in Closes(w) => \E j \in Opens(w) : Mated(w, j, c + 1),
         ~IsHeader(w, c + 1), Depth(w, c + 1) >= 0
  PROVE  SoundAt(w, c + 1)
<1>1. c + 1 - 1 = c
  OBVIOUS
<1>2. QED
  BY <1>1 DEF SoundAt

LEMMA NotHeader ==
  ASSUME NEW w, NEW i \in Int, KindAt(w, i) \notin {"TX", "PV", "NV"}
  PROVE  ~IsHeader(w, i)
BY HeaderBy DEF HeadKinds

LEMMA OpenStays ==
  ASSUME NEW w, NEW c \in Nat, NEW i, NEW grp, NEW d \in Int, OpenAt(w, c, i, grp, d),
         Depth(w, c + 1) >= d, ~IsHeader(w, c + 1)
  PROVE  OpenAt(w, c + 1, i, grp, d)
<1>1. i \in 1..c
  BY DEF OpenAt
<1>2. i \in 1..(c + 1) /\ \A k \in i..(c + 1) : k = c + 1 \/ k \in i..c
  BY <1>1
<1>3. QED
  BY <1>2 DEF OpenAt

LEMMA OpenDepth ==
  ASSUME NEW w, NEW c \in Nat, NEW i, NEW grp, NEW d \in Int, OpenAt(w, c, i, grp, d)
  PROVE  Depth(w, c) >= d /\ i \in 1..c
<1>1. i \in 1..c
  BY DEF OpenAt
<1>2. c \in i..c
  BY <1>1
<1>3. QED
  BY <1>1, <1>2 DEF OpenAt

\* The old brackets, when the new lexeme neither ends one nor a production.
LEMMA NestedStays ==
  ASSUME NEW w \in Seq(Lexemes), NEW c \in Nat, NEW s, Len(s) \in Nat, Nested(w, c, s),
         KindAt(w, c + 1) \notin {"RP", "CB"}, ~IsHeader(w, c + 1)
  PROVE  Nested(w, c + 1, s)
<1>1. SUFFICES ASSUME NEW n \in 1..Len(s), InBracket(s[n])
               PROVE  /\ OpenAt(w, c + 1, s[n].at, s[n].grp, (n - 2) \div 4)
                      /\ s[n].node.kind = "undefined"
  BY DEF Nested
<1> DEFINE d == (n - 2) \div 4
<1>2. d \in Int
  OBVIOUS
<1>3. OpenAt(w, c, s[n].at, s[n].grp, d) /\ s[n].node.kind = "undefined"
  BY <1>1 DEF Nested
<1> HIDE DEF d
<1>4. Depth(w, c) >= d
  BY <1>2, <1>3, OpenDepth
<1>5. Depth(w, c) \in Int /\ Depth(w, c + 1) = Depth(w, c) + TurnOf(KindAt(w, c + 1))
  BY DepthStep
<1>6. Depth(w, c + 1) >= d
  BY <1>2, <1>4, <1>5 DEF TurnOf
<1>7. QED
  BY <1>2, <1>3, <1>6, OpenStays DEF d

LEMMA SoundedStays ==
  ASSUME NEW w \in Seq(Lexemes), NEW c \in Nat, NEW s, Sounded(w, c, s), SoundAt(w, c + 1),
         c > 0 \/ IsHeader(w, c + 1), KindAt(w, c + 1) \notin {"LP", "OB"}
  PROVE  Sounded(w, c + 1, s)
<1>1. \A i \in 1..(c + 1) : i = c + 1 \/ i \in 1..c
  OBVIOUS
<1>2. \A i \in 1..(c + 1) : SoundAt(w, i)
  BY <1>1 DEF Sounded
<1>3. IsHeader(w, 1)
  <2>1. CASE c > 0
    BY <2>1 DEF Sounded
  <2>2. CASE c = 0
    <3>1. c + 1 = 1
      BY <2>2
    <3>2. QED
      BY <2>2, <3>1
  <2>3. QED
    BY <2>1, <2>2
<1>4. c + 1 \notin Opens(w)
  BY KindsAt
<1>5. \A i \in Opens(w) : i <= c + 1 => i <= c
  <2>1. \A i \in Opens(w) : i \in Int
    BY LenProperties DEF Opens
  <2>2. QED
    BY <1>4, <2>1
<1>6. QED
  BY <1>2, <1>3, <1>5 DEF Sounded

\* A further lexeme that is neither bracket nor header.
LEMMA ReadPlain ==
  ASSUME NEW w \in Seq(Lexemes), NEW c \in Nat \ {0}, NEW s, Len(s) \in Nat,
         Nested(w, c, s), Sounded(w, c, s), Depth(w, c) >= 0,
         KindAt(w, c + 1) \notin {"BD", "LP", "OB", "RP", "CB"} \union Defines,
         KindAt(w, c + 1) = "NV" => w[c + 1].val # Fault,
         KindAt(w, c) \in Counts => KindAt(w, c + 1) \in Counts \union Starters,
         c + 1 \in Elements(w) => PrefixFits(w, c + 1),
         ~IsHeader(w, c + 1)
  PROVE  /\ Nested(w, c + 1, s) /\ Sounded(w, c + 1, s)
         /\ Depth(w, c + 1) = Depth(w, c)
<1>1. Depth(w, c) \in Int /\ Depth(w, c + 1) = Depth(w, c) + TurnOf(KindAt(w, c + 1))
  BY DepthStep
<1>2. Depth(w, c + 1) = Depth(w, c)
  BY <1>1 DEF TurnOf
<1>3. c + 1 \notin Closes(w)
  BY KindsAt
<1>4. SoundAt(w, c + 1)
  BY <1>2, <1>3, SoundOne
<1>5. QED
  BY <1>2, <1>4, NestedStays, SoundedStays

\* A production's name and its `=' or `=/', outside every bracket.
LEMMA ReadHeader ==
  ASSUME NEW w \in Seq(Lexemes), NEW c \in Nat, NEW s,
         \A n \in 1..Len(s) : ~InBracket(s[n]), Sounded(w, c, s), Depth(w, c) = 0,
         IsHeader(w, c + 1), KindAt(w, c + 2) \in Defines, KindAt(w, c) \notin Counts
  PROVE  Nested(w, c + 2, s) /\ Sounded(w, c + 2, s) /\ Depth(w, c + 2) = 0
<1>1. KindAt(w, c + 1) \in {"TX", "PV", "NV"}
  BY NotHeader
<1>2. Depth(w, c + 1) = 0
  <2>1. Depth(w, c) \in Int /\ Depth(w, c + 1) = Depth(w, c) + TurnOf(KindAt(w, c + 1))
    BY DepthStep
  <2>2. QED
    BY <1>1, <2>1 DEF TurnOf
<1>3. c + 1 + 1 = c + 2 /\ c + 1 \in Nat /\ c + 1 - 1 = c /\ c + 2 - 1 = c + 1
  OBVIOUS
<1>4. Depth(w, c + 2) = 0
  <2>1. Depth(w, c + 1) \in Int /\ Depth(w, c + 2) = Depth(w, c + 1) + TurnOf(KindAt(w, c + 2))
    BY <1>3, DepthStep
  <2>2. QED
    BY <1>2, <2>1 DEF TurnOf, Defines
<1>5. /\ c + 1 \notin Closes(w) /\ c + 2 \notin Closes(w)
      /\ c + 1 \notin Elements(w) /\ c + 2 \notin Elements(w)
  <2>1. c + 1 \notin Closes(w) /\ c + 2 \notin Closes(w)
    BY <1>1, KindsAt DEF Defines
  <2>2. c + 1 \notin Elements(w)
    BY KindsAt
  <2>3. c + 2 \notin Elements(w)
    BY KindsAt DEF Defines, Starters
  <2>4. QED
    BY <2>1, <2>2, <2>3
<1>6. ~IsHeader(w, c + 2)
  BY NotHeader DEF Defines
<1>7. SoundAt(w, c + 1)
  <2>1. KindAt(w, c + 1) \notin Defines
    BY <1>1 DEF Defines
  <2>2. QED
    BY <1>1, <1>2, <1>3, <1>5, <2>1 DEF SoundAt
<1>8. SoundAt(w, c + 2)
  <2>1. KindAt(w, c + 2) # "BD" /\ KindAt(w, c + 2) # "NV"
    BY DEF Defines
  <2>2. KindAt(w, c + 1) \notin Counts
    BY <1>1 DEF Counts
  <2>3. QED
    BY <1>3, <1>4, <1>5, <1>6, <2>1, <2>2 DEF SoundAt
<1>9. Sounded(w, c + 1, s)
  BY <1>1, <1>7, SoundedStays
<1>10. Sounded(w, c + 2, s)
  <2>1. KindAt(w, c + 2) \notin {"LP", "OB"} /\ c + 1 > 0
    BY DEF Defines
  <2>2. QED
    BY <1>3, <1>8, <1>9, <2>1, SoundedStays
<1>11. QED
  BY <1>4, <1>10 DEF Nested

-----------------------------------------------------------------------------
(* The bracket frames of the stack from step to step.                      *)

\* Two stacks with the same bracket frames.
SameBrackets(s, r) ==
  /\ \A n \in 1..Len(r) : InBracket(r[n]) =>
       /\ n \in 1..Len(s) /\ InBracket(s[n])
       /\ r[n].at = s[n].at /\ r[n].grp = s[n].grp /\ r[n].node = s[n].node
  /\ \A n \in 1..Len(s) : InBracket(s[n]) =>
       n \in 1..Len(r) /\ InBracket(r[n]) /\ r[n].at = s[n].at

LEMMA NestedAt ==
  ASSUME NEW w, NEW c, NEW s, Nested(w, c, s), NEW n \in 1..Len(s), InBracket(s[n])
  PROVE  OpenAt(w, c, s[n].at, s[n].grp, (n - 2) \div 4) /\ s[n].node.kind = "undefined"
BY DEF Nested

LEMMA SameNested ==
  ASSUME NEW w, NEW c, NEW s, NEW r, SameBrackets(s, r), Nested(w, c, s)
  PROVE  Nested(w, c, r)
<1>1. SUFFICES ASSUME NEW n \in 1..Len(r), InBracket(r[n])
               PROVE  /\ OpenAt(w, c, r[n].at, r[n].grp, (n - 2) \div 4)
                      /\ r[n].node.kind = "undefined"
  BY DEF Nested
<1>2. /\ n \in 1..Len(s) /\ InBracket(s[n])
      /\ r[n].at = s[n].at /\ r[n].grp = s[n].grp /\ r[n].node = s[n].node
  BY <1>1 DEF SameBrackets
<1>3. /\ OpenAt(w, c, s[n].at, s[n].grp, (n - 2) \div 4)
      /\ s[n].node.kind = "undefined"
  BY <1>2, Zenon DEF Nested
<1>4. QED
  BY <1>2, <1>3, Zenon

LEMMA SameSounded ==
  ASSUME NEW w, NEW c, NEW s, NEW r, SameBrackets(s, r), Sounded(w, c, s)
  PROVE  Sounded(w, c, r)
<1>1. \A i : (\E n \in 1..Len(s) : InBracket(s[n]) /\ s[n].at = i) =>
             (\E n \in 1..Len(r) : InBracket(r[n]) /\ r[n].at = i)
  BY DEF SameBrackets
<1>2. QED
  BY <1>1, Zenon DEF Sounded

\* An opening bracket: the running atom becomes the innermost bracket frame.
LEMMA ReadOpen ==
  ASSUME NEW w \in Seq(Lexemes), NEW c \in Nat \ {0}, NEW s, NEW r, NEW m \in Nat,
         Len(s) = m + 1, Len(r) = m + 2, \A n \in 1..m : r[n] = s[n],
         ~InBracket(s[m + 1]), ~InBracket(r[m + 2]),
         r[m + 1].grp = (IF KindAt(w, c + 1) = "LP" THEN "group" ELSE "opt"),
         r[m + 1].rule = "atom", r[m + 1].at = c + 1, r[m + 1].node.kind = "undefined",
         Nested(w, c, s), Sounded(w, c, s), Depth(w, c) >= 0,
         Depth(w, c) = ((m + 1 - 2) \div 4) - 1,
         KindAt(w, c + 1) \in {"LP", "OB"}, PrefixFits(w, c + 1)
  PROVE  /\ Nested(w, c + 1, r) /\ Sounded(w, c + 1, r)
         /\ Depth(w, c + 1) = Depth(w, c) + 1
<1> DEFINE d == (m + 1 - 2) \div 4
<1>0. d \in Int
  OBVIOUS
<1>1. Depth(w, c) \in Int /\ Depth(w, c + 1) = Depth(w, c) + TurnOf(KindAt(w, c + 1))
  BY DepthStep
<1>2. Depth(w, c + 1) = Depth(w, c) + 1
  BY <1>1 DEF TurnOf
<1>3. ~IsHeader(w, c + 1)
  BY NotHeader
<1>4. c + 1 \notin Closes(w)
  BY KindsAt
<1>5. SoundAt(w, c + 1)
  <2>1. KindAt(w, c + 1) \in Starters /\ KindAt(w, c + 1) \notin {"BD"} \union Defines
    BY DEF Starters, Defines
  <2>2. Depth(w, c + 1) >= 0
    BY <1>1, <1>2
  <2>3. QED
    BY <1>3, <1>4, <2>1, <2>2, SoundOne
<1>6. Nested(w, c + 1, s)
  BY <1>3, NestedStays
<1>7. OpenAt(w, c + 1, c + 1, r[m + 1].grp, d)
  <2>1. Depth(w, c + 1) = d /\ Depth(w, c) = d - 1
    BY <1>0, <1>1, <1>2
  <2> HIDE DEF d
  <2>2. c + 1 \in 1..(c + 1) /\ c + 1 - 1 = c /\ \A k \in (c + 1)..(c + 1) : k = c + 1
    OBVIOUS
  <2>3. KindAt(w, c + 1) = IF r[m + 1].grp = "group" THEN "LP" ELSE "OB"
    OBVIOUS
  <2>4. \A k \in (c + 1)..(c + 1) : Depth(w, k) >= d
    BY <1>0, <2>1, <2>2
  <2>5. QED
    BY <1>3, <2>1, <2>2, <2>3, <2>4 DEF OpenAt
<1>8. Nested(w, c + 1, r)
  <2>1. SUFFICES ASSUME NEW n \in 1..(m + 2), InBracket(r[n])
                 PROVE  /\ OpenAt(w, c + 1, r[n].at, r[n].grp, (n - 2) \div 4)
                        /\ r[n].node.kind = "undefined"
    BY DEF Nested
  <2>2. CASE n \in 1..m
    <3>1. n \in 1..Len(s) /\ InBracket(s[n]) /\ r[n] = s[n]
      BY <2>1, <2>2
    <3>2. QED
      BY <1>6, <3>1, Zenon DEF Nested
  <2>3. CASE n = m + 1
    <3>1. (n - 2) \div 4 = d
      BY <2>3
    <3>2. QED
      BY <1>7, <2>3, <3>1
  <2>4. CASE n = m + 2
    BY <2>1, <2>4
  <2>5. QED
    BY <2>2, <2>3, <2>4
<1>9. Sounded(w, c + 1, r)
  <2>1. \A i \in 1..(c + 1) : SoundAt(w, i)
    <3>1. \A i \in 1..(c + 1) : i = c + 1 \/ i \in 1..c
      OBVIOUS
    <3>2. QED
      BY <1>5, <3>1 DEF Sounded
  <2>2. ASSUME NEW i \in Opens(w), i <= c + 1
        PROVE  \/ \E n \in 1..(m + 2) : InBracket(r[n]) /\ r[n].at = i
               \/ \E j \in Closes(w) : Pairs(w, i, j)
    <3>1. CASE i = c + 1
      <4>1. m + 1 \in 1..(m + 2)
        OBVIOUS
      <4>2. r[m + 1].rule = "atom" /\ r[m + 1].grp \in {"group", "opt"}
        OBVIOUS
      <4>3. InBracket(r[m + 1])
        BY <4>2 DEF InBracket
      <4>4. QED
        BY <3>1, <4>1, <4>3
    <3>2. CASE i # c + 1
      <4>1. i <= c
        <5>1. i \in Int
          BY LenProperties DEF Opens
        <5>2. QED
          BY <2>2, <3>2, <5>1
      <4>2. \/ \E n \in 1..Len(s) : InBracket(s[n]) /\ s[n].at = i
            \/ \E j \in Closes(w) : Pairs(w, i, j)
        BY <4>1 DEF Sounded
      <4>3. ASSUME NEW n \in 1..Len(s), InBracket(s[n]), s[n].at = i
            PROVE  n \in 1..(m + 2) /\ InBracket(r[n]) /\ r[n].at = i
        <5>1. n # m + 1
          BY <4>3
        <5>2. n \in 1..m
          BY <5>1
        <5>3. r[n] = s[n] /\ n \in 1..(m + 2)
          BY <5>2
        <5>4. QED
          BY <4>3, <5>3, Zenon
      <4>4. QED
        BY <4>2, <4>3
    <3>3. QED
      BY <3>1, <3>2
  <2>3. QED
    BY <2>1, <2>2 DEF Sounded
<1>10. QED
  BY <1>2, <1>8, <1>9

\* The bracket i, the innermost, meets the lexeme that ends it.
LEMMA ReachesEnd ==
  ASSUME NEW w \in Seq(Lexemes), NEW c \in Nat, NEW i, NEW grp, NEW d \in Int,
         OpenAt(w, c, i, grp, d), Depth(w, c) = d, KindAt(w, c + 1) \in {"RP", "CB"}
  PROVE  /\ i \in Opens(w) /\ c + 1 \in Closes(w) /\ Pairs(w, i, c + 1)
         /\ Depth(w, c + 1) = d - 1
         /\ \A k \in i..c : Balance(w, i, k) > 0
         /\ Mates(w, i, c + 1) <=> KindAt(w, c + 1) = IF grp = "group" THEN "RP" ELSE "CB"
<1>1. i \in 1..c /\ i \in Nat \ {0} /\ i \in Int /\ i <= c
  BY DEF OpenAt
<1>2. /\ KindAt(w, i) = IF grp = "group" THEN "LP" ELSE "OB"
      /\ Depth(w, i - 1) = d - 1 /\ \A k \in i..c : Depth(w, k) >= d
  BY DEF OpenAt
<1>3. /\ i \in Opens(w) /\ c + 1 \in Closes(w) /\ w[i].kind = KindAt(w, i)
      /\ w[c + 1].kind = KindAt(w, c + 1)
  <2>1. i \in Opens(w) /\ c + 1 \in Closes(w)
    BY <1>2, KindsAt
  <2>2. QED
    BY <2>1, KindsAt DEF Opens, Closes
<1>4. Depth(w, c + 1) = d - 1
  <2>1. Depth(w, c) \in Int /\ Depth(w, c + 1) = Depth(w, c) + TurnOf(KindAt(w, c + 1))
    BY DepthStep
  <2>2. QED
    BY <2>1 DEF TurnOf
<1>5. ASSUME NEW k \in i..c
      PROVE  Balance(w, i, k) > 0
  <2>1. k \in Nat /\ i <= k + 1
    BY <1>1
  <2>2. Balance(w, i, k) = Depth(w, k) - Depth(w, i - 1)
    BY <1>1, <2>1, BalanceIs
  <2>3. Depth(w, k) >= d /\ Depth(w, k) \in Int
    BY <1>2, <2>1, DepthStep
  <2>4. QED
    BY <1>2, <2>2, <2>3
<1>6. Balance(w, i, c + 1) = 0
  <2>1. c + 1 \in Nat /\ i <= c + 1 + 1
    BY <1>1
  <2>2. Balance(w, i, c + 1) = Depth(w, c + 1) - Depth(w, i - 1)
    BY <1>1, <2>1, BalanceIs
  <2>3. QED
    BY <1>2, <1>4, <2>2
<1>7. Pairs(w, i, c + 1)
  <2>1. i < c + 1 /\ c + 1 - 1 = c
    BY <1>1
  <2>2. QED
    BY <1>3, <1>5, <1>6, <2>1 DEF Pairs
<1>8. Mates(w, i, c + 1) <=> KindAt(w, c + 1) = IF grp = "group" THEN "RP" ELSE "CB"
  BY <1>2, <1>3 DEF Mates
<1>9. QED
  BY <1>3, <1>4, <1>5, <1>7, <1>8

\* The closing bracket of the right kind: the innermost bracket frame goes.
LEMMA ReadClose ==
  ASSUME NEW w \in Seq(Lexemes), NEW c \in Nat \ {0}, NEW s, NEW r, NEW m \in Nat,
         Len(s) = m + 2, Len(r) = m + 1, \A n \in 1..m : r[n] = s[n],
         ~InBracket(s[m + 1]), ~InBracket(r[m + 1]), InBracket(s[m + 2]),
         \A n \in 1..m : InBracket(s[n]) => (n - 2) \div 4 < (m + 2 - 2) \div 4,
         Nested(w, c, s), Sounded(w, c, s), Depth(w, c) = (m + 2 - 2) \div 4, Depth(w, c) >= 1,
         KindAt(w, c + 1) = (IF s[m + 2].grp = "group" THEN "RP" ELSE "CB"),
         KindAt(w, c) \notin Counts
  PROVE  /\ Nested(w, c + 1, r) /\ Sounded(w, c + 1, r)
         /\ Depth(w, c + 1) = Depth(w, c) - 1
<1> DEFINE d == (m + 2 - 2) \div 4
           i == s[m + 2].at
           grp == s[m + 2].grp
<1>0. d \in Int /\ m + 2 \in 1..Len(s)
  OBVIOUS
<1>1. OpenAt(w, c, i, grp, d)
  <2>1. PICK n \in 1..Len(s) : n = m + 2
    BY <1>0
  <2>2. InBracket(s[n])
    BY <2>1
  <2>3. OpenAt(w, c, s[n].at, s[n].grp, (n - 2) \div 4)
    BY <2>2, NestedAt, Zenon
  <2>4. (n - 2) \div 4 = d /\ s[n].at = i /\ s[n].grp = grp
    BY <2>1
  <2>5. QED
    BY <2>3, <2>4, Zenon
<1>2. Depth(w, c) = d /\ KindAt(w, c + 1) = IF grp = "group" THEN "RP" ELSE "CB"
  OBVIOUS
<1> HIDE DEF d, i, grp
<1>3. KindAt(w, c + 1) \in {"RP", "CB"}
  BY <1>2
<1>4. /\ i \in Opens(w) /\ c + 1 \in Closes(w) /\ Pairs(w, i, c + 1)
      /\ Depth(w, c + 1) = d - 1 /\ Mates(w, i, c + 1)
  BY <1>0, <1>1, <1>2, <1>3, ReachesEnd
<1>5. i \in 1..c /\ \A h \in i..c : ~IsHeader(w, h)
  BY <1>1 DEF OpenAt
<1>6. Mated(w, i, c + 1)
  <2>1. \A h \in Headers(w) : h \in Int /\ IsHeader(w, h)
    BY LenProperties DEF Headers
  <2>2. \A h \in Int : i < h /\ h < c + 1 => h \in i..c
    BY <1>5
  <2>3. QED
    BY <1>4, <1>5, <2>1, <2>2 DEF Mated
<1>7. ~IsHeader(w, c + 1)
  BY <1>3, NotHeader
<1>8. SoundAt(w, c + 1)
  <2>1. KindAt(w, c + 1) \notin {"BD", "NV"} \union Defines
    BY <1>3 DEF Defines
  <2>2. c + 1 \notin Elements(w)
    BY <1>3, KindsAt DEF Starters
  <2>3. Depth(w, c + 1) >= 0
    BY <1>0, <1>2, <1>4
  <2>4. QED
    BY <1>4, <1>6, <1>7, <2>1, <2>2, <2>3, SoundOne
<1>9. Nested(w, c + 1, r)
  <2>1. SUFFICES ASSUME NEW n \in 1..(m + 1), InBracket(r[n])
                 PROVE  /\ OpenAt(w, c + 1, r[n].at, r[n].grp, (n - 2) \div 4)
                        /\ r[n].node.kind = "undefined"
    BY DEF Nested
  <2>2. n \in 1..m /\ n \in 1..Len(s) /\ r[n] = s[n]
    BY <2>1
  <2> DEFINE e == (n - 2) \div 4
  <2>3. OpenAt(w, c, r[n].at, r[n].grp, e) /\ r[n].node.kind = "undefined"
    BY <2>1, <2>2, Zenon DEF Nested
  <2>4. e \in Int /\ e < d
    BY <2>1, <2>2 DEF d
  <2> HIDE DEF e
  <2>5. Depth(w, c + 1) >= e
    BY <1>0, <1>4, <2>4
  <2>6. QED
    BY <1>7, <2>3, <2>4, <2>5, OpenStays DEF e
<1>10. Sounded(w, c + 1, r)
  <2>1. Sounded(w, c + 1, s)
    BY <1>3, <1>8, SoundedStays
  <2>2. ASSUME NEW k \in Opens(w), k <= c + 1
        PROVE  \/ \E n \in 1..(m + 1) : InBracket(r[n]) /\ r[n].at = k
               \/ \E j \in Closes(w) : Pairs(w, k, j)
    <3>1. CASE k = i
      BY <1>4, <3>1
    <3>2. CASE k # i
      <4>1. ASSUME NEW n \in 1..Len(s), InBracket(s[n]), s[n].at = k
            PROVE  n \in 1..(m + 1) /\ InBracket(r[n]) /\ r[n].at = k
        <5>1. n \in 1..m
          BY <3>2, <4>1 DEF i
        <5>2. QED
          BY <4>1, <5>1
      <4>2. QED
        BY <2>1, <2>2, <4>1 DEF Sounded
    <3>3. QED
      BY <3>1, <3>2
  <2>3. QED
    BY <2>1, <2>2 DEF Sounded
<1>11. QED
  BY <1>2, <1>4, <1>9, <1>10

-----------------------------------------------------------------------------
(* Texts that no continuation brings into the language.                    *)

\* v is w, or goes on from it.
Longer(v, w) == Len(w) <= Len(v) /\ \A i \in 1..Len(w) : v[i] = w[i]

\* No continuation of w is in the language.
Dead(w) == \A v \in Seq(Lexemes) : Proper(v) /\ Longer(v, w) => ~WellFormed(v)

LEMMA LongerKinds ==
  ASSUME NEW w \in Seq(Lexemes), NEW v \in Seq(Lexemes), Longer(v, w),
         NEW i \in Int, i <= Len(w)
  PROVE  /\ KindAt(v, i) = KindAt(w, i)
         /\ i \in DOMAIN w => i \in DOMAIN v /\ v[i] = w[i]
<1>1. /\ Len(w) \in Nat /\ DOMAIN w = 1..Len(w)
      /\ Len(v) \in Nat /\ DOMAIN v = 1..Len(v)
  BY LenProperties
<1>2. CASE i \in 1..Len(w)
  <2>1. i \in DOMAIN w /\ i \in DOMAIN v /\ v[i] = w[i]
    BY <1>1, <1>2 DEF Longer
  <2>2. QED
    BY <2>1 DEF KindAt
<1>3. CASE i \notin 1..Len(w)
  <2>1. i \notin DOMAIN w /\ i \notin DOMAIN v
    BY <1>1, <1>3
  <2>2. QED
    BY <2>1 DEF KindAt
<1>4. QED
  BY <1>2, <1>3

LEMMA LongerHeader ==
  ASSUME NEW w \in Seq(Lexemes), NEW v \in Seq(Lexemes), Longer(v, w),
         NEW i \in Int, i <= Len(w)
  PROVE  /\ IsHeader(w, i) => IsHeader(v, i)
         /\ i < Len(w) => (IsHeader(v, i) <=> IsHeader(w, i))
<1>1. Len(w) \in Nat /\ i + 1 \in Int
  BY LenProperties
<1>2. KindAt(v, i) = KindAt(w, i)
  BY LongerKinds
<1>3. /\ IsHeader(w, i) <=> HeadKinds(i = 1, KindAt(w, i), KindAt(w, i + 1))
      /\ IsHeader(v, i) <=> HeadKinds(i = 1, KindAt(v, i), KindAt(v, i + 1))
  BY HeaderBy
<1>4. CASE i < Len(w)
  <2>1. i + 1 <= Len(w)
    BY <1>1, <1>4
  <2>2. KindAt(v, i + 1) = KindAt(w, i + 1)
    BY <1>1, <2>1, LongerKinds
  <2>3. QED
    BY <1>2, <1>3, <2>2
<1>5. CASE ~(i < Len(w))
  <2>1. ~(i + 1 \in 1..Len(w))
    BY <1>1, <1>5
  <2>2. KindAt(w, i + 1) = ""
    BY <2>1, LenProperties DEF KindAt
  <2>3. ~HeadKinds(i = 1, KindAt(w, i), KindAt(w, i + 1))
    BY <2>2 DEF HeadKinds, Defines
  <2>4. QED
    BY <1>3, <1>5, <2>3
<1>6. QED
  BY <1>4, <1>5

LEMMA LongerBalance ==
  ASSUME NEW w \in Seq(Lexemes), NEW v \in Seq(Lexemes), Longer(v, w),
         NEW i \in Int, NEW k \in Int, k <= Len(w)
  PROVE  Balance(v, i, k) = Balance(w, i, k)
<1>1. Len(w) \in Nat
  BY LenProperties
<1>2. ASSUME NEW j \in i..k
      PROVE  /\ j \in Opens(v) <=> j \in Opens(w)
             /\ j \in Closes(v) <=> j \in Closes(w)
  <2>1. j \in Int /\ j <= Len(w)
    BY <1>1
  <2>2. KindAt(v, j) = KindAt(w, j)
    BY <2>1, LongerKinds
  <2>3. QED
    BY <2>2, KindsAt
<1>3. /\ Opens(v) \intersect (i..k) = Opens(w) \intersect (i..k)
      /\ Closes(v) \intersect (i..k) = Closes(w) \intersect (i..k)
  BY <1>2
<1>4. QED
  BY <1>3 DEF Balance

LEMMA LongerDepth ==
  ASSUME NEW w \in Seq(Lexemes), NEW v \in Seq(Lexemes), Longer(v, w),
         NEW k \in Int, k <= Len(w)
  PROVE  Depth(v, k) = Depth(w, k)
<1>1. 1 \in Int
  OBVIOUS
<1>2. QED
  BY <1>1, LongerBalance DEF Depth

\* What goes on from a dead text is dead.
LEMMA DeadStays ==
  ASSUME NEW w, NEW u, Dead(w), Longer(u, w), Len(w) \in Nat, Len(u) \in Nat
  PROVE  Dead(u)
<1>1. Len(w) <= Len(u) /\ \A i \in 1..Len(w) : u[i] = w[i]
  BY DEF Longer
<1>2. ASSUME NEW v \in Seq(Lexemes), Longer(v, u)
      PROVE  Longer(v, w)
  <2>1. Len(v) \in Nat /\ Len(u) <= Len(v) /\ \A i \in 1..Len(u) : v[i] = u[i]
    BY <1>2, LenProperties DEF Longer
  <2>2. Len(w) <= Len(v) /\ \A i \in 1..Len(w) : i \in 1..Len(u)
    BY <1>1, <2>1
  <2>3. \A i \in 1..Len(w) : v[i] = w[i]
    BY <1>1, <2>1, <2>2, Zenon
  <2>4. QED
    BY <2>2, <2>3 DEF Longer
<1>3. QED
  BY <1>2 DEF Dead

-----------------------------------------------------------------------------
(* What makes a text dead at the lexeme i.                                 *)

\* The counts before the lexeme i are no prefix of any kind with it.
Repeats(w, i) ==
  /\ KindAt(w, i) \in Counts
  /\ \/ KindAt(w, i - 1) = KindAt(w, i)
     \/ KindAt(w, i - 2) = "STAR" /\ KindAt(w, i - 1) = "NUM" /\ KindAt(w, i) = "STAR"

\* The lexeme i of w has no place in the language, whatever follows it.
Wrong(w, i) ==
  \/ KindAt(w, i) = "BD"
  \/ KindAt(w, i) = "NV" /\ i # 1 /\ w[i].val # 0
  \/ KindAt(w, i) \in Defines /\ ~IsHeader(w, i - 1)
  \/ KindAt(w, i - 1) \in Counts /\ KindAt(w, i) \notin Counts \union Starters
  \/ KindAt(w, i - 1) \in Counts /\ IsHeader(w, i)
  \/ i = 1 /\ KindAt(w, 1) \notin {"TX", "PV", "NV"}
  \/ i = 2 /\ KindAt(w, 2) \notin Defines
  \/ /\ KindAt(w, i) \in {"RP", "CB"} /\ Depth(w, i) < 0
     /\ \A k \in 1..(i - 1) : Depth(w, k) >= 0
  \/ Repeats(w, i)

LEMMA InLanguage ==
  ASSUME NEW w \in Seq(Lexemes), NEW v \in Seq(Lexemes), Longer(v, w), WellFormed(v),
         NEW i \in 1..Len(w)
  PROVE  /\ KindAt(w, i) # "BD"
         /\ KindAt(w, i) = "NV" /\ i # 1 => w[i].val = 0
         /\ KindAt(w, i) \in Defines => IsHeader(w, i - 1)
         /\ KindAt(w, i - 1) \in Counts => KindAt(w, i) \in Counts \union Starters
         /\ IsHeader(w, i) => KindAt(w, i - 1) \notin Counts
         /\ i = 1 => KindAt(w, 1) \in {"TX", "PV", "NV"}
         /\ i = 2 => KindAt(w, 2) \in Defines
<1>1. /\ Len(w) \in Nat /\ DOMAIN w = 1..Len(w) /\ i \in DOMAIN w
      /\ i - 1 \in Int /\ i - 1 < Len(w) /\ i \in Int /\ i <= Len(w)
  BY LenProperties
<1>2. /\ i \in DOMAIN v /\ v[i] = w[i] /\ KindAt(v, i) = KindAt(w, i)
      /\ KindAt(v, i - 1) = KindAt(w, i - 1)
  <2>1. i - 1 <= Len(w)
    BY <1>1
  <2>2. QED
    BY <1>1, <2>1, LongerKinds
<1>3. v[i].kind = KindAt(w, i)
  BY <1>2 DEF KindAt
<1>4. /\ IsHeader(w, i) => IsHeader(v, i)
      /\ IsHeader(v, i - 1) <=> IsHeader(w, i - 1)
  <2>1. i - 1 <= Len(w)
    BY <1>1
  <2>2. QED
    BY <1>1, <2>1, LongerHeader
<1>5. /\ v[i].kind # "BD"
      /\ v[i].kind = "NV" /\ ~IsHeader(v, i) => v[i].val = 0
      /\ v[i].kind \in Defines => IsHeader(v, i - 1)
      /\ i \in Headers(v) => KindAt(v, i - 1) \notin Counts
  BY <1>2 DEF WellFormed, Sound
<1>6. KindAt(w, i) = "NV" /\ i # 1 => ~IsHeader(v, i)
  BY <1>2 DEF IsHeader
<1>7. KindAt(v, i - 1) \in Counts => KindAt(v, i) \in Counts \union Starters
  <2>1. SUFFICES ASSUME KindAt(v, i - 1) \in Counts
                 PROVE  KindAt(v, i) \in Counts \union Starters
    OBVIOUS
  <2>2. KindAt(v, i - 1) # ""
    BY <2>1 DEF Counts
  <2>3. i - 1 \in DOMAIN v /\ v[i - 1].kind = KindAt(v, i - 1)
    BY <2>2 DEF KindAt
  <2>4. KindAt(v, i - 1 + 1) \in Counts \union Starters
    BY <2>1, <2>3 DEF WellFormed, Sound
  <2>5. i - 1 + 1 = i
    BY <1>1
  <2>6. QED
    BY <2>4, <2>5
<1>8. IsHeader(v, i) => i \in Headers(v)
  BY <1>2 DEF Headers
<1>9. IsHeader(v, 1)
  BY DEF WellFormed, Sound
<1>10. KindAt(v, 1) \in {"TX", "PV", "NV"} /\ KindAt(v, 2) \in Defines
  <2>1. KindAt(v, 1) \in {"TX", "PV", "NV"}
    BY <1>9 DEF IsHeader
  <2>2. 1 + 1 = 2
    OBVIOUS
  <2>3. KindAt(v, 2) \in Defines
    BY <1>9, <2>2 DEF IsHeader, Defines
  <2>4. QED
    BY <2>1, <2>3
<1>11. QED
  BY <1>2, <1>3, <1>4, <1>5, <1>6, <1>7, <1>8, <1>10

LEMMA LeastIs ==
  ASSUME NEW S \in SUBSET Nat, S # {}
  PROVE  \E m \in S : \A n \in S : m <= n
<1>1. PICK m \in S : \A n \in S : ~(<<n, m>> \in OpToRel(<, Nat))
  BY NatLessThanWellFounded, WFMin
<1>2. \A n, k \in Nat : n < k => <<n, k>> \in OpToRel(<, Nat)
  BY DEF OpToRel
<1>3. \A n \in S : n \in Nat /\ m \in Nat /\ ~(n < m)
  BY <1>1, <1>2
<1>4. \A n \in S : m <= n
  BY <1>3
<1>5. QED
  BY <1>4

\* The element that the counts from i on are a prefix of.
LEMMA CountedElement ==
  ASSUME NEW v \in Seq(Lexemes), WellFormed(v), NEW i \in DOMAIN v, KindAt(v, i) \in Counts
  PROVE  \E m \in DOMAIN v : /\ i < m /\ m \in Elements(v)
                             /\ \A k \in i..(m - 1) : KindAt(v, k) \in Counts
<1>1. Len(v) \in Nat /\ DOMAIN v = 1..Len(v) /\ i \in 1..Len(v)
  BY LenProperties
<1>2. KindAt(v, Len(v)) = "ZZ"
  BY DEF WellFormed
<1> DEFINE S == {m \in (i + 1)..Len(v) : KindAt(v, m) \notin Counts}
<1>3. Len(v) \in S
  <2>1. i # Len(v)
    BY <1>2 DEF Counts
  <2>2. Len(v) \in (i + 1)..Len(v)
    BY <1>1, <2>1
  <2>3. QED
    BY <1>2, <2>2 DEF Counts
<1>4. S \in SUBSET Nat /\ S # {}
  BY <1>1, <1>3
<1>5. PICK m \in S : \A n \in S : m <= n
  BY <1>4, LeastIs
<1>6. /\ m \in Int /\ i < m /\ m <= Len(v) /\ m \in DOMAIN v /\ KindAt(v, m) \notin Counts
      /\ \A k \in (i + 1)..(m - 1) : k \in (i + 1)..Len(v) /\ ~(m <= k)
  BY <1>1, <1>5
<1>7. \A k \in i..(m - 1) : KindAt(v, k) \in Counts
  <2>1. \A k \in (i + 1)..(m - 1) : KindAt(v, k) \in Counts
    BY <1>5, <1>6
  <2>2. \A k \in i..(m - 1) : k = i \/ k \in (i + 1)..(m - 1)
    BY <1>1, <1>6
  <2>3. QED
    BY <2>1, <2>2
<1> HIDE DEF S
<1>8. KindAt(v, m - 1) \in Counts
  <2>1. m - 1 \in i..(m - 1)
    BY <1>1, <1>6
  <2>2. QED
    BY <1>7, <2>1
<1>9. m \in 1..Len(v) /\ Longer(v, v)
  BY <1>1, <1>6 DEF Longer
<1>10. KindAt(v, m) \in Starters /\ ~IsHeader(v, m)
  BY <1>6, <1>8, <1>9, InLanguage
<1>11. m \in Elements(v)
  BY <1>8, <1>10, KindsAt DEF Counts
<1>12. QED
  BY <1>6, <1>7, <1>11

LEMMA PrefixTells ==
  ASSUME NEW v, NEW m
  PROVE  LET n == Len(PrefixOf(v, m))
         IN  /\ n \in 0..3
             /\ n >= 2 => KindAt(v, m - 1) # KindAt(v, m - 2)
             /\ n = 3 => /\ KindAt(v, m - 1) = "NUM" /\ KindAt(v, m - 2) = "STAR"
                         /\ KindAt(v, m - 3) = "NUM"
<1> DEFINE a == KindAt(v, m - 1)
           b == KindAt(v, m - 2)
           c == KindAt(v, m - 3)
<1>1. Len(<<>>) = 0 /\ Len(<<"NUM">>) = 1 /\ Len(<<"STAR">>) = 1
  OBVIOUS
<1>2. PrefixOf(v, m) =
        IF a = "STAR" THEN IF b = "NUM" THEN <<"NUM", "STAR">> ELSE <<"STAR">>
        ELSE IF a # "NUM" THEN <<>>
        ELSE IF b # "STAR" THEN <<"NUM">>
        ELSE IF c = "NUM" THEN <<"NUM", "STAR", "NUM">> ELSE <<"STAR", "NUM">>
  BY Zenon DEF PrefixOf
<1> HIDE DEF a, b, c
<1>3. QED
  <2>1. CASE a = "STAR" /\ b = "NUM"
    BY <1>2, <2>1, Lengths DEF a, b
  <2>2. CASE a = "STAR" /\ b # "NUM"
    BY <1>1, <1>2, <2>2
  <2>3. CASE a # "STAR" /\ a # "NUM"
    BY <1>1, <1>2, <2>3
  <2>4. CASE a = "NUM" /\ b # "STAR"
    BY <1>1, <1>2, <2>4
  <2>5. CASE a = "NUM" /\ b = "STAR" /\ c = "NUM"
    BY <1>2, <2>5, Lengths DEF a, b, c
  <2>6. CASE a = "NUM" /\ b = "STAR" /\ c # "NUM"
    BY <1>2, <2>6, Lengths DEF a, b
  <2>7. QED
    BY <2>1, <2>2, <2>3, <2>4, <2>5, <2>6

\* In the language no count is repeated.
LEMMA NoRepeats ==
  ASSUME NEW v \in Seq(Lexemes), WellFormed(v), NEW i \in DOMAIN v
  PROVE  ~Repeats(v, i)
<1>1. SUFFICES ASSUME Repeats(v, i) PROVE FALSE
  OBVIOUS
<1> DEFINE p == i - 1
           j == IF KindAt(v, p) = KindAt(v, i) THEN p ELSE i - 2
<1>2. i \in Int /\ DOMAIN v = 1..Len(v) /\ Len(v) \in Nat
  BY LenProperties
<1>3. /\ KindAt(v, i) \in Counts /\ KindAt(v, i - 1) \in Counts
      /\ KindAt(v, j) \in Counts
  BY <1>1 DEF Repeats, Counts
<1>4. j \in DOMAIN v /\ (j = i - 1 \/ j = i - 2)
  <2>1. KindAt(v, j) # ""
    BY <1>3 DEF Counts
  <2>2. QED
    BY <2>1 DEF KindAt
<1>5. PICK m \in DOMAIN v : /\ j < m /\ m \in Elements(v)
                            /\ \A k \in j..(m - 1) : KindAt(v, k) \in Counts
  BY <1>3, <1>4, CountedElement
<1>6. PrefixFits(v, m)
  BY <1>5 DEF WellFormed, Sound
<1>7. m > i
  <2>1. KindAt(v, m) \notin Counts
    BY <1>5, KindsAt DEF Starters, Counts
  <2>2. m # i /\ (j = i - 2 => m # i - 1)
    BY <1>3, <2>1
  <2>3. QED
    BY <1>2, <1>4, <1>5, <2>2
<1> DEFINE n == Len(PrefixOf(v, m))
<1>8. KindAt(v, m - 1 - n) \notin Counts
  BY <1>6 DEF PrefixFits
<1>9. n \in 0..3
  BY PrefixTells
<1>10. m - 1 - n < j
  <2> HIDE DEF n, j
  <2>1. m - 1 - n \notin j..(m - 1)
    BY <1>5, <1>8
  <2>2. QED
    BY <1>2, <1>4, <1>9, <2>1
<1>11. /\ n >= 2 => KindAt(v, m - 1) # KindAt(v, m - 2)
       /\ n = 3 => /\ KindAt(v, m - 1) = "NUM" /\ KindAt(v, m - 2) = "STAR"
                   /\ KindAt(v, m - 3) = "NUM"
  BY PrefixTells
<1>12. m \in Int
  BY <1>2, <1>5
<1> HIDE DEF n, j
<1>13. CASE m = i + 1
  <2>1. m - 1 = i /\ m - 2 = i - 1
    BY <1>2, <1>13
  <2>2. n >= 2 /\ (j = i - 2 => n = 3)
    BY <1>2, <1>4, <1>9, <1>10, <1>13
  <2>3. KindAt(v, i) # KindAt(v, i - 1)
    BY <1>11, <2>1, <2>2
  <2>4. KindAt(v, i) = "STAR"
    BY <1>1, <2>3 DEF Repeats
  <2>5. j = i - 2
    BY <2>3 DEF j
  <2>6. QED
    BY <1>11, <2>1, <2>2, <2>4, <2>5
<1>14. CASE m = i + 2
  <2>1. m - 2 = i /\ m - 3 = i - 1
    BY <1>2, <1>14
  <2>2. n = 3 /\ j = i - 1
    BY <1>2, <1>4, <1>9, <1>10, <1>14
  <2>3. KindAt(v, i) # KindAt(v, i - 1)
    BY <1>11, <2>1, <2>2
  <2>4. j # i - 1
    BY <1>2, <2>3 DEF j
  <2>5. QED
    BY <2>2, <2>4
<1>15. CASE m > i + 2
  BY <1>2, <1>4, <1>9, <1>10, <1>12, <1>15
<1>16. QED
  BY <1>2, <1>7, <1>12, <1>13, <1>14, <1>15

\* A lexeme that is wrong stays wrong in every longer text.
LEMMA WrongIsDead ==
  ASSUME NEW w \in Seq(Lexemes), NEW i \in 1..Len(w), Wrong(w, i)
  PROVE  Dead(w)
<1>1. SUFFICES ASSUME NEW v \in Seq(Lexemes), Longer(v, w), WellFormed(v)
               PROVE  FALSE
  BY DEF Dead
<1>2. /\ Len(w) \in Nat /\ DOMAIN w = 1..Len(w) /\ i \in DOMAIN w /\ i \in Int
      /\ i <= Len(w)
  BY LenProperties
<1>3. \A k \in {i, i - 1, i - 2} : KindAt(v, k) = KindAt(w, k)
  <2>1. \A k \in {i, i - 1, i - 2} : k \in Int /\ k <= Len(w)
    BY <1>2
  <2>2. QED
    BY <1>1, <2>1, LongerKinds, Zenon
<1>4. i \in DOMAIN v
  BY <1>1, <1>2, LongerKinds
<1>5. ~Repeats(w, i)
  <2>1. ~Repeats(v, i)
    BY <1>1, <1>4, NoRepeats
  <2>2. QED
    BY <1>3, <2>1 DEF Repeats
<1>6. CASE /\ KindAt(w, i) \in {"RP", "CB"} /\ Depth(w, i) < 0
           /\ \A k \in 1..(i - 1) : Depth(w, k) >= 0
  <2>1. KindAt(v, i) \in {"RP", "CB"}
    BY <1>3, <1>6
  <2>2. i \in Closes(v)
    BY <2>1, KindsAt
  <2>3. PICK j \in Opens(v) : Pairs(v, j, i)
    BY <1>1, <2>2 DEF WellFormed, Sound
  <2>4. j < i /\ Balance(v, j, i) = 0 /\ j \in Nat \ {0}
    BY <2>3, LenProperties DEF Pairs, Opens
  <2>5. Balance(v, j, i) = Depth(v, i) - Depth(v, j - 1)
    <3>1. i \in Nat /\ j <= i + 1
      BY <1>2, <2>4
    <3>2. QED
      BY <2>4, <3>1, BalanceIs
  <2>6. Depth(v, i) = Depth(w, i) /\ Depth(v, j - 1) = Depth(w, j - 1)
    <3>1. j - 1 \in Int /\ j - 1 <= Len(w)
      BY <1>2, <2>4
    <3>2. QED
      BY <1>1, <1>2, <3>1, LongerDepth
  <2>7. Depth(w, j - 1) >= 0 /\ Depth(w, j - 1) \in Int /\ Depth(w, i) \in Int
    <3>1. j - 1 = 0 \/ j - 1 \in 1..(i - 1)
      BY <1>2, <2>4
    <3>2. 0 \in Nat /\ i \in Nat /\ j - 1 \in Nat
      BY <1>2, <2>4
    <3>3. Depth(w, 0) = 0 /\ Depth(w, j - 1) \in Int /\ Depth(w, i) \in Int
      BY <3>2, DepthStep
    <3>4. Depth(w, j - 1) >= 0
      <4>1. CASE j - 1 = 0
        <5>1. Depth(w, j - 1) = 0
          BY <3>3, <4>1
        <5>2. QED
          BY <5>1
      <4>2. CASE j - 1 \in 1..(i - 1)
        BY <1>6, <4>2
      <4>3. QED
        BY <3>1, <4>1, <4>2
    <3>5. QED
      BY <3>3, <3>4
  <2>8. Depth(w, i) - Depth(w, j - 1) = 0
    BY <2>4, <2>5, <2>6
  <2>9. QED
    BY <1>6, <2>7, <2>8
<1>7. /\ KindAt(w, i) # "BD"
      /\ ~(KindAt(w, i) = "NV" /\ i # 1 /\ w[i].val # 0)
      /\ ~(KindAt(w, i) \in Defines /\ ~IsHeader(w, i - 1))
      /\ ~(KindAt(w, i - 1) \in Counts /\ KindAt(w, i) \notin Counts \union Starters)
      /\ ~(KindAt(w, i - 1) \in Counts /\ IsHeader(w, i))
      /\ ~(i = 1 /\ KindAt(w, 1) \notin {"TX", "PV", "NV"})
      /\ ~(i = 2 /\ KindAt(w, 2) \notin Defines)
  BY <1>1, InLanguage
<1>8. QED
  BY <1>5, <1>6, <1>7, Zenon DEF Wrong

\* The mate of a bracket is the mate of no other.
LEMMA OneMate ==
  ASSUME NEW v \in Seq(Lexemes), NEW i, NEW k, NEW j, Pairs(v, i, j), Pairs(v, k, j)
  PROVE  ~(i < k)
<1>1. SUFFICES ASSUME i < k PROVE FALSE
  OBVIOUS
<1>2. /\ i \in Nat \ {0} /\ k \in Nat \ {0} /\ j \in Nat /\ i < j /\ k < j
      /\ Balance(v, i, j) = 0 /\ Balance(v, k, j) = 0
      /\ \A n \in i..(j - 1) : Balance(v, i, n) > 0
  BY LenProperties DEF Pairs, Opens, Closes
<1>3. k - 1 \in i..(j - 1) /\ k - 1 \in Nat /\ i <= k - 1 + 1 /\ i <= j + 1 /\ k <= j + 1
      /\ i - 1 \in Nat
  BY <1>1, <1>2
<1>4. /\ Balance(v, i, k - 1) = Depth(v, k - 1) - Depth(v, i - 1)
      /\ Balance(v, i, j) = Depth(v, j) - Depth(v, i - 1)
      /\ Balance(v, k, j) = Depth(v, j) - Depth(v, k - 1)
  BY <1>2, <1>3, BalanceIs
<1>5. Depth(v, k - 1) \in Int /\ Depth(v, i - 1) \in Int /\ Depth(v, j) \in Int
  BY <1>2, <1>3, DepthStep
<1>6. Balance(v, i, k - 1) > 0
  BY <1>2, <1>3
<1>7. QED
  BY <1>2, <1>4, <1>5, <1>6


LEMMA DoomedOfAnyLonger ==
  ASSUME NEW w \in Seq(Lexemes), NEW v \in Seq(Lexemes), Longer(v, w), Proper(v), SomeDoomed(w)
  PROVE  SomeDoomed(v)
<1>1. PICK i \in DOMAIN w : Doomed(w, i)
  BY DEF SomeDoomed
<1>2. i \in Opens(w)
  BY <1>1 DEF Doomed
<1>3. PICK d \in DOMAIN w :
        /\ i < d /\ \A k \in i..(d - 1) : Balance(w, i, k) > 0
        /\ \/ d \in Closes(w) /\ Balance(w, i, d) = 0 /\ ~Mates(w, i, d)
           \/ IsHeader(w, d)
           \/ \A e \in d..Len(w) : KindAt(w, e) = "ZZ"
  BY <1>1 DEF Doomed
<1>4. /\ Len(w) \in Nat /\ i \in 1..Len(w) /\ d \in 1..Len(w)
      /\ Len(v) \in Nat /\ DOMAIN v = 1..Len(v)
  BY LenProperties
<1>5. /\ i \in Int /\ i <= Len(w) /\ d \in Int /\ d <= Len(w)
  BY <1>4
<1>6. /\ i \in DOMAIN v /\ d \in DOMAIN v /\ v[i] = w[i] /\ v[d] = w[d]
      /\ KindAt(v, d) = KindAt(w, d)
  BY <1>5, LongerKinds
<1>7. \A k \in i..d : Balance(v, i, k) = Balance(w, i, k)
  <2>1. \A k \in i..d : k \in Int /\ k <= Len(w)
    BY <1>4
  <2>2. QED
    BY <1>5, <2>1, LongerBalance
<1>8. \A k \in i..(d - 1) : Balance(v, i, k) > 0
  <2>1. \A k \in i..(d - 1) : k \in i..d
    BY <1>4
  <2>2. QED
    BY <1>3, <1>7, <2>1
<1>9. Balance(v, i, d) = Balance(w, i, d)
  <2>1. d \in i..d
    BY <1>3, <1>4
  <2>2. QED
    BY <1>7, <2>1
<1>10. i \in Opens(v) /\ (d \in Closes(w) => d \in Closes(v)) /\ (Mates(v, i, d) <=> Mates(w, i, d))
  BY <1>2, <1>6 DEF Opens, Closes, Mates
<1>11. IsHeader(w, d) => IsHeader(v, d)
  BY <1>5, LongerHeader
<1>12. (\A e \in d..Len(w) : KindAt(w, e) = "ZZ") => \A e \in d..Len(v) : KindAt(v, e) = "ZZ"
  <2>1. SUFFICES ASSUME \A e \in d..Len(w) : KindAt(w, e) = "ZZ", NEW e \in d..Len(v)
                 PROVE  KindAt(v, e) = "ZZ"
    OBVIOUS
  <2>2. d \in d..Len(w) /\ e \in DOMAIN v /\ (e = d \/ d < e)
    BY <1>4
  <2>3. KindAt(v, d) = "ZZ"
    BY <1>6, <2>1, <2>2
  <2>4. QED
    BY <1>6, <2>2, <2>3 DEF Proper
<1>13. Doomed(v, i)
  BY <1>3, <1>6, <1>8, <1>9, <1>10, <1>11, <1>12 DEF Doomed
<1>14. QED
  BY <1>6, <1>13 DEF SomeDoomed

\* A bracket that has lost its mate is never mated again.
LEMMA DoomedIsDead ==
  ASSUME NEW w \in Seq(Lexemes), SomeDoomed(w)
  PROVE  Dead(w)
<1>1. SUFFICES ASSUME NEW v \in Seq(Lexemes), Proper(v), Longer(v, w), WellFormed(v)
               PROVE  FALSE
  BY DEF Dead
<1>2. PICK i \in Opens(v) : ~\E j \in Closes(v) : Mated(v, i, j)
  BY <1>1, DoomedOfAnyLonger, DoomedIsUnmated
<1>3. PICK j \in Closes(v) : Pairs(v, i, j)
  BY <1>1, <1>2 DEF WellFormed, Open
<1>4. PICK k \in Opens(v) : Pairs(v, k, j) /\ Mates(v, k, j)
                            /\ ~\E h \in Headers(v) : k < h /\ h < j
  BY <1>1, <1>3 DEF WellFormed, Sound
<1>5. k \in Int /\ i \in Int
  BY LenProperties DEF Opens
<1>6. ~(i < k) /\ ~(k < i)
  BY <1>3, <1>4, OneMate
<1>7. i = k
  BY <1>5, <1>6
<1>8. QED
  BY <1>2, <1>4, <1>7 DEF Mated


-----------------------------------------------------------------------------
(* The shortest continuation of a text is one of its continuations.        *)

LEMMA JoinTwo ==
  ASSUME NEW S, NEW a \in Seq(S), NEW b \in Seq(S), NEW ab, ab = a \o b
  PROVE  /\ ab \in Seq(S) /\ Len(ab) = Len(a) + Len(b)
         /\ \A i \in 1..Len(a) : ab[i] = a[i]
         /\ \A i \in 1..Len(b) : ab[Len(a) + i] = b[i]
<1>1. Len(a) \in Nat /\ Len(b) \in Nat
  BY LenProperties
<1>2. /\ ab \in Seq(S) /\ Len(ab) = Len(a) + Len(b)
      /\ \A i \in 1..(Len(a) + Len(b)) :
           ab[i] = IF i <= Len(a) THEN a[i] ELSE b[i - Len(a)]
  BY ConcatProperties
<1>3. \A i \in 1..Len(a) : ab[i] = a[i]
  BY <1>1, <1>2
<1>4. ASSUME NEW i \in 1..Len(b)
      PROVE  ab[Len(a) + i] = b[i]
  <2>1. Len(a) + i \in 1..(Len(a) + Len(b)) /\ ~(Len(a) + i <= Len(a)) /\ Len(a) + i - Len(a) = i
    BY <1>1
  <2>2. QED
    BY <1>2, <2>1
<1>5. QED
  BY <1>2, <1>3, <1>4

LEMMA Joined ==
  ASSUME NEW S, NEW a \in Seq(S), NEW b \in Seq(S), NEW c \in Seq(S), NEW d \in Seq(S),
         NEW v, v = a \o b \o c \o d, NEW n, n = Len(a) + Len(b), NEW m, m = n + Len(c)
  PROVE  /\ v \in Seq(S) /\ Len(v) = m + Len(d)
         /\ \A i \in 1..Len(a) : v[i] = a[i]
         /\ \A i \in 1..Len(b) : v[Len(a) + i] = b[i]
         /\ \A i \in 1..Len(c) : v[n + i] = c[i]
         /\ \A i \in 1..Len(d) : v[m + i] = d[i]
<1> DEFINE ab == a \o b
           abc == ab \o c
<1>1. Len(a) \in Nat /\ Len(b) \in Nat /\ Len(c) \in Nat /\ Len(d) \in Nat
  BY LenProperties
<1> HIDE DEF ab, abc
<1>2. /\ ab \in Seq(S) /\ Len(ab) = Len(a) + Len(b)
      /\ \A i \in 1..Len(a) : ab[i] = a[i]
      /\ \A i \in 1..Len(b) : ab[Len(a) + i] = b[i]
  <2>1. ab = a \o b
    BY DEF ab
  <2>2. QED
    BY <2>1, JoinTwo
<1>3. ab \in Seq(S)
  BY <1>2
<1>4. /\ abc \in Seq(S) /\ Len(abc) = Len(ab) + Len(c)
      /\ \A i \in 1..Len(ab) : abc[i] = ab[i]
      /\ \A i \in 1..Len(c) : abc[Len(ab) + i] = c[i]
  <2>1. abc = ab \o c
    BY DEF abc
  <2>2. QED
    BY <1>3, <2>1, JoinTwo
<1>5. abc \in Seq(S)
  BY <1>4
<1>6. /\ v \in Seq(S) /\ Len(v) = Len(abc) + Len(d)
      /\ \A i \in 1..Len(abc) : v[i] = abc[i]
      /\ \A i \in 1..Len(d) : v[Len(abc) + i] = d[i]
  <2>1. v = abc \o d
    BY DEF ab, abc
  <2>2. QED
    BY <1>5, <2>1, JoinTwo
<1>7. Len(ab) = n /\ Len(abc) = m /\ Len(v) = m + Len(d)
  BY <1>2, <1>4, <1>6
<1>8. \A i \in 1..n : i \in 1..m
  BY <1>1
<1>9. \A i \in 1..Len(a) : i \in 1..n
  BY <1>1
<1>10. \A i \in 1..Len(b) : Len(a) + i \in 1..n
  BY <1>1
<1>11. \A i \in 1..Len(c) : n + i \in 1..m
  BY <1>1
<1>12. \A i \in 1..n : v[i] = ab[i]
  BY <1>4, <1>6, <1>7, <1>8, Zenon
<1>13. \A i \in 1..Len(a) : v[i] = a[i]
  BY <1>2, <1>9, <1>12, Zenon
<1>14. \A i \in 1..Len(b) : v[Len(a) + i] = b[i]
  BY <1>2, <1>10, <1>12, Zenon
<1>15. \A i \in 1..Len(c) : v[n + i] = c[i]
  BY <1>4, <1>6, <1>7, <1>11, Zenon
<1>16. \A i \in 1..Len(d) : v[m + i] = d[i]
  BY <1>6, <1>7, Zenon
<1>17. QED
  BY <1>6, <1>7, <1>13, <1>14, <1>15, <1>16

\* What Completed adds to a text.
Needed(w) ==
  LET last == KindAt(w, Len(w))
  IN  IF Len(w) = 1 THEN <<Lexeme("DEF")>>
      ELSE IF last \in Counts THEN <<Lexeme("TX")>>
      ELSE IF last \in {"SS", "SI"} THEN <<Lexeme("ST")>> ELSE <<>>

\* The closing brackets that w waits for.
Closers(w) ==
  LET unclosed == InOrder({i \in Opens(w) : Open(w, i)})
  IN  [k \in DOMAIN unclosed |->
         Lexeme(IF w[unclosed[Len(unclosed) + 1 - k]].kind = "LP" THEN "RP" ELSE "CB")]

Ending(w) == IF KindAt(w, Len(w)) = "ZZ" THEN <<>> ELSE <<Lexeme("ZZ")>>

LEMMA CompletedIs ==
  ASSUME NEW w
  PROVE  Completed(w) = w \o Needed(w) \o Closers(w) \o Ending(w)
BY Zenon DEF Completed, Needed, Closers, Ending

LEMMA Additions ==
  ASSUME NEW w \in Seq(Lexemes)
  PROVE  /\ Needed(w) \in Seq(Lexemes) /\ Closers(w) \in Seq(Lexemes)
         /\ Ending(w) \in Seq(Lexemes)
         /\ \A i \in 1..Len(Closers(w)) : Closers(w)[i].kind \in {"RP", "CB"}
<1>1. \A kind \in {"DEF", "TX", "ST", "RP", "CB", "ZZ"} : Lexeme(kind) \in Lexemes
  BY DEF Lexeme, Lexemes, Kinds, Fixed
<1>2. Needed(w) \in Seq(Lexemes)
  <2>1. /\ <<Lexeme("DEF")>> \in Seq(Lexemes) /\ <<Lexeme("TX")>> \in Seq(Lexemes)
        /\ <<Lexeme("ST")>> \in Seq(Lexemes) /\ <<>> \in Seq(Lexemes)
    BY <1>1
  <2>2. QED
    BY <2>1, Zenon DEF Needed
<1>3. Ending(w) \in Seq(Lexemes)
  <2>1. <<Lexeme("ZZ")>> \in Seq(Lexemes) /\ <<>> \in Seq(Lexemes)
    BY <1>1
  <2>2. QED
    BY <2>1, Zenon DEF Ending
<1> DEFINE S == {i \in Opens(w) : Open(w, i)}
           u == InOrder(S)
           size == Cardinality(S)
<1>4. size \in Nat
  <2>1. S \subseteq 1..Len(w) /\ Len(w) \in Nat
    BY LenProperties DEF Opens
  <2> HIDE DEF S
  <2>2. IsFiniteSet(1..Len(w))
    BY <2>1, FS_Interval
  <2>3. IsFiniteSet(S)
    BY <2>1, <2>2, FS_Subset
  <2>4. QED
    BY <2>3, FS_CardinalityType
<1>5. DOMAIN u = 1..size
  BY DEF InOrder
<1> DEFINE c(k) == Lexeme(IF w[u[Len(u) + 1 - k]].kind = "LP" THEN "RP" ELSE "CB")
<1>6. Closers(w) = [k \in 1..size |-> c(k)]
  BY <1>5, Zenon DEF Closers
<1>7. \A k \in 1..size : c(k) \in Lexemes /\ c(k).kind \in {"RP", "CB"}
  <2>1. \A k : c(k) \in {Lexeme("RP"), Lexeme("CB")}
    OBVIOUS
  <2> HIDE DEF c
  <2>2. QED
    BY <1>1, <2>1 DEF Lexeme
<1> HIDE DEF size, c
<1>8. Closers(w) \in [1..size -> Lexemes]
  BY <1>6, <1>7
<1>9. Closers(w) \in Seq(Lexemes) /\ Len(Closers(w)) = size
  BY <1>4, <1>8, SeqDef
<1>10. \A i \in 1..size : Closers(w)[i].kind \in {"RP", "CB"}
  BY <1>6, <1>7
<1>11. QED
  BY <1>2, <1>3, <1>9, <1>10


LEMMA Same ==
  ASSUME NEW x \in Int, NEW y \in Int, x <= y, y <= x
  PROVE  x = y
OBVIOUS

\* The shortest continuation of a proper text is a continuation, and proper.
LEMMA CompletedIsLonger ==
  ASSUME NEW w \in Seq(Lexemes), Proper(w), w # <<>>, WellFormed(Completed(w))
  PROVE  LET v == Completed(w)
         IN  v \in Seq(Lexemes) /\ Longer(v, w) /\ Proper(v)
<1> DEFINE v == Completed(w)
           b == Needed(w)
           c == Closers(w)
           d == Ending(w)
           n == Len(w) + Len(b)
           m == n + Len(c)
           last == KindAt(w, Len(w))
<1>1. /\ b \in Seq(Lexemes) /\ c \in Seq(Lexemes) /\ d \in Seq(Lexemes)
      /\ \A i \in 1..Len(c) : c[i].kind \in {"RP", "CB"}
  BY Additions
<1>2. /\ v \in Seq(Lexemes) /\ Len(v) = m + Len(d)
      /\ \A i \in 1..Len(w) : v[i] = w[i]
      /\ \A i \in 1..Len(b) : v[Len(w) + i] = b[i]
      /\ \A i \in 1..Len(c) : v[n + i] = c[i]
      /\ \A i \in 1..Len(d) : v[m + i] = d[i]
  <2>1. v = w \o b \o c \o d
    BY CompletedIs
  <2> HIDE DEF v, b, c, d
  <2>2. QED
    BY <1>1, <2>1, Joined
<1>3. /\ Len(b) \in Nat /\ Len(c) \in Nat /\ Len(d) \in Nat /\ Len(w) \in Nat \ {0}
      /\ Len(v) \in Nat
  BY <1>1, <1>2, LenProperties, EmptySeq
<1>4. WellFormed(v)
  OBVIOUS
<1>5. /\ Len(b) <= 1 /\ Len(d) <= 1
      /\ Len(b) = 1 => b[1].kind \in {"DEF", "TX", "ST"}
      /\ Len(b) = 1 /\ last \in {"SS", "SI"} /\ Len(w) # 1 => b[1].kind = "ST"
      /\ last \in {"SS", "SI"} => Len(b) = 1
      /\ IF last = "ZZ" THEN Len(d) = 0 ELSE Len(d) = 1 /\ d[1].kind = "ZZ"
  <2>1. /\ Len(<<>>) = 0
        /\ \A k : Len(<<Lexeme(k)>>) = 1 /\ <<Lexeme(k)>>[1].kind = k
    BY DEF Lexeme
  <2>2. /\ b = <<>> \/ b = <<Lexeme("DEF")>> \/ b = <<Lexeme("TX")>> \/ b = <<Lexeme("ST")>>
        /\ last \in {"SS", "SI"} /\ Len(w) # 1 => b = <<Lexeme("ST")>>
        /\ last \in {"SS", "SI"} => b # <<>>
    <3>1. Len(w) = 1 => b = <<Lexeme("DEF")>>
      BY DEF Needed
    <3>2. last \in {"SS", "SI"} => last \notin Counts
      BY DEF Counts
    <3>3. Len(w) # 1 /\ last \in Counts => b = <<Lexeme("TX")>>
      BY DEF Needed
    <3>4. Len(w) # 1 /\ last \notin Counts =>
            b = IF last \in {"SS", "SI"} THEN <<Lexeme("ST")>> ELSE <<>>
      BY DEF Needed
    <3> HIDE DEF b, last
    <3>5. \A k : <<Lexeme(k)>> # <<>>
      BY <2>1
    <3>6. QED
      BY <3>1, <3>2, <3>3, <3>4, <3>5
  <2>3. IF last = "ZZ" THEN d = <<>> ELSE d = <<Lexeme("ZZ")>>
    BY DEF Ending
  <2> HIDE DEF b, d, last
  <2>4. (Len(b) = 0 \/ Len(b) = 1) /\ (Len(d) = 0 \/ Len(d) = 1)
    BY <2>1, <2>2, <2>3
  <2>5. Len(b) <= 1 /\ Len(d) <= 1
    <3>1. 0 <= 1 /\ 1 <= 1
      OBVIOUS
    <3>2. QED
      BY <2>4, <3>1, Zenon
  <2>6. /\ Len(b) = 1 => b[1].kind \in {"DEF", "TX", "ST"}
        /\ Len(b) = 1 /\ last \in {"SS", "SI"} /\ Len(w) # 1 => b[1].kind = "ST"
        /\ last \in {"SS", "SI"} => Len(b) = 1
    BY <2>1, <2>2
  <2>7. IF last = "ZZ" THEN Len(d) = 0 ELSE Len(d) = 1 /\ d[1].kind = "ZZ"
    BY <2>1, <2>3
  <2>8. QED
    BY <2>5, <2>6, <2>7
<1> HIDE DEF v, b, c, d
<1>6. Len(b) <= 1 /\ Len(d) <= 1
  BY <1>5
<1>7. DOMAIN v = 1..Len(v) /\ DOMAIN w = 1..Len(w) /\ Len(v) = Len(w) + Len(b) + Len(c) + Len(d)
  BY <1>2, LenProperties
<1>8. Len(v) = Len(w) + Len(b) + Len(c) + Len(d)
  BY <1>7
<1>9. Longer(v, w)
  BY <1>2, <1>3, <1>7 DEF Longer
<1>10. \A i \in 1..Len(w) : KindAt(v, i) = KindAt(w, i)
  <2>1. \A i \in 1..Len(w) : i \in Int /\ i <= Len(w)
    BY <1>3
  <2>2. QED
    BY <1>2, <1>9, <2>1, LongerKinds
<1>11. \A i \in 1..Len(v) : KindAt(v, i) = v[i].kind
  BY <1>7 DEF KindAt
<1>12. ASSUME NEW i \in 1..Len(v), i > Len(w)
       PROVE  \/ i = Len(w) + 1 /\ Len(b) = 1 /\ KindAt(v, i) = b[1].kind
              \/ i > Len(w) + Len(b) /\ i <= m /\ KindAt(v, i) \in {"RP", "CB"}
              \/ i = Len(v) /\ Len(d) = 1 /\ KindAt(v, i) = d[1].kind
  <2>1. /\ i \in Nat /\ i > Len(w) /\ i <= Len(w) + Len(b) + Len(c) + Len(d)
        /\ Len(w) \in Nat /\ Len(b) \in Nat /\ Len(c) \in Nat /\ Len(d) \in Nat
        /\ Len(b) <= 1 /\ Len(d) <= 1
    BY <1>2, <1>3, <1>6, <1>12
  <2>2. /\ i <= n => i = Len(w) + 1 /\ Len(b) = 1
        /\ i > n /\ i <= m => i - n \in 1..Len(c) /\ n + (i - n) = i
        /\ i > m => i = m + 1 /\ Len(d) = 1
    <3>1. i <= n => i = Len(w) + 1
      <4>1. i <= n => i <= Len(w) + 1 /\ Len(w) + 1 <= i
        BY <2>1
      <4>2. Len(w) + 1 \in Int /\ i \in Int
        BY <2>1
      <4>3. QED
        BY <4>1, <4>2, Same, Zenon
    <3>2. i <= n => Len(b) = 1
      <4>1. i <= n => 1 <= Len(b)
        BY <2>1
      <4>2. 1 \in Int /\ Len(b) \in Int
        BY <2>1
      <4>3. QED
        BY <2>1, <4>1, <4>2, Same, Zenon
    <3>3. i > n /\ i <= m => i - n \in 1..Len(c) /\ n + (i - n) = i
      BY <2>1
    <3>4. i > m => i = m + 1
      <4>1. i > m => i <= m + 1 /\ m + 1 <= i
        BY <2>1
      <4>2. m + 1 \in Int /\ i \in Int
        BY <2>1
      <4>3. QED
        BY <4>1, <4>2, Same, Zenon
    <3>5. i > m => Len(d) = 1
      <4>1. i > m => 1 <= Len(d)
        BY <2>1
      <4>2. 1 \in Int /\ Len(d) \in Int
        BY <2>1
      <4>3. QED
        BY <2>1, <4>1, <4>2, Same, Zenon
    <3>6. QED
      BY <3>1, <3>2, <3>3, <3>4, <3>5, Zenon
  <2>3. CASE i <= n
    <3>1. Len(b) = 1 /\ 1 \in 1..Len(b) /\ i = Len(w) + 1
      BY <2>2, <2>3
    <3>2. v[Len(w) + 1] = b[1]
      BY <1>2, <3>1
    <3>3. QED
      BY <1>11, <3>1, <3>2
  <2>4. CASE i > n /\ i <= m
    <3>1. v[n + (i - n)] = c[i - n] /\ c[i - n].kind \in {"RP", "CB"}
      BY <1>1, <1>2, <2>2, <2>4
    <3>2. QED
      BY <1>11, <2>2, <2>4, <3>1
  <2>5. CASE i > m
    <3>1. Len(d) = 1 /\ i = m + 1
      BY <2>2, <2>5, Zenon
    <3>2. i = Len(v) /\ 1 \in 1..Len(d)
      BY <1>2, <3>1
    <3>3. v[m + 1] = d[1]
      BY <1>2, <3>2
    <3>4. QED
      BY <1>11, <3>1, <3>2, <3>3
  <2>6. n \in Nat /\ m \in Nat
    BY <1>3
  <2>7. QED
    <3> HIDE DEF n, m
    <3>1. QED
      BY <2>1, <2>3, <2>4, <2>5, <2>6
<1>13. KindAt(v, Len(v)) = "ZZ" /\ IsHeader(v, 1)
  BY <1>4 DEF WellFormed, Sound
<1>14. CASE last = "ZZ"
  <2>1. Len(d) = 0 /\ Len(v) \in 1..Len(v)
    BY <1>3, <1>5, <1>7, <1>14
  <2>2. ~(Len(v) > Len(w))
    <3>1. SUFFICES ASSUME Len(v) > Len(w) PROVE FALSE
      OBVIOUS
    <3>2. KindAt(v, Len(v)) \in {"RP", "CB", "DEF", "TX", "ST"}
      BY <1>5, <1>12, <2>1, <3>1
    <3>3. QED
      BY <1>13, <3>2
  <2>3. Len(v) = Len(w)
    BY <1>3, <1>8, <2>2
  <2>4. v = w
    BY <1>2, <2>3, SeqEqual
  <2>5. QED
    BY <1>2, <1>9, <2>4 DEF v
<1>15. CASE last # "ZZ"
  <2>1. \A i \in 1..Len(w) : KindAt(w, i) # "ZZ"
    <3>1. SUFFICES ASSUME NEW i \in 1..Len(w), KindAt(w, i) = "ZZ" PROVE FALSE
      OBVIOUS
    <3>2. Len(w) \in DOMAIN w /\ i \in DOMAIN w /\ (i < Len(w) \/ i = Len(w))
      <4>1. Len(w) \in 1..Len(w) /\ (i < Len(w) \/ i = Len(w))
        BY <1>3
      <4>2. QED
        BY <1>7, <4>1
    <3>3. QED
      BY <1>15, <3>1, <3>2 DEF Proper
  <2>2. ASSUME NEW i \in DOMAIN v, NEW j \in DOMAIN v, i < j
        PROVE  KindAt(v, i) # "ZZ"
    <3>1. i \in 1..Len(v) /\ i # Len(v)
      BY <1>7, <2>2
    <3>2. CASE i <= Len(w)
      <4>1. i \in 1..Len(w)
        BY <1>3, <3>1, <3>2
      <4>2. QED
        BY <1>10, <2>1, <4>1
    <3>3. CASE i > Len(w)
      <4>1. KindAt(v, i) \in {"RP", "CB", "DEF", "TX", "ST"}
        BY <1>5, <1>12, <3>1, <3>3
      <4>2. QED
        BY <4>1
    <3>4. QED
      BY <1>3, <3>1, <3>2, <3>3
  <2>3. ASSUME NEW i \in DOMAIN v, i < Len(v), KindAt(v, i) \in {"SS", "SI"}
        PROVE  KindAt(v, i + 1) = "ST"
    <3>1. i \in 1..Len(v) /\ i # Len(v) /\ i + 1 \in 1..Len(v)
      BY <1>3, <1>7, <2>3
    <3>2. i <= Len(w)
      <4>1. SUFFICES ASSUME i > Len(w) PROVE FALSE
        BY <1>3, <3>1
      <4>2. KindAt(v, i) \in {"RP", "CB", "DEF", "TX", "ST"}
        BY <1>5, <1>12, <3>1, <4>1
      <4>3. QED
        BY <2>3, <4>2
    <3>3. i \in 1..Len(w)
      BY <1>3, <3>1, <3>2
    <3>4. KindAt(w, i) \in {"SS", "SI"}
      BY <1>10, <2>3, <3>3
    <3>5. CASE i < Len(w)
      <4>1. i + 1 \in 1..Len(w)
        BY <1>3, <3>3, <3>5
      <4>2. KindAt(w, i + 1) = "ST"
        BY <1>7, <3>3, <3>4, <3>5 DEF Proper
      <4>3. QED
        BY <1>10, <4>1, <4>2
    <3>6. CASE i = Len(w)
      <4>1. last \in {"SS", "SI"}
        BY <3>4, <3>6
      <4>2. Len(w) # 1
        <5>1. SUFFICES ASSUME Len(w) = 1 PROVE FALSE
          OBVIOUS
        <5>2. KindAt(v, 1) \in {"SS", "SI"}
          BY <2>3, <3>6, <5>1
        <5>3. QED
          BY <1>13, <5>2 DEF IsHeader
      <4>3. Len(b) = 1 /\ b[1].kind = "ST"
        BY <1>5, <4>1, <4>2
      <4>4. Len(w) + 1 \in 1..Len(v) /\ 1 \in 1..Len(b) /\ i + 1 = Len(w) + 1
        BY <3>1, <3>6, <4>3
      <4>5. v[Len(w) + 1] = b[1]
        BY <1>2, <4>4
      <4>6. QED
        BY <1>11, <4>3, <4>4, <4>5
    <3>7. QED
      BY <1>3, <3>2, <3>5, <3>6
  <2>4. Proper(v)
    BY <2>2, <2>3 DEF Proper
  <2>5. QED
    BY <1>2, <1>9, <2>4 DEF v
<1>16. QED
  BY <1>14, <1>15

\* What no continuation saves, the shortest does not save.
LEMMA DeadIsNotCompletable ==
  ASSUME NEW w \in Seq(Lexemes), Proper(w), Dead(w)
  PROVE  ~Completable(w)
BY CompletedIsLonger DEF Completable, Dead
=============================================================================
