-------------------------- MODULE MetaParserAccepts -------------------------
(***************************************************************************)
(* Theorems about what the meta-parser makes of a text of any length: it   *)
(* takes no text that is not in the language but one in which a bracket    *)
(* went without its mate, and then what it returns has a hole; it gives up *)
(* only a text that no continuation brings into the language; and in any   *)
(* other text every lexeme but the first reaches the rules as what it is.  *)
(*                                                                         *)
(* The proof follows the parse rule by rule: as long as no element came    *)
(* back undefined and the next token is one that some alternative takes,   *)
(* the tokens are the lexemes, the bracket frames are the brackets open,   *)
(* and all that was consumed is as the grammar asks (Good).  In a text     *)
(* that may still be completed the parse stays Good, and the alternatives  *)
(* passed over tell which lexemes came before the next one (Fine).         *)
(***************************************************************************)
EXTENDS MetaParserProofs

-----------------------------------------------------------------------------
(* The invariant.                                                          *)

Kind(i) == KindAt(input, i)

At(rule, phase) == Top.rule = rule /\ Top.phase = phase

\* The next tokens are the next lexemes, but for the first name and for a
\* count after m*n, which no rule reads.
Accurate ==
  IF Consumed = 0
  THEN /\ Len(la) <= 2
       /\ Len(la) >= 1 => \/ la[1] = Kind(1)
                          \/ la[1] = "NR"
                          \/ la[1] = "TX" /\ Kind(1) \in {"NV", "SS", "SI", "PV"}
       /\ Len(la) >= 2 => la[2] = Kind(2) \/ la[2] \in {"NR", "TX"}
  ELSE \A k \in 1..Len(la) :
         \/ la[k] = Kind(Consumed + k)
         \/ /\ k = 4 /\ At("elem", "open") /\ la[4] = "NR"
            /\ la[1] = "NUM" /\ la[2] = "STAR" /\ la[3] = "NUM"

\* What the running rule may rely on.
Shape ==
  /\ Consumed = 0 => At("abnf", "open") \/ At("prod", "open")
  /\ At("abnf", "open") => Consumed = 0 /\ heap = << <<>> >>
  /\ At("abnf", "close") => Len(la) >= 1
  /\ At("prod", "open") => Consumed = 0 \/ HeaderNext(la)
  /\ At("prod", "close") => Stopped(la)
  /\ At("alts", "close") => Stopped(la)
  /\ At("elem", "open") => Len(la) >= 1
  /\ At("atom", "open") =>
       /\ Len(la) >= 1 /\ PrefixFits(input, Consumed + 1)
       /\ Top.grp = "" /\ Top.node.kind = "undefined"
  /\ At("atom", "close") =>
       IF Top.grp = "" THEN Top.node.kind # "undefined" ELSE Stopped(la) /\ la[1] # "ALT"
  /\ Kind(Consumed) \in Counts => At("atom", "open")

\* The brackets that are open, from the depth of the stack and from whether
\* the running frame is a bracket.
Level(size, bracket) ==
  IF size < 3 THEN 0 ELSE IF bracket THEN (size - 2) \div 4 ELSE (size - 3) \div 4

Unclosed == Level(Len(stack), InBracket(Top))

Waiting == \A n \in 1..(Len(stack) - 1) : stack[n].phase = "close"

Nest ==
  /\ Waiting
  /\ Nested(input, Consumed, stack)
  /\ Depth(input, Consumed) = Unclosed

Good == Accurate /\ Shape /\ Nest /\ Sounded(input, Consumed, stack)

\* The parse can only fail: no alternative will consume the next token.
Stuck ==
  Len(la) >= 1 /\ (la[1] \in Never \/ (At("atom", "open") /\ la[1] \notin ATOM))

\* The text is empty: nothing but its end has been consumed.
Empty == At("abnf", "close") /\ heap = << <<>> >> /\ Consumed = 1

\* The next element to be appended is a hole.
Pending == At("elem", "close") /\ Top.child.kind = "undefined"
Holed   == HasHole \/ Pending

NoBad ==
  status = "run" => /\ \A i \in DOMAIN input : Kind(i) # "BD"
                    /\ \A k \in 1..Len(la) : la[k] # "BD"

Reading ==
  status = "run" =>
    \/ Stuck \/ Empty
    \/ Holed /\ SomeDoomed(input)
    \/ ~Holed /\ Good

Finished ==
  status = "done" =>
    \/ heap = << <<>> >>
    \/ HasHole /\ SomeDoomed(input)
    \/ ~HasHole /\ WellFormed(input)

Waits == status = "run" => Waiting

ParseInv == NoBad /\ Proper(input) /\ Waits /\ Reading /\ Finished

-----------------------------------------------------------------------------
(* The depth of the stack and the brackets that are open.                  *)

LEMMA Levels ==
  ASSUME NEW size \in Nat \ {0}
  PROVE  /\ LevelRule(size) = "abnf" => size = 1
         /\ LevelRule(size) = "prod" => size = 2
         /\ LevelRule(size) = "alts" => size >= 3
         /\ LevelRule(size) \in {"seq", "elem", "atom"} => size > 3
         /\ size <= 3 => Level(size, FALSE) = 0
         /\ LevelRule(size) \in {"alts", "seq", "elem"}
              => Level(size + 1, FALSE) = Level(size, FALSE)
         /\ LevelRule(size) = "atom" =>
              /\ Level(size + 1, FALSE) = Level(size, FALSE) + 1
              /\ Level(size, TRUE) = Level(size, FALSE) + 1
              /\ Level(size, FALSE) = Level(size - 1, FALSE)
              /\ Level(size, TRUE) = (size - 2) \div 4
BY DEF LevelRule, Level

LEMMA LevelParents ==
  ASSUME NEW size \in Nat \ {0}, size > 1
  PROVE  LET parent == LevelRule(size - 1)
             rule   == LevelRule(size)
         IN  /\ rule = "prod" => parent = "abnf"
             /\ rule = "alts" => parent = "atom" \/ (parent = "prod" /\ size = 3)
             /\ rule = "seq" => parent = "alts"
             /\ rule = "elem" => parent = "seq"
             /\ rule = "atom" => parent = "elem"
<1>1. PICK n \in Nat \ {0} : size = n + 1 /\ size - 1 = n
  <2>1. size - 1 \in Nat \ {0} /\ size = size - 1 + 1
    OBVIOUS
  <2>2. QED
    BY <2>1
<1>2. LevelRule(size) = ChildOf(LevelRule(n)) /\ LevelRule(size - 1) = LevelRule(n)
  BY <1>1, NextLevel
<1>3. LevelRule(n) \in RuleNames
  BY DEF LevelRule, RuleNames
<1>4. LevelRule(n) = "prod" => n = 2
  BY Levels
<1>5. QED
  BY <1>1, <1>2, <1>3, <1>4 DEF ChildOf, RuleNames

\* Two atoms of the stack are four levels apart.
LEMMA AtomLevels ==
  ASSUME NEW size \in Nat \ {0}, LevelRule(size) = "atom",
         NEW n \in 1..(size - 1), LevelRule(n) = "atom"
  PROVE  (n - 2) \div 4 < (size - 2) \div 4
BY DEF LevelRule

-----------------------------------------------------------------------------
(* Holes.                                                                  *)

Hole(h) == \E id \in DOMAIN h : \E n \in DOMAIN h[id] : h[id][n].kind = "undefined"

LEMMA HoleAfterBo ==
  ASSUME heap \in Seq(Seq(Nodes)), NEW rule
  PROVE  Hole(HeapAfterBo(rule)) <=> Hole(heap)
<1>1. CASE rule \in Owners
  <2> DEFINE h == Append(heap, <<>>)
  <2>1. HeapAfterBo(rule) = h
    BY <1>1 DEF HeapAfterBo
  <2>2. Len(heap) \in Nat /\ DOMAIN heap = 1..Len(heap)
    BY LenProperties
  <2>3. /\ DOMAIN h = 1..(Len(heap) + 1) /\ h[Len(heap) + 1] = <<>>
        /\ \A id \in 1..Len(heap) : h[id] = heap[id]
    BY <2>2, AppendProperties, EmptySeq
  <2> HIDE DEF h
  <2>4. DOMAIN <<>> = {}
    OBVIOUS
  <2>5. \A id \in 1..(Len(heap) + 1) : id \in 1..Len(heap) \/ id = Len(heap) + 1
    BY <2>2
  <2>6. \A id \in 1..Len(heap) : id \in 1..(Len(heap) + 1)
    BY <2>2
  <2>7. QED
    BY <2>1, <2>2, <2>3, <2>4, <2>5, <2>6, Zenon DEF Hole
<1>2. CASE rule \notin Owners
  BY <1>2 DEF HeapAfterBo
<1>3. QED
  BY <1>1, <1>2

LEMMA HoleAppended ==
  ASSUME heap \in Seq(Seq(Nodes)), NEW array, array.ref \in DOMAIN heap, NEW item \in Nodes
  PROVE  Hole(Appended(array, item)) <=> Hole(heap) \/ item.kind = "undefined"
<1> DEFINE r == array.ref
           h == Appended(array, item)
<1>1. DOMAIN h = DOMAIN heap /\ h[r] = Append(heap[r], item)
  BY DEF Appended
<1>2. \A id \in DOMAIN heap : id # r => h[id] = heap[id]
  BY DEF Appended
<1>3. heap[r] \in Seq(Nodes)
  BY LenProperties, ElementOfSeq
<1>4. Len(heap[r]) \in Nat /\ DOMAIN heap[r] = 1..Len(heap[r])
  BY <1>3, LenProperties
<1>5. /\ DOMAIN Append(heap[r], item) = 1..(Len(heap[r]) + 1)
      /\ Append(heap[r], item)[Len(heap[r]) + 1] = item
      /\ \A n \in 1..Len(heap[r]) : Append(heap[r], item)[n] = heap[r][n]
  BY <1>3, <1>4, AppendProperties
<1>6. DOMAIN h[r] = 1..(Len(heap[r]) + 1) /\ h[r][Len(heap[r]) + 1] = item
      /\ \A n \in 1..Len(heap[r]) : h[r][n] = heap[r][n]
  BY <1>1, <1>5
<1>7. ASSUME NEW size \in Nat
      PROVE  /\ size + 1 \in 1..(size + 1)
             /\ \A n \in 1..(size + 1) : n \in 1..size \/ n = size + 1
             /\ \A n \in 1..size : n \in 1..(size + 1)
  OBVIOUS
<1> HIDE DEF h
<1>8. (\E n \in DOMAIN h[r] : h[r][n].kind = "undefined") <=>
        (\E n \in DOMAIN heap[r] : heap[r][n].kind = "undefined") \/ item.kind = "undefined"
  BY <1>4, <1>6, <1>7, Zenon
<1>9. QED
  BY <1>1, <1>2, <1>8, Zenon DEF Hole, h

-----------------------------------------------------------------------------
(* A step of the parser as the invariant sees it.                          *)

\* The invariants proved above, which a step may rely on.
Held == TypeOK /\ FourLevelsPerBracket /\ NodesInPlace

\* The n-th alternative is the one to take.
Runs(n) == Held /\ status = "run" /\ n \in DOMAIN Alternatives /\ First(n)

LEMMA Sizes ==
  ASSUME Held, status = "run"
  PROVE  /\ Len(stack) \in Nat \ {0} /\ DOMAIN stack = 1..Len(stack)
         /\ stack \in Seq(Frames) /\ Top \in Frames
         /\ Len(la) \in Nat /\ Len(input) \in Nat /\ Len(la) <= Len(input)
         /\ Consumed \in Nat /\ Consumed <= Len(input)
         /\ input \in Seq(Lexemes) /\ heap \in Seq(Seq(Nodes)) /\ la \in Seq(Kinds)
         /\ Top.rule = LevelRule(Len(stack))
         /\ Top.rule \in RuleNames /\ Top.phase \in {"open", "close"}
<1>1. stack \in Seq(Frames) /\ stack # <<>>
  BY DEF Held, TypeOK
<1>2. Len(stack) \in Nat \ {0} /\ DOMAIN stack = 1..Len(stack)
  BY <1>1, LenProperties, EmptySeq
<1>3. Len(stack) \in DOMAIN stack
  BY <1>2
<1>4. Top \in Frames /\ Top.rule = LevelRule(Len(stack))
  BY <1>1, <1>3, ElementOfSeq, LenProperties DEF Top, Held, FourLevelsPerBracket
<1>5. Len(la) \in Nat /\ Len(input) \in Nat /\ Len(la) <= Len(input)
  BY LenProperties DEF Held, TypeOK
<1>6. Consumed \in Nat /\ Consumed <= Len(input)
  BY <1>5 DEF Consumed
<1>7. Top.rule \in RuleNames /\ Top.phase \in {"open", "close"}
  BY <1>4, FrameParts
<1>8. QED
  BY <1>1, <1>2, <1>4, <1>5, <1>6, <1>7, TextIs DEF Held, TypeOK

\* What is consumed.
LEMMA Firing ==
  ASSUME NEW n, Runs(n), NEW alt, alt = Alternatives[n], Fires(alt)
  PROVE  /\ Settled(n) /\ Takes(alt) \in Nat /\ Takes(alt) <= Len(la)
         /\ input' = input /\ Len(la') = Len(la) - Takes(alt)
         /\ \A j \in 1..Len(la') : la'[j] = la[j + Takes(alt)]
         /\ Consumed' = Consumed + Takes(alt)
<1>1. Len(la) \in Nat /\ Len(input) \in Nat /\ la \in Seq(Kinds)
  BY Sizes DEF Runs
<1>2. Len(alt.s) \in Nat /\ alt.b \in Nat /\ Len(la) >= Len(alt.s)
  BY Taken DEF Runs, Held, Fires, AltOK
<1>3. Settled(n)
  BY <1>2 DEF Settled, Runs, Held
<1> DEFINE k == Takes(alt)
<1>4. k \in Nat /\ k <= Len(la)
  BY <1>1, <1>2 DEF Takes
<1>5. la' = SubSeq(la, k + 1, Len(la)) /\ input' = input
  BY DEF Fires, Rest, Takes
<1> HIDE DEF k
<1>6. k + 1 \in Int /\ Len(la) \in Int /\ k + 1 <= Len(la) + 1
  BY <1>1, <1>4
<1>7. Len(la') = Len(la) - k /\ \A j \in 1..Len(la') : la'[j] = la[j + k]
  <2>1. CASE k = Len(la)
    BY <1>1, <1>4, <1>5, <2>1, SubSeqProperties, EmptySeq
  <2>2. CASE k # Len(la)
    BY <1>1, <1>4, <1>5, <2>2, SubSeqProperties
  <2>3. QED
    BY <2>1, <2>2
<1>8. Consumed' = Len(input') - Len(la')
  BY DEF Consumed
<1>9. QED
  BY <1>1, <1>3, <1>4, <1>5, <1>7, <1>8 DEF k, Consumed

\* Frames other than brackets come and go, and the brackets stay.
LEMMA BracketsStay ==
  ASSUME NEW s, NEW r, NEW m \in Nat, Len(s) \in m..(m + 2), Len(r) \in m..(m + 2),
         \A i \in 1..m : r[i].rule = s[i].rule /\ r[i].at = s[i].at /\ r[i].grp = s[i].grp
                         /\ r[i].node = s[i].node,
         \A i \in (m + 1)..Len(s) : ~InBracket(s[i]),
         \A i \in (m + 1)..Len(r) : ~InBracket(r[i])
  PROVE  SameBrackets(s, r)
<1>1. \A i \in 1..Len(r) : InBracket(r[i]) => i \in 1..m
  OBVIOUS
<1>2. \A i \in 1..Len(s) : InBracket(s[i]) => i \in 1..m
  OBVIOUS
<1>3. \A i \in 1..m : i \in 1..Len(s) /\ i \in 1..Len(r)
  OBVIOUS
<1>4. \A i \in 1..m : InBracket(r[i]) <=> InBracket(s[i])
  BY DEF InBracket
<1>5. QED
  BY <1>1, <1>2, <1>3, <1>4, Zenon DEF SameBrackets

LEMMA AfterPush ==
  ASSUME NEW n, Runs(n), NEW alt, alt = Alternatives[n], PushRule(alt), Waiting
  PROVE  /\ Len(stack') = Len(stack) + 1
         /\ Top'.grp = "" /\ (alt.p = "atom" => Top'.node.kind = "undefined")
         /\ Top'.rule = alt.p /\ Top'.phase = "open"
         /\ Waiting' /\ status' = "run" /\ ~Pending'
         /\ HasHole' <=> HasHole
         /\ alt.p \notin Owners => heap' = heap
         /\ Top.rule # "atom" => SameBrackets(stack, stack')
         /\ LET g == stack'[Len(stack)]
            IN  /\ g.rule = Top.rule /\ g.node = Top.node
                /\ g.grp = Acted(Top, alt.a).grp /\ g.at = Acted(Top, alt.a).at
         /\ \A i \in 1..(Len(stack) - 1) : stack'[i] = stack[i]
<1>1. PICK g \in Frames, rule \in RuleNames, m \in Nat :
           /\ Len(stack) = m + 1
           /\ rule = alt.p
           /\ g.grp = Acted(Top, alt.a).grp
           /\ g.at = Acted(Top, alt.a).at
           /\ g.rule = Top.rule /\ g.node = Top.node /\ g.phase = "close"
           /\ Len(stack') = m + 2
           /\ stack'[m + 1] = g /\ stack'[m + 2] = NewFrame(rule, g.node)
           /\ \A i \in 1..m : stack'[i] = stack[i]
           /\ heap' = HeapAfterBo(rule)
  BY PushStep, Zenon DEF Runs, Held
<1>2. Top' = NewFrame(rule, g.node)
  BY <1>1 DEF Top
<1>3. /\ Top'.rule = rule /\ Top'.phase = "open" /\ Top'.grp = ""
      /\ rule = "atom" => Top'.node.kind = "undefined"
  BY <1>2 DEF NewFrame, Owners, Undefined, Node
<1>4. Waiting'
  <2>1. \A i \in 1..(m + 1) : i \in 1..m \/ i = m + 1
    BY <1>1
  <2>2. \A i \in 1..m : stack[i].phase = "close"
    BY <1>1 DEF Waiting
  <2>3. \A i \in 1..(m + 1) : stack'[i].phase = "close"
    BY <1>1, <2>1, <2>2
  <2>4. QED
    BY <1>1, <2>3 DEF Waiting
<1>5. HasHole' <=> HasHole
  <2>1. Hole(heap') <=> Hole(heap)
    BY <1>1, HoleAfterBo, Sizes DEF Runs
  <2>2. QED
    BY <2>1 DEF HasHole, Hole
<1>6. status' = "run"
  BY DEF PushRule, Runs
<1>7. rule \notin Owners => heap' = heap
  BY <1>1 DEF HeapAfterBo
<1>8. ASSUME Top.rule # "atom"
      PROVE  SameBrackets(stack, stack')
  <2>1. ~InBracket(stack[m + 1]) /\ ~InBracket(stack'[m + 1]) /\ ~InBracket(stack'[m + 2])
    BY <1>1, <1>3, <1>8 DEF InBracket, Top
  <2>2. /\ \A i \in (m + 1)..(m + 1) : i = m + 1
        /\ \A i \in (m + 1)..(m + 2) : i = m + 1 \/ i = m + 2
    OBVIOUS
  <2>3. /\ \A i \in (m + 1)..Len(stack) : ~InBracket(stack[i])
        /\ \A i \in (m + 1)..Len(stack') : ~InBracket(stack'[i])
    BY <1>1, <2>1, <2>2
  <2>4. Len(stack) \in m..(m + 2) /\ Len(stack') \in m..(m + 2)
    BY <1>1
  <2>5. \A i \in 1..m : /\ stack'[i].rule = stack[i].rule /\ stack'[i].at = stack[i].at
                        /\ stack'[i].grp = stack[i].grp /\ stack'[i].node = stack[i].node
    BY <1>1
  <2>6. m \in Nat
    BY <1>1
  <2>7. QED
    BY <2>3, <2>4, <2>5, <2>6, BracketsStay
<1>9. /\ Top'.rule = alt.p /\ Top'.phase = "open" /\ Top'.grp = ""
      /\ alt.p = "atom" => Top'.node.kind = "undefined"
  BY <1>1, <1>3
<1>12. ~Pending'
  BY <1>9 DEF Pending, At
<1>10. Len(stack') = Len(stack) + 1 /\ stack'[Len(stack)] = g
       /\ \A i \in 1..(Len(stack) - 1) : stack'[i] = stack[i]
  BY <1>1
<1>11. QED
  BY <1>1, <1>2, <1>3, <1>4, <1>5, <1>6, <1>7, <1>8, <1>9, <1>10, <1>12

\* The bracket's kind and the child stay unless the action sets them.
LEMMA ActedParts ==
  ASSUME NEW f \in Frames, NEW a
  PROVE  LET g == Acted(f, a)
         IN  /\ a \in {"", "append"} => g = f
             /\ a \notin {"group", "opt"} => g.grp = f.grp
             /\ a \in {"group", "opt"} => g.grp = a /\ g.at = Consumed + 1
             /\ a \in {"term", "number", "prose", "ref"} => g.node.kind = a
             /\ a = "close" => g.node.kind = f.grp
BY DEF Acted, Frames, Nodes, Node

LEMMA AfterOpen ==
  ASSUME NEW n, Runs(n), NEW alt, alt = Alternatives[n], EndOpen(alt), Waiting
  PROVE  /\ Len(stack') = Len(stack) /\ Top'.rule = Top.rule /\ Top'.phase = "close"
         /\ Top'.grp = Acted(Top, alt.a).grp /\ Top'.node = Acted(Top, alt.a).node
         /\ Waiting' /\ status' = "run" /\ heap' = heap
         /\ ~InBracket(Top) /\ ~InBracket(Top') => SameBrackets(stack, stack')
<1>1. PICK g \in Frames, m \in Nat :
           /\ Len(stack) = m + 1
           /\ g.grp = Acted(Top, alt.a).grp /\ g.node = Acted(Top, alt.a).node
           /\ g.rule = Top.rule /\ g.phase = "close"
           /\ Len(stack') = m + 1 /\ stack'[m + 1] = g
           /\ \A i \in 1..m : stack'[i] = stack[i]
  BY EndOpenStep, Zenon DEF Runs, Held
<1>2. Top' = g /\ Top = stack[m + 1]
  BY <1>1 DEF Top
<1>3. Waiting'
  <2>1. \A i \in 1..m : stack[i].phase = "close"
    BY <1>1 DEF Waiting
  <2>2. \A i \in 1..m : stack'[i].phase = "close"
    BY <1>1, <2>1
  <2>3. QED
    BY <1>1, <2>2 DEF Waiting
<1>4. status' = "run" /\ heap' = heap
  BY DEF EndOpen, Runs
<1>5. ASSUME ~InBracket(Top), ~InBracket(Top')
      PROVE  SameBrackets(stack, stack')
  <2>1. ~InBracket(stack[m + 1]) /\ ~InBracket(stack'[m + 1])
    BY <1>1, <1>2, <1>5
  <2>2. \A i \in (m + 1)..(m + 1) : i = m + 1
    OBVIOUS
  <2>3. /\ \A i \in (m + 1)..Len(stack) : ~InBracket(stack[i])
        /\ \A i \in (m + 1)..Len(stack') : ~InBracket(stack'[i])
    BY <1>1, <2>1, <2>2
  <2>4. Len(stack) \in m..(m + 2) /\ Len(stack') \in m..(m + 2)
    BY <1>1
  <2>5. QED
    BY <1>1, <2>3, <2>4, BracketsStay
<1>6. QED
  BY <1>1, <1>2, <1>3, <1>4, <1>5

LEMMA AfterReplace ==
  ASSUME NEW n, Runs(n), NEW alt, alt = Alternatives[n], ReplaceRule(alt), Waiting
  PROVE  /\ Len(stack') = Len(stack) /\ Top'.rule = "prod" /\ Top'.phase = "open"
         /\ Waiting' /\ status' = "run" /\ heap' = heap
         /\ SameBrackets(stack, stack')
<1>1. PICK m \in Nat :
           /\ Len(stack) = m + 1 /\ Top.rule = "prod"
           /\ Len(stack') = m + 1
           /\ stack'[m + 1] = NewFrame("prod", Top.node)
           /\ \A i \in 1..m : stack'[i] = stack[i]
           /\ heap' = heap
  BY ReplaceStep, Zenon DEF Runs, Held
<1>2. Top' = NewFrame("prod", Top.node) /\ Top = stack[m + 1]
  BY <1>1 DEF Top
<1>3. Top'.rule = "prod" /\ Top'.phase = "open"
  BY <1>2 DEF NewFrame
<1>4. Waiting'
  <2>1. \A i \in 1..m : stack[i].phase = "close"
    BY <1>1 DEF Waiting
  <2>2. \A i \in 1..m : stack'[i].phase = "close"
    BY <1>1, <2>1
  <2>3. QED
    BY <1>1, <2>2 DEF Waiting
<1>5. status' = "run"
  BY DEF ReplaceRule, Runs
<1>6. SameBrackets(stack, stack')
  <2>1. ~InBracket(stack[m + 1]) /\ ~InBracket(stack'[m + 1])
    BY <1>1, <1>2, <1>3 DEF InBracket
  <2>2. \A i \in (m + 1)..(m + 1) : i = m + 1
    OBVIOUS
  <2>3. /\ \A i \in (m + 1)..Len(stack) : ~InBracket(stack[i])
        /\ \A i \in (m + 1)..Len(stack') : ~InBracket(stack'[i])
    BY <1>1, <2>1, <2>2
  <2>4. Len(stack) \in m..(m + 2) /\ Len(stack') \in m..(m + 2)
    BY <1>1
  <2>5. QED
    BY <1>1, <2>3, <2>4, BracketsStay
<1>7. QED
  BY <1>1, <1>3, <1>4, <1>5, <1>6

\* Only elem appends what may be a hole.
LEMMA HoleAfterBc ==
  ASSUME heap \in Seq(Seq(Nodes)), NEW g \in Frames,
         g.rule \in {"prod", "alts"} => g.node.ref \in DOMAIN heap,
         g.rule = "alts" => g.child.kind = "arr"
  PROVE  Hole(HeapAfterBc(g)) <=> Hole(heap)
<1>1. CASE g.child.kind = "undefined" \/ g.rule \notin {"prod", "alts"}
  BY <1>1 DEF HeapAfterBc
<1>2. CASE g.child.kind # "undefined" /\ g.rule = "prod"
  <2> DEFINE kind == IF g.incr THEN "incremental" ELSE "production"
             item == Node(kind, g.at, g.child.ref)
  <2>1. HeapAfterBc(g) = Appended(g.node, item)
    BY <1>2 DEF HeapAfterBc
  <2>2. kind \in NodeKinds /\ kind # "undefined"
    BY DEF NodeKinds
  <2>3. item \in Nodes /\ item.kind = kind
    <3>1. g.at \in Nat /\ g.child.ref \in Nat
      BY FrameParts
    <3> HIDE DEF kind
    <3>2. item \in Nodes
      BY <2>2, <3>1, NodeType
    <3>3. QED
      BY <3>2 DEF Node
  <2> HIDE DEF item
  <2>4. QED
    BY <1>2, <2>1, <2>2, <2>3, HoleAppended
<1>3. CASE g.child.kind # "undefined" /\ g.rule = "alts"
  <2>1. HeapAfterBc(g) = Appended(g.node, g.child)
    BY <1>3 DEF HeapAfterBc
  <2>2. g.child \in Nodes
    BY FrameParts
  <2>3. QED
    BY <1>3, <2>1, <2>2, HoleAppended
<1>4. QED
  BY <1>1, <1>2, <1>3

LEMMA AfterPop ==
  ASSUME NEW n, Runs(n), NEW alt, alt = Alternatives[n], PopRule(alt), Waiting
  PROVE  /\ Len(stack) > 1 /\ Len(stack') = Len(stack) - 1
         /\ Top'.rule = LevelRule(Len(stack) - 1) /\ Top'.phase = "close"
         /\ Top'.rule = "atom" => Top'.grp # ""
         /\ Top'.child = Acted(Top, alt.a).node
         /\ Waiting' /\ status' = "run"
         /\ Top.rule = "elem" => (HasHole' <=> HasHole \/ Top.child.kind = "undefined")
         /\ Top.rule # "elem" => (HasHole' <=> HasHole)
         /\ ~InBracket(Top) => SameBrackets(stack, stack')
         /\ \A i \in 1..(Len(stack) - 2) : stack'[i] = stack[i]
<1>1. PICK g \in Frames, m \in Nat :
           /\ Len(stack) = m + 2
           /\ g.child = Acted(Top, alt.a).node
           /\ g.grp = stack[m + 1].grp /\ g.at = stack[m + 1].at
           /\ heap' = IF alt.a = "append" THEN ElemAppends ELSE HeapAfterBc(g)
           /\ g.rule = stack[m + 1].rule /\ g.phase = stack[m + 1].phase
           /\ g.node = stack[m + 1].node
           /\ Len(stack') = m + 1 /\ stack'[m + 1] = g
           /\ \A i \in 1..m : stack'[i] = stack[i]
  BY PopStep, Zenon DEF Runs, Held
<1>2. Top' = g /\ Top = stack[m + 2]
  BY <1>1 DEF Top
<1>3. /\ Held /\ DOMAIN stack = 1..Len(stack) /\ Top \in Frames
      /\ heap \in Seq(Seq(Nodes)) /\ Top.rule = LevelRule(Len(stack))
  BY Sizes DEF Runs
<1>4. g.rule = LevelRule(m + 1) /\ (g.rule = "atom" => g.grp # "")
  <2>1. m + 1 \in DOMAIN stack /\ m + 1 < Len(stack)
    BY <1>1, <1>3
  <2>2. /\ stack[m + 1].rule = LevelRule(m + 1)
        /\ stack[m + 1].rule = "atom" => stack[m + 1].grp # ""
    BY <1>3, <2>1 DEF Held, FourLevelsPerBracket
  <2>3. QED
    BY <1>1, <2>2
<1>5. g.phase = "close" /\ Waiting'
  <2>1. \A i \in 1..(m + 1) : stack[i].phase = "close"
    BY <1>1 DEF Waiting
  <2>2. m + 1 \in 1..(m + 1) /\ \A i \in 1..m : i \in 1..(m + 1)
    BY <1>1
  <2>3. \A i \in 1..m : stack'[i].phase = "close"
    BY <1>1, <2>1, <2>2
  <2>4. g.phase = "close"
    BY <1>1, <2>1, <2>2
  <2>5. QED
    BY <1>1, <2>3, <2>4 DEF Waiting
<1>6. AltOK(Top.rule, Top.phase, alt) /\ Top.phase = "close" /\ status' = "run"
  BY Taken DEF Runs, Held, PopRule, Ends
<1>7. Top.rule = "elem" <=> alt.a = "append"
  BY <1>6 DEF AltOK
<1>8. ASSUME Top.rule = "elem"
      PROVE  HasHole' <=> HasHole \/ Top.child.kind = "undefined"
  <2> DEFINE item == [Top.child EXCEPT !.min = Top.min, !.max = Top.max]
  <2>1. heap' = Appended(Top.node, item)
    BY <1>1, <1>7, <1>8 DEF ElemAppends
  <2>2. item \in Nodes /\ item.kind = Top.child.kind
    BY <1>3, FrameParts DEF Nodes
  <2>3. Top.node.ref \in DOMAIN heap
    <3>1. m + 2 \in DOMAIN stack
      BY <1>1, <1>3
    <3>2. QED
      BY <1>2, <1>3, <1>8, <3>1 DEF Held, NodesInPlace
  <2> HIDE DEF item
  <2>4. Hole(heap') <=> Hole(heap) \/ item.kind = "undefined"
    BY <1>3, <2>1, <2>2, <2>3, HoleAppended
  <2>5. QED
    BY <2>2, <2>4 DEF Hole, HasHole
<1>9. ASSUME Top.rule # "elem"
      PROVE  HasHole' <=> HasHole
  <2>1. heap' = HeapAfterBc(g)
    BY <1>1, <1>7, <1>9
  <2>2. m + 1 \in DOMAIN stack /\ m + 2 \in DOMAIN stack
    BY <1>1, <1>3
  <2>3. g.rule \in {"prod", "alts"} => g.node.ref \in DOMAIN heap
    BY <1>1, <1>3, <2>2 DEF Held, NodesInPlace
  <2>4. g.rule = "alts" => g.child.kind = "arr"
    <3>1. SUFFICES ASSUME g.rule = "alts"
                   PROVE  g.child.kind = "arr"
      OBVIOUS
    <3>2. Top.rule = "seq"
      <4>1. LevelRule(m + 1 + 1) = ChildOf(LevelRule(m + 1)) /\ m + 1 + 1 = m + 2
        BY NextLevel
      <4>2. QED
        BY <1>1, <1>3, <1>4, <3>1, <4>1 DEF ChildOf
    <3>3. Acted(Top, alt.a) = Top
      <4>1. alt.a \in {""}
        <5>1. Settled(n) 
          BY Firing DEF PopRule, Ends
        <5>2. Does(alt, 0, "elem", "", "") \/ Does(alt, 0, "", "", "")
          BY <1>6, <3>2, <5>1, SeqCloseDoes
        <5>3. QED
          BY <5>2 DEF Does
      <4>2. QED
        BY <1>3, <4>1, ActedParts
    <3>4. Top.node.kind = "arr"
      BY <1>2, <1>3, <2>2, <3>2 DEF Held, NodesInPlace
    <3>5. QED
      BY <1>1, <3>3, <3>4
  <2>5. Hole(heap') <=> Hole(heap)
    BY <1>3, <2>1, <2>3, <2>4, HoleAfterBc
  <2>6. QED
    BY <2>5 DEF Hole, HasHole
<1>10. ASSUME ~InBracket(Top)
       PROVE  SameBrackets(stack, stack')
  <2>1. \A i \in 1..(m + 1) : i \in 1..m \/ i = m + 1
    BY <1>1
  <2>2. /\ \A i \in 1..(m + 1) : /\ stack'[i].rule = stack[i].rule
                                 /\ stack'[i].at = stack[i].at
                                 /\ stack'[i].grp = stack[i].grp
                                 /\ stack'[i].node = stack[i].node
    BY <1>1, <2>1
  <2>3. /\ \A i \in (m + 2)..Len(stack) : i = m + 2
        /\ \A i \in (m + 2)..Len(stack') : FALSE
    BY <1>1
  <2>4. \A i \in (m + 2)..Len(stack) : ~InBracket(stack[i])
    BY <1>2, <1>10, <2>3
  <2>5. PICK k \in Nat : k = m + 1 /\ k + 1 = m + 2
    BY <1>1
  <2>6. Len(stack) \in k..(k + 2) /\ Len(stack') \in k..(k + 2)
    BY <1>1, <2>5
  <2>7. \A i \in 1..k : /\ stack'[i].rule = stack[i].rule /\ stack'[i].at = stack[i].at
                        /\ stack'[i].grp = stack[i].grp /\ stack'[i].node = stack[i].node
    BY <2>2, <2>5
  <2>8. /\ \A i \in (k + 1)..Len(stack) : ~InBracket(stack[i])
        /\ \A i \in (k + 1)..Len(stack') : ~InBracket(stack'[i])
    BY <2>3, <2>4, <2>5
  <2>9. QED
    BY <2>6, <2>7, <2>8, BracketsStay
<1>11. Len(stack) > 1 /\ Len(stack') = Len(stack) - 1 /\ Len(stack) - 1 = m + 1
       /\ \A i \in 1..(Len(stack) - 2) : stack'[i] = stack[i]
  BY <1>1
<1>12. QED
  BY <1>1, <1>2, <1>4, <1>5, <1>6, <1>8, <1>9, <1>10, <1>11

-----------------------------------------------------------------------------
(* An alternative fires in a parse that has gone well so far.              *)

\* The next tokens are the next lexemes.
Exact == \A k \in 1..Len(la) : la[k] = Kind(Consumed + k)

Acts(alt) ==
  PushRule(alt) \/ EndOpen(alt) \/ ReplaceRule(alt) \/ PopRule(alt) \/ Accept(alt)

Live(n) == Runs(n) /\ ~Holed /\ Good /\ NoBad /\ Proper(input)

LEMMA AboveOne ==
  ASSUME NEW i \in Nat \ {0}, i > 1
  PROVE  i # 1
OBVIOUS

LEMMA Named ==
  /\ "prod" # "" /\ "alts" # "" /\ "seq" # "" /\ "elem" # "" /\ "atom" # ""
  /\ "open" # "close"
OBVIOUS

\* What an alternative does tells the action.
LEMMA ActsPush ==
  ASSUME NEW alt, Acts(alt), NEW k, NEW p, NEW a, Does(alt, k, p, "", a), p # ""
  PROVE  PushRule(alt) /\ Takes(alt) = k /\ alt.p = p /\ alt.a = a
<1>1. Takes(alt) = k /\ alt.p = p /\ alt.r = "" /\ alt.a = a
  BY DEF Does
<1>2. ~EndOpen(alt) /\ ~ReplaceRule(alt) /\ ~PopRule(alt) /\ ~Accept(alt)
  BY <1>1, Zenon DEF EndOpen, ReplaceRule, PopRule, Accept, Ends
<1>3. QED
  BY <1>1, <1>2, Zenon DEF Acts

LEMMA ActsOpen ==
  ASSUME NEW alt, Acts(alt), NEW k, NEW a, Does(alt, k, "", "", a), Top.phase = "open"
  PROVE  EndOpen(alt) /\ Takes(alt) = k /\ alt.a = a
<1>1. Takes(alt) = k /\ alt.p = "" /\ alt.r = "" /\ alt.a = a
  BY DEF Does
<1>2. ~PushRule(alt) /\ ~ReplaceRule(alt)
  BY <1>1, Zenon DEF PushRule, ReplaceRule
<1>3. ~PopRule(alt) /\ ~Accept(alt)
  BY Named, Zenon DEF PopRule, Accept, Ends
<1>4. QED
  BY <1>1, <1>2, <1>3, Zenon DEF Acts

LEMMA ActsReplace ==
  ASSUME NEW alt, Acts(alt), NEW k, NEW r, NEW a, Does(alt, k, "", r, a), r # "",
         Top.phase = "close"
  PROVE  ReplaceRule(alt) /\ Takes(alt) = k /\ alt.a = a
<1>1. Takes(alt) = k /\ alt.p = "" /\ alt.r = r /\ alt.a = a
  BY DEF Does
<1>2. ~PushRule(alt) /\ ~PopRule(alt) /\ ~Accept(alt)
  BY <1>1, Zenon DEF PushRule, PopRule, Accept, Ends
<1>3. ~EndOpen(alt)
  BY Named, Zenon DEF EndOpen
<1>4. QED
  BY <1>1, <1>2, <1>3, Zenon DEF Acts

LEMMA ActsEnd ==
  ASSUME NEW alt, Acts(alt), NEW k, NEW a, Does(alt, k, "", "", a), Top.phase = "close",
         Len(stack) \in Nat \ {0}
  PROVE  /\ Takes(alt) = k /\ alt.a = a
         /\ Len(stack) # 1 => PopRule(alt)
         /\ Len(stack) = 1 => Accept(alt)
<1>1. Takes(alt) = k /\ alt.p = "" /\ alt.r = "" /\ alt.a = a
  BY DEF Does
<1>2. ~PushRule(alt) /\ ~ReplaceRule(alt)
  BY <1>1, Zenon DEF PushRule, ReplaceRule
<1>3. ~EndOpen(alt)
  BY Named, Zenon DEF EndOpen
<1>4. PopRule(alt) => Len(stack) # 1
  BY AboveOne, Zenon DEF PopRule
<1>5. Accept(alt) => Len(stack) = 1
  BY Zenon DEF Accept
<1>6. QED
  BY <1>1, <1>2, <1>3, <1>4, <1>5, Zenon DEF Acts

LEMMA ExactBut ==
  ASSUME Accurate, Consumed # 0,
         ~At("elem", "open") \/ ~(Len(la) >= 4 /\ la[1] = "NUM" /\ la[2] = "STAR" /\ la[3] = "NUM"),
         Len(la) \in Nat
  PROVE  Exact
<1>1. SUFFICES ASSUME NEW k \in 1..Len(la)
               PROVE  la[k] = Kind(Consumed + k)
  BY DEF Exact
<1>2. \/ la[k] = Kind(Consumed + k)
      \/ k = 4 /\ At("elem", "open") /\ la[1] = "NUM" /\ la[2] = "STAR" /\ la[3] = "NUM"
  BY DEF Accurate
<1>3. k = 4 => Len(la) >= 4
  OBVIOUS
<1>4. QED
  BY <1>2, <1>3

LEMMA ExactFires ==
  ASSUME NEW n, Runs(n), NEW alt, alt = Alternatives[n], Fires(alt), Exact
  PROVE  Exact'
<1>1. /\ Takes(alt) \in Nat /\ Takes(alt) <= Len(la) /\ input' = input
      /\ Len(la') = Len(la) - Takes(alt)
      /\ \A j \in 1..Len(la') : la'[j] = la[j + Takes(alt)]
      /\ Consumed' = Consumed + Takes(alt)
  BY Firing
<1>2. Len(la) \in Nat /\ Consumed \in Nat
  BY Sizes DEF Runs
<1>3. ASSUME NEW j \in 1..Len(la')
      PROVE  la'[j] = KindAt(input', Consumed' + j)
  <2>1. PICK k \in 1..Len(la) : k = j + Takes(alt)
    BY <1>1, <1>2
  <2>2. la[k] = Kind(Consumed + k)
    BY DEF Exact
  <2>3. Consumed + k = Consumed' + j /\ la'[j] = la[k]
    BY <1>1, <1>2, <2>1
  <2>4. QED
    BY <1>1, <2>2, <2>3 DEF Kind
<1>4. QED
  BY <1>3 DEF Exact, Kind

\* The token that is consumed is the next lexeme.
LEMMA NextKind ==
  ASSUME Exact, Len(la) \in Nat, NEW k \in 1..Len(la)
  PROVE  KindAt(input, Consumed + k) = la[k]
BY DEF Exact, Kind

LEMMA MakesNest ==
  ASSUME Waiting', Nested(input', Consumed', stack'), Depth(input', Consumed') = Unclosed'
  PROVE  Nest'
BY DEF Nest

LEMMA MakesGood ==
  ASSUME Exact', Consumed' # 0, Shape', Waiting', input' = input,
         Nested(input, Consumed', stack'), Sounded(input, Consumed', stack'),
         Depth(input, Consumed') = Unclosed'
  PROVE  Good'
<1>1. Accurate'
  BY DEF Accurate, Exact
<1>2. QED
  BY <1>1 DEF Good, Nest

LEMMA KeepsReading ==
  ASSUME Good', ~HasHole', ~Pending'
  PROVE  Reading'
BY DEF Reading, Holed

\* A step that consumes nothing and moves no bracket.
LEMMA StaysGood ==
  ASSUME Good, Exact, Consumed # 0, Exact', Consumed' = Consumed, input' = input,
         SameBrackets(stack, stack'), Unclosed' = Unclosed, Shape', Waiting'
  PROVE  Good'
<1>1. Nested(input, Consumed, stack') /\ Sounded(input, Consumed, stack')
  BY SameNested, SameSounded DEF Good, Nest
<1>2. QED
  BY <1>1, MakesGood DEF Good, Nest

LEMMA ActsFires ==
  ASSUME NEW alt, Acts(alt)
  PROVE  Fires(alt)
BY DEF Acts, PushRule, EndOpen, ReplaceRule, PopRule, Accept, Ends

\* What the invariant gives a step to work with.
LEMMA LiveFacts ==
  ASSUME NEW n, Live(n)
  PROVE  /\ Runs(n) /\ Held /\ status = "run" /\ Good /\ Accurate /\ Shape /\ Waiting /\ ~HasHole
         /\ ~Pending
         /\ Nested(input, Consumed, stack) /\ Sounded(input, Consumed, stack)
         /\ Depth(input, Consumed) = Unclosed
         /\ Kind(Consumed) \in Counts => At("atom", "open")
         /\ Consumed = 0 => At("abnf", "open") \/ At("prod", "open")
BY DEF Live, Good, Nest, Holed, Shape, Runs

LEMMA AbnfOpenReads ==
  ASSUME NEW n, Live(n), NEW alt, alt = Alternatives[n], Acts(alt), At("abnf", "open")
  PROVE  Reading'
<1>1. /\ Len(stack) \in Nat \ {0} /\ Len(la) \in Nat /\ Consumed \in Nat
      /\ input \in Seq(Lexemes) /\ Top.rule = LevelRule(Len(stack))
  BY LiveFacts, Sizes
<1>2. /\ Runs(n) /\ Waiting /\ Accurate /\ ~HasHole /\ Consumed = 0 /\ heap = << <<>> >>
      /\ Nested(input, Consumed, stack) /\ Sounded(input, Consumed, stack)
  BY LiveFacts DEF Shape
<1>3. /\ Settled(n) /\ input' = input /\ Len(la') = Len(la) - Takes(alt)
      /\ \A j \in 1..Len(la') : la'[j] = la[j + Takes(alt)]
      /\ Consumed' = Consumed + Takes(alt)
  BY <1>2, ActsFires, Firing, Zenon
<1>4. Top.rule = "abnf" /\ Top.phase = "open" /\ Len(stack) = 1
  BY <1>1, Levels DEF At
<1>5. Does(alt, 0, "prod", "", "") \/ Does(alt, 1, "", "", "")
  BY <1>3, <1>4, AbnfOpenDoes, Zenon
<1>6. CASE Does(alt, 0, "prod", "", "")
  <2>1. PushRule(alt) /\ Takes(alt) = 0 /\ alt.p = "prod"
    BY <1>6, Named, ActsPush, Zenon
  <2>2. /\ Len(stack') = Len(stack) + 1 /\ Top'.rule = alt.p /\ Top'.phase = "open"
        /\ Waiting' /\ ~Pending' /\ (HasHole' <=> HasHole)
        /\ SameBrackets(stack, stack')
    BY <1>2, <1>4, <2>1, AfterPush, Zenon
  <2>3. Consumed' = 0 /\ Len(la') = Len(la) /\ \A j \in 1..Len(la) : la'[j] = la[j]
    BY <1>1, <1>2, <1>3, <2>1
  <2>4. Accurate'
    BY <1>1, <1>2, <1>3, <2>3 DEF Accurate, Kind
  <2>5. Shape'
    <3>1. Kind(Consumed)' = ""
      <4>1. DOMAIN input = 1..Len(input) /\ Len(input) \in Nat
        BY <1>1, LenProperties
      <4>3. 0 \notin DOMAIN input
        BY <4>1
      <4>2. QED
        BY <1>3, <2>3, <4>3 DEF Kind, KindAt
    <3>2. Kind(Consumed)' \notin Counts
      BY <3>1 DEF Counts
    <3>3. QED
      BY <2>1, <2>2, <2>3, <3>2 DEF Shape, At
  <2>6. Nest'
    <3>1. Depth(input', Consumed') = 0
      BY <1>1, <1>3, <2>3, DepthStep
    <3>2. Unclosed' = 0
      BY <1>4, <2>1, <2>2 DEF Unclosed, Level
    <3>3. Nested(input', Consumed', stack')
      BY <1>2, <1>3, <2>2, <2>3, SameNested, Zenon
    <3>4. QED
      BY <2>2, <3>1, <3>2, <3>3, MakesNest, Zenon
  <2>7. Sounded(input', Consumed', stack')
    BY <1>2, <1>3, <2>2, <2>3, SameSounded, Zenon
  <2>8. QED
    <3>1. Good'
      BY <2>4, <2>5, <2>6, <2>7 DEF Good
    <3>2. QED
      BY <1>2, <2>2, <3>1, KeepsReading, Zenon
<1>7. CASE Does(alt, 1, "", "", "")
  <2>1. EndOpen(alt) /\ Takes(alt) = 1
    BY <1>4, <1>7, ActsOpen, Zenon
  <2>2. Top'.rule = Top.rule /\ Top'.phase = "close" /\ heap' = heap
    BY <1>2, <2>1, AfterOpen, Zenon
  <2>3. Consumed' = 1
    BY <1>2, <1>3, <2>1
  <2>4. QED
    BY <1>2, <1>4, <2>2, <2>3 DEF Reading, Empty, At
<1>8. QED
  BY <1>5, <1>6, <1>7

LEMMA PushLevel ==
  ASSUME NEW size \in Nat \ {0}, LevelRule(size) # "atom"
  PROVE  Level(size + 1, FALSE) = Level(size, FALSE)
BY DEF LevelRule, Level

LEMMA PopLevel ==
  ASSUME NEW size \in Nat \ {0}, size > 1
  PROVE  /\ LevelRule(size - 1) = "atom" => Level(size - 1, TRUE) = Level(size, FALSE)
         /\ LevelRule(size - 1) # "atom" => Level(size - 1, FALSE) = Level(size, FALSE)
BY DEF LevelRule, Level

LEMMA BracketPhase ==
  ASSUME NEW f
  PROVE  /\ InBracket(f) \in BOOLEAN
         /\ f.rule # "atom" => ~InBracket(f)
         /\ f.grp = "" => ~InBracket(f)
         /\ f.rule = "atom" /\ f.grp # "" => InBracket(f)
BY DEF InBracket

\* A child is pushed and nothing is consumed.
LEMMA QuietPush ==
  ASSUME NEW n, Live(n), NEW alt, alt = Alternatives[n], PushRule(alt), Takes(alt) = 0,
         Consumed # 0, Exact, Top.rule # "atom", Shape'
  PROVE  Reading'
<1>1. /\ Len(stack) \in Nat \ {0} /\ Len(la) \in Nat /\ Consumed \in Nat
      /\ Top.rule = LevelRule(Len(stack))
  BY LiveFacts, Sizes
<1>2. Runs(n) /\ Waiting /\ ~HasHole /\ Good
  BY LiveFacts
<1>3. Fires(alt)
  BY DEF PushRule
<1>4. input' = input /\ Consumed' = Consumed + Takes(alt)
  BY <1>2, <1>3, Firing, Zenon
<1>5. Consumed' = Consumed
  BY <1>1, <1>4
<1>6. /\ Len(stack') = Len(stack) + 1 /\ Top'.grp = ""
      /\ Waiting' /\ ~Pending' /\ (HasHole' <=> HasHole)
      /\ SameBrackets(stack, stack')
  BY <1>2, AfterPush, Zenon
<1>7. Unclosed' = Unclosed
  <2>1. ~InBracket(Top) /\ ~InBracket(Top')
    BY <1>6, BracketPhase, Zenon
  <2>2. Level(Len(stack) + 1, FALSE) = Level(Len(stack), FALSE)
    BY <1>1, PushLevel
  <2>3. InBracket(Top) = FALSE /\ InBracket(Top') = FALSE
    BY <2>1, BracketPhase
  <2>4. QED
    BY <1>6, <2>2, <2>3, Zenon DEF Unclosed
<1>8. Exact'
  BY <1>2, <1>3, ExactFires, Zenon
<1>9. Good'
  BY <1>2, <1>4, <1>5, <1>6, <1>7, <1>8, StaysGood, Zenon
<1>10. QED
  BY <1>2, <1>6, <1>9, KeepsReading, Zenon

\* A frame that is no bracket ends and nothing is consumed.
LEMMA QuietPop ==
  ASSUME NEW n, Live(n), NEW alt, alt = Alternatives[n], PopRule(alt), Takes(alt) = 0,
         Consumed # 0, Exact, ~InBracket(Top), ~Pending', Shape'
  PROVE  Reading'
<1>1. /\ Len(stack) \in Nat \ {0} /\ Len(la) \in Nat /\ Consumed \in Nat
      /\ Top.rule = LevelRule(Len(stack)) /\ Top.phase \in {"open", "close"}
  BY LiveFacts, Sizes
<1>2. Runs(n) /\ Waiting /\ ~HasHole /\ Good /\ ~Pending
  BY LiveFacts
<1>3. Fires(alt) /\ Top.phase = "close"
  BY DEF PopRule, Ends
<1>4. input' = input /\ Consumed' = Consumed + Takes(alt)
  BY <1>2, <1>3, Firing, Zenon
<1>5. Consumed' = Consumed
  BY <1>1, <1>4
<1>6. /\ Len(stack) > 1 /\ Len(stack') = Len(stack) - 1
      /\ Top'.rule = LevelRule(Len(stack) - 1)
      /\ Top'.rule = "atom" => Top'.grp # ""
      /\ Waiting'
      /\ Top.rule = "elem" => (HasHole' <=> HasHole \/ Top.child.kind = "undefined")
      /\ Top.rule # "elem" => (HasHole' <=> HasHole)
      /\ SameBrackets(stack, stack')
  BY <1>2, AfterPop, Zenon
<1>7. Unclosed' = Unclosed
  <2>1. InBracket(Top) = FALSE
    BY BracketPhase
  <2>2. CASE Top'.rule = "atom"
    <3>1. InBracket(Top') = TRUE
      BY <1>6, <2>2, BracketPhase
    <3>2. Level(Len(stack) - 1, TRUE) = Level(Len(stack), FALSE)
      BY <1>1, <1>6, <2>2, PopLevel
    <3>3. QED
      BY <1>6, <2>1, <3>1, <3>2, Zenon DEF Unclosed
  <2>3. CASE Top'.rule # "atom"
    <3>1. InBracket(Top') = FALSE
      BY <2>3, BracketPhase
    <3>2. Level(Len(stack) - 1, FALSE) = Level(Len(stack), FALSE)
      BY <1>1, <1>6, <2>3, PopLevel
    <3>3. QED
      BY <1>6, <2>1, <3>1, <3>2, Zenon DEF Unclosed
  <2>4. QED
    BY <2>2, <2>3
<1>8. Exact'
  BY <1>2, <1>3, ExactFires, Zenon
<1>9. Good'
  BY <1>2, <1>4, <1>5, <1>6, <1>7, <1>8, StaysGood, Zenon
<1>10. ~HasHole'
  BY <1>2, <1>3, <1>6, Zenon DEF Pending, At
<1>11. QED
  BY <1>9, <1>10, KeepsReading, Zenon

\* What each rule relies on when it comes to run.
LEMMA PlainShape ==
  ASSUME Consumed' # 0, KindAt(input', Consumed') \notin Counts,
         \/ Top'.rule = "alts" /\ Top'.phase = "open"
         \/ Top'.rule = "seq"
         \/ Top'.rule = "elem" /\ Top'.phase = "close"
  PROVE  Shape'
BY DEF Shape, At, Kind

LEMMA StoppedShape ==
  ASSUME Consumed' # 0, KindAt(input', Consumed') \notin Counts, Stopped(la'), Len(la') \in Nat,
         \/ Top'.rule \in {"abnf", "prod", "alts"} /\ Top'.phase = "close"
         \/ Top'.rule = "atom" /\ Top'.phase = "close" /\ Top'.grp # "" /\ la'[1] # "ALT"
  PROVE  Shape'
<1>1. Len(la') >= 1
  BY DEF Stopped
<1>2. QED
  BY <1>1 DEF Shape, At, Kind

LEMMA LevelOne ==
  ASSUME NEW size \in Nat \ {0}
  PROVE  size = 1 <=> LevelRule(size) = "abnf"
BY DEF LevelRule

LEMMA AltsOpenReads ==
  ASSUME NEW n, Live(n), NEW alt, alt = Alternatives[n], Acts(alt), At("alts", "open")
  PROVE  Reading'
<1>1. Len(la) \in Nat /\ Consumed \in Nat
  BY LiveFacts, Sizes
<1>2. Runs(n) /\ Waiting /\ Accurate /\ Consumed # 0 /\ Kind(Consumed) \notin Counts
      /\ Top.rule = "alts" /\ Top.phase = "open" /\ ~At("elem", "open")
  BY LiveFacts DEF At
<1>3. Exact
  BY <1>1, <1>2, ExactBut
<1>4. Settled(n) /\ input' = input /\ Consumed' = Consumed + Takes(alt)
  BY <1>2, ActsFires, Firing, Zenon
<1>5. Does(alt, 0, "seq", "", "")
  BY <1>2, <1>4, AltsOpenDoes, Zenon
<1>6. PushRule(alt) /\ Takes(alt) = 0 /\ alt.p = "seq"
  BY <1>5, Named, ActsPush, Zenon
<1>7. Top'.rule = alt.p /\ Top'.phase = "open"
  BY <1>2, <1>6, AfterPush, Zenon
<1>8. Consumed' = Consumed
  BY <1>1, <1>4, <1>6
<1>9. Shape'
  BY <1>2, <1>4, <1>6, <1>7, <1>8, PlainShape, Zenon DEF Kind
<1>10. Top.rule # "atom"
  BY <1>2
<1>11. QED
  BY <1>2, <1>3, <1>6, <1>9, <1>10, QuietPush, Zenon

\* A lexeme that is neither bracket nor name, nor a count's.
LEMMA ReadsOne ==
  ASSUME NEW n, Live(n), Exact, Consumed # 0, Len(la) >= 1,
         la[1] \in {"ALT", "ST", "SS", "SI", "NV", "TX", "PV"} \union Counts,
         la[1] = "NV" => input[Consumed + 1].val # Fault,
         Kind(Consumed) \in Counts => la[1] \in Counts \union Starters,
         la[1] \in Starters => PrefixFits(input, Consumed + 1),
         ~IsHeader(input, Consumed + 1)
  PROVE  /\ Nested(input, Consumed + 1, stack) /\ Sounded(input, Consumed + 1, stack)
         /\ Depth(input, Consumed + 1) = Depth(input, Consumed)
         /\ KindAt(input, Consumed + 1) = la[1]
<1>1. /\ Len(stack) \in Nat /\ Len(la) \in Nat /\ Consumed \in Nat \ {0}
      /\ input \in Seq(Lexemes)
  BY LiveFacts, Sizes
<1>2. /\ Nested(input, Consumed, stack) /\ Sounded(input, Consumed, stack)
      /\ Depth(input, Consumed) = Unclosed
  BY LiveFacts
<1>3. KindAt(input, Consumed + 1) = la[1]
  BY <1>1, NextKind
<1>4. Depth(input, Consumed) >= 0
  <2>1. Unclosed >= 0
    BY <1>1 DEF Unclosed, Level
  <2>2. QED
    BY <1>2, <2>1
<1>5. KindAt(input, Consumed + 1) \notin {"BD", "LP", "OB", "RP", "CB"} \union Defines
  BY <1>3 DEF Defines, Counts
<1>6. Consumed + 1 \in Elements(input) => PrefixFits(input, Consumed + 1)
  <2>1. Consumed + 1 \in Elements(input) => KindAt(input, Consumed + 1) \in Starters
    BY <1>1, KindsAt, Zenon
  <2>2. QED
    BY <1>3, <2>1, Zenon
<1>7. KindAt(input, Consumed) \in Counts
        => KindAt(input, Consumed + 1) \in Counts \union Starters
  BY <1>3 DEF Kind
<1>8. KindAt(input, Consumed + 1) = "NV" => input[Consumed + 1].val # Fault
  BY <1>3
<1>9. QED
  BY <1>1, <1>2, <1>3, <1>4, <1>5, <1>6, <1>7, <1>8, ReadPlain

LEMMA AltsCloseReads ==
  ASSUME NEW n, Live(n), NEW alt, alt = Alternatives[n], Acts(alt), At("alts", "close")
  PROVE  Reading'
<1>1. /\ Len(la) \in Nat /\ Consumed \in Nat /\ Len(stack) \in Nat \ {0}
      /\ Top.rule = LevelRule(Len(stack)) /\ input \in Seq(Lexemes)
  BY LiveFacts, Sizes
<1>2. /\ Runs(n) /\ Waiting /\ Accurate /\ Consumed # 0 /\ Kind(Consumed) \notin Counts
      /\ Top.rule = "alts" /\ Top.phase = "close" /\ ~At("elem", "open") /\ Stopped(la)
      /\ ~HasHole
  BY LiveFacts DEF At, Shape
<1>3. Exact
  BY <1>1, <1>2, ExactBut
<1>4. /\ Settled(n) /\ input' = input /\ Consumed' = Consumed + Takes(alt)
      /\ Len(la') = Len(la) - Takes(alt)
      /\ \A j \in 1..Len(la') : la'[j] = la[j + Takes(alt)]
  BY <1>2, ActsFires, Firing, Zenon
<1>5. Len(la) >= 1
  BY <1>2, <1>4, AltsCloseDoes, Zenon
<1>9. \/ Does(alt, 1, "seq", "", "") /\ la[1] = "ALT"
      \/ Does(alt, 0, "", "", "") /\ la[1] # "ALT"
  BY <1>2, <1>4, AltsCloseDoes, Zenon
<1>10. Top.rule # "atom" /\ Len(stack) # 1
  <2>1. Top.rule = "alts"
    BY <1>2
  <2>2. QED
    BY <1>1, <2>1, LevelOne
<1>6. ASSUME Does(alt, 1, "seq", "", ""), la[1] = "ALT"
      PROVE  Reading'
  <2>1. PushRule(alt) /\ Takes(alt) = 1 /\ alt.p = "seq"
    BY <1>6, Named, ActsPush, Zenon
  <2>2. /\ Top'.rule = alt.p /\ Top'.phase = "open" /\ Waiting' /\ ~Pending'
        /\ Len(stack') = Len(stack) + 1 /\ Top'.grp = ""
        /\ (HasHole' <=> HasHole) /\ SameBrackets(stack, stack')
    BY <1>2, <1>10, <2>1, AfterPush, Zenon
  <2>3. Consumed' = Consumed + 1 /\ Consumed' # 0
    BY <1>1, <1>4, <2>1
  <2>4. ~IsHeader(input, Consumed + 1) /\ la[1] \notin Starters
    <3>1. 1 \in 1..Len(la) /\ Consumed + 1 \in Int
      BY <1>1, <1>5
    <3>2. KindAt(input, Consumed + 1) = la[1]
      BY <1>1, <1>3, <3>1, NextKind, Zenon
    <3>3. la[1] \notin {"TX", "PV", "NV"} /\ la[1] \notin Starters
      BY <1>6 DEF Starters
    <3>4. QED
      BY <3>1, <3>2, <3>3, NotHeader, Zenon
  <2>5. /\ Nested(input, Consumed', stack) /\ Sounded(input, Consumed', stack)
        /\ Depth(input, Consumed') = Depth(input, Consumed)
        /\ KindAt(input, Consumed') = la[1]
    <3>1. la[1] \in {"ALT", "ST", "SS", "SI", "NV", "TX", "PV"} \union Counts /\ la[1] # "NV"
      BY <1>6
    <3>2. QED
      BY <1>2, <1>3, <1>5, <2>3, <2>4, <3>1, ReadsOne, Zenon
  <2>6. Nested(input, Consumed', stack') /\ Sounded(input, Consumed', stack')
    BY <2>2, <2>5, SameNested, SameSounded, Zenon
  <2>7. Depth(input, Consumed') = Unclosed'
    <3>1. InBracket(Top) = FALSE /\ InBracket(Top') = FALSE
      BY <1>10, <2>2, BracketPhase
    <3>2. Level(Len(stack) + 1, FALSE) = Level(Len(stack), FALSE)
      BY <1>1, <1>10, PushLevel, Zenon
    <3>3. QED
      BY <2>2, <2>5, <3>1, <3>2, LiveFacts, Zenon DEF Unclosed
  <2>8. KindAt(input', Consumed') \notin Counts
    BY <1>4, <1>6, <2>5 DEF Counts
  <2>9. Shape'
    BY <2>1, <2>2, <2>3, <2>8, PlainShape, Zenon
  <2>10. Good'
    BY <1>2, <1>3, <1>4, <2>2, <2>3, <2>6, <2>7, <2>9, ActsFires, ExactFires, MakesGood, Zenon
  <2>11. QED
    BY <1>2, <2>2, <2>10, KeepsReading, Zenon
<1>7. ASSUME Does(alt, 0, "", "", ""), la[1] # "ALT"
      PROVE  Reading'
  <2>1. PopRule(alt) /\ Takes(alt) = 0
    BY <1>1, <1>2, <1>7, <1>10, ActsEnd, Zenon
  <2>2. /\ Top'.rule = LevelRule(Len(stack) - 1) /\ Top'.phase = "close" /\ Len(stack) > 1
        /\ Top'.rule = "atom" => Top'.grp # ""
    BY <1>2, <2>1, AfterPop, Zenon
  <2>3. Top'.rule = "atom" \/ Top'.rule = "prod"
    BY <1>1, <1>2, <2>2, LevelParents
  <2>4. Consumed' = Consumed /\ Len(la') = Len(la) /\ \A j \in 1..Len(la) : la'[j] = la[j]
    BY <1>1, <1>4, <2>1
  <2>5. Stopped(la') /\ la'[1] # "ALT" /\ Len(la') \in Nat
    <3>1. Stopped(la)
      BY <1>2
    <3>2. la[1] # "ALT"
      BY <1>7, Zenon
    <3>3. QED
      BY <1>1, <1>5, <2>4, <3>1, <3>2 DEF Stopped, HeaderNext
  <2>6. Shape'
    BY <1>2, <1>4, <2>2, <2>3, <2>4, <2>5, StoppedShape, Zenon DEF Kind
  <2>7. ~InBracket(Top) /\ ~Pending'
    BY <1>10, <2>3, BracketPhase DEF Pending, At
  <2>8. QED
    BY <1>2, <1>3, <2>1, <2>6, <2>7, QuietPop, Zenon
<1>8. QED
  BY <1>6, <1>7, <1>9, Zenon

LEMMA OpenShape ==
  ASSUME Consumed' # 0, KindAt(input', Consumed') \notin Counts, Len(la') >= 1,
         Top'.rule = "elem", Top'.phase = "open"
  PROVE  Shape'
BY DEF Shape, At, Kind

\* The tokens that are left when none is consumed.
LEMMA SameTokens ==
  ASSUME NEW n, Runs(n), NEW alt, alt = Alternatives[n], Fires(alt), Takes(alt) = 0
  PROVE  /\ Consumed' = Consumed /\ input' = input /\ Len(la') = Len(la) /\ Len(la') \in Nat
         /\ \A j \in 1..Len(la) : la'[j] = la[j]
         /\ Stopped(la) => Stopped(la')
         /\ HeaderNext(la) => HeaderNext(la')
         /\ Len(la) >= 1 => Len(la') >= 1 /\ la'[1] = la[1]
<1>1. /\ input' = input /\ Len(la') = Len(la) - Takes(alt)
      /\ \A j \in 1..Len(la') : la'[j] = la[j + Takes(alt)]
      /\ Consumed' = Consumed + Takes(alt)
  BY Firing
<1>2. Len(la) \in Nat /\ Consumed \in Nat
  BY Sizes DEF Runs
<1>3. /\ Consumed' = Consumed /\ Len(la') = Len(la)
      /\ \A j \in 1..Len(la) : la'[j] = la[j]
  BY <1>1, <1>2
<1>4. Len(la) >= 1 => Len(la') >= 1 /\ la'[1] = la[1]
  BY <1>2, <1>3
<1>5. HeaderNext(la) => HeaderNext(la')
  BY <1>2, <1>3 DEF HeaderNext
<1>6. Stopped(la) => Stopped(la')
  BY <1>4, <1>5 DEF Stopped
<1>7. QED
  BY <1>1, <1>2, <1>3, <1>4, <1>5, <1>6

\* The parse comes to a token that no alternative takes.
LEMMA ComesToNever ==
  ASSUME Len(la') >= 1, la'[1] \in Never
  PROVE  Reading'
BY DEF Reading, Stuck

\* A frame's open phase ends without a child and nothing is consumed.
LEMMA QuietOpen ==
  ASSUME NEW n, Live(n), NEW alt, alt = Alternatives[n], EndOpen(alt), Takes(alt) = 0,
         Consumed # 0, Exact, Top.rule # "atom", ~Pending', Shape'
  PROVE  Reading'
<1>1. Runs(n) /\ Waiting /\ ~HasHole /\ Good /\ Fires(alt)
  BY LiveFacts DEF EndOpen
<1>2. input' = input /\ Consumed' = Consumed
  BY <1>1, SameTokens, Zenon
<1>3. /\ Len(stack') = Len(stack) /\ Top'.rule = Top.rule
      /\ Waiting' /\ heap' = heap
      /\ ~InBracket(Top) /\ ~InBracket(Top') => SameBrackets(stack, stack')
  BY <1>1, AfterOpen, Zenon
<1>4. ~InBracket(Top) /\ ~InBracket(Top')
  BY <1>3, BracketPhase, Zenon
<1>5. Unclosed' = Unclosed
  <2>1. InBracket(Top) = FALSE /\ InBracket(Top') = FALSE
    BY <1>4, BracketPhase
  <2>2. QED
    BY <1>3, <2>1, Zenon DEF Unclosed
<1>6. Exact'
  BY <1>1, ExactFires, Zenon
<1>7. Good'
  BY <1>1, <1>2, <1>3, <1>4, <1>5, <1>6, StaysGood, Zenon
<1>8. ~HasHole'
  BY <1>1, <1>3, Zenon DEF HasHole
<1>9. QED
  BY <1>7, <1>8, KeepsReading, Zenon

LEMMA SeqReads ==
  ASSUME NEW n, Live(n), NEW alt, alt = Alternatives[n], Acts(alt), Top.rule = "seq"
  PROVE  Reading'
<1>1. /\ Len(la) \in Nat /\ Consumed \in Nat /\ Len(stack) \in Nat \ {0}
      /\ Top.rule = LevelRule(Len(stack)) /\ Top.phase \in {"open", "close"}
  BY LiveFacts, Sizes
<1>2. /\ Runs(n) /\ Waiting /\ Accurate /\ Consumed # 0 /\ Kind(Consumed) \notin Counts
      /\ ~At("elem", "open") /\ status = "run"
  BY LiveFacts DEF At
<1>3. Exact
  BY <1>1, <1>2, ExactBut
<1>4. Settled(n) /\ Fires(alt)
  BY <1>2, ActsFires, Firing, Zenon
<1>0. Top.phase = "open" \/ Top.phase = "close"
  BY <1>1
<1>5. Len(la) >= 1
  BY <1>0, <1>4, SeqOpenDoes, SeqCloseDoes, Zenon
<1>10. 1 \in 1..Len(la)
  BY <1>1, <1>5
<1>9. \/ Does(alt, 0, "elem", "", "")
      \/ Does(alt, 0, "", "", "") /\ (Stopped(la) \/ la[1] \in Never \union {"BD"})
  BY <1>0, <1>4, SeqOpenDoes, SeqCloseDoes, Zenon
<1>6. Top.rule # "atom" /\ Len(stack) # 1 /\ Top.rule # "elem"
  BY <1>1, LevelOne
<1>7. ASSUME Does(alt, 0, "elem", "", "")
      PROVE  Reading'
  <2>1. PushRule(alt) /\ Takes(alt) = 0 /\ alt.p = "elem"
    BY <1>7, Named, ActsPush, Zenon
  <2>2. Top'.rule = alt.p /\ Top'.phase = "open"
    BY <1>2, <2>1, AfterPush, Zenon
  <2>3. Consumed' = Consumed /\ input' = input /\ Len(la') >= 1
    BY <1>2, <1>4, <1>5, <2>1, SameTokens, Zenon
  <2>4. Shape'
    BY <1>2, <2>1, <2>2, <2>3, OpenShape, Zenon DEF Kind
  <2>5. QED
    BY <1>2, <1>3, <1>6, <2>1, <2>4, QuietPush, Zenon
<1>8. ASSUME Does(alt, 0, "", "", ""), Stopped(la) \/ la[1] \in Never \union {"BD"}
      PROVE  Reading'
  <2>1. Takes(alt) = 0 /\ alt.p = "" /\ alt.r = "" /\ alt.a = ""
    BY <1>8 DEF Does
  <2>2. /\ Consumed' = Consumed /\ input' = input /\ Len(la') >= 1 /\ la'[1] = la[1]
        /\ Len(la') \in Nat /\ (Stopped(la) => Stopped(la'))
    BY <1>2, <1>4, <1>5, <2>1, SameTokens, Zenon
  <2>3. la[1] # "BD"
    BY <1>2, <1>10, Zenon DEF Live, NoBad
  <2>4. CASE la[1] \in Never
    BY <2>2, <2>4, ComesToNever, Zenon
  <2>5. CASE Stopped(la)
    <3>1. Top.phase = "close" => PopRule(alt)
      BY <1>1, <1>6, <1>8, ActsEnd, Zenon
    <3>2. Top.phase = "open" => EndOpen(alt)
      BY <1>8, ActsOpen, Zenon
    <3>3. CASE Top.phase = "close"
      <4>1. /\ Len(stack) > 1 /\ Top'.rule = LevelRule(Len(stack) - 1) /\ Top'.phase = "close"
        BY <1>2, <3>1, <3>3, AfterPop, Zenon
      <4>2. Top'.rule = "alts"
        BY <1>1, <4>1, LevelParents
      <4>3. Top'.rule \in {"abnf", "prod", "alts"}
        BY <4>2
      <4>4. Shape'
        BY <1>2, <2>2, <2>5, <4>1, <4>3, StoppedShape, Zenon DEF Kind
      <4>5. ~InBracket(Top) /\ ~Pending'
        BY <1>6, <4>2, BracketPhase DEF Pending, At
      <4>6. QED
        BY <1>2, <1>3, <2>1, <3>1, <3>3, <4>4, <4>5, QuietPop, Zenon
    <3>4. CASE Top.phase = "open"
      <4>1. Top'.rule = Top.rule /\ Top'.phase = "close"
        BY <1>2, <3>2, <3>4, AfterOpen, Zenon
      <4>2. Shape'
        BY <1>2, <2>2, <4>1, PlainShape, Zenon DEF Kind
      <4>3. ~Pending'
        BY <1>6, <4>1 DEF Pending, At
      <4>4. QED
        BY <1>2, <1>3, <1>6, <2>1, <3>2, <3>4, <4>2, <4>3, QuietOpen, Zenon
    <3>5. QED
      BY <1>0, <3>3, <3>4, Zenon
  <2>6. QED
    BY <1>8, <2>3, <2>4, <2>5
<1>11. QED
  BY <1>7, <1>8, <1>9, Zenon

LEMMA ReadCount ==
  ASSUME NEW w \in Seq(Lexemes), NEW c \in Nat \ {0}, NEW s, Len(s) \in Nat,
         Nested(w, c, s), Sounded(w, c, s), Depth(w, c) >= 0, KindAt(w, c + 1) \in Counts
  PROVE  /\ Nested(w, c + 1, s) /\ Sounded(w, c + 1, s)
         /\ Depth(w, c + 1) = Depth(w, c)
<1>1. KindAt(w, c + 1) \notin {"BD", "LP", "OB", "RP", "CB", "NV"} \union Defines \union Starters
  BY DEF Counts, Defines, Starters
<1>2. ~IsHeader(w, c + 1)
  BY NotHeader DEF Counts
<1>3. c + 1 \notin Elements(w)
  BY <1>1, KindsAt
<1>4. QED
  BY <1>1, <1>2, <1>3, ReadPlain

LEMMA PrefixLength ==
  ASSUME NEW w, NEW c \in Int, NEW i \in Int, NEW size \in Nat, i = c + 1 + size,
         Len(PrefixOf(w, i)) = size, KindAt(w, c) \notin Counts
  PROVE  PrefixFits(w, i)
<1>1. i - 1 - size = c
  OBVIOUS
<1>2. i - 1 - Len(PrefixOf(w, i)) = c
  BY <1>1, Zenon
<1>3. QED
  BY <1>2, Zenon DEF PrefixFits

\* The repetition prefixes the alternatives of elem read.
LEMMA PrefixRead ==
  ASSUME NEW w, NEW c \in Int, KindAt(w, c) \notin Counts
  PROVE  /\ PrefixFits(w, c + 1)
         /\ KindAt(w, c + 1) \in Counts => PrefixFits(w, c + 2)
         /\ \/ KindAt(w, c + 1) = "NUM" /\ KindAt(w, c + 2) = "STAR"
            \/ KindAt(w, c + 1) = "STAR" /\ KindAt(w, c + 2) = "NUM"
            => PrefixFits(w, c + 3)
         /\ /\ KindAt(w, c + 1) = "NUM" /\ KindAt(w, c + 2) = "STAR"
            /\ KindAt(w, c + 3) = "NUM"
            => PrefixFits(w, c + 4)
<1>1. KindAt(w, c) # "NUM" /\ KindAt(w, c) # "STAR"
  BY DEF Counts
<1>2. PrefixFits(w, c + 1)
  <2>1. PrefixOf(w, c + 1) = <<>>
    <3>1. c + 1 - 1 = c
      OBVIOUS
    <3>2. QED
      BY <1>1, <3>1 DEF PrefixOf
  <2>2. c + 1 - 1 - Len(<<>>) = c
    OBVIOUS
  <2>3. QED
    BY <2>1, <2>2 DEF PrefixFits
<1>3. ASSUME KindAt(w, c + 1) \in Counts
      PROVE  PrefixFits(w, c + 2)
  <2>1. c + 2 - 1 = c + 1 /\ c + 2 - 2 = c
    OBVIOUS
  <2>2. KindAt(w, c + 1) = "NUM" \/ KindAt(w, c + 1) = "STAR"
    BY <1>3 DEF Counts
  <2>3. PrefixOf(w, c + 2) = <<"NUM">> \/ PrefixOf(w, c + 2) = <<"STAR">>
    BY <1>1, <2>1, <2>2 DEF PrefixOf
  <2>4. Len(PrefixOf(w, c + 2)) = 1
    BY <2>3
  <2>5. c + 2 = c + 1 + 1 /\ c + 2 \in Int /\ 1 \in Nat
    OBVIOUS
  <2>6. QED
    BY <2>4, <2>5, PrefixLength, Zenon
<1>4. ASSUME \/ KindAt(w, c + 1) = "NUM" /\ KindAt(w, c + 2) = "STAR"
             \/ KindAt(w, c + 1) = "STAR" /\ KindAt(w, c + 2) = "NUM"
      PROVE  PrefixFits(w, c + 3)
  <2>1. c + 3 - 1 = c + 2 /\ c + 3 - 2 = c + 1 /\ c + 3 - 3 = c
    OBVIOUS
  <2>2. PrefixOf(w, c + 3) = <<"NUM", "STAR">> \/ PrefixOf(w, c + 3) = <<"STAR", "NUM">>
    BY <1>1, <1>4, <2>1 DEF PrefixOf
  <2>3. Len(PrefixOf(w, c + 3)) = 2
    BY <2>2, Lengths
  <2>4. c + 3 = c + 1 + 2 /\ c + 3 \in Int /\ 2 \in Nat
    OBVIOUS
  <2>5. QED
    BY <2>3, <2>4, PrefixLength, Zenon
<1>5. ASSUME KindAt(w, c + 1) = "NUM", KindAt(w, c + 2) = "STAR", KindAt(w, c + 3) = "NUM"
      PROVE  PrefixFits(w, c + 4)
  <2>1. c + 4 - 1 = c + 3 /\ c + 4 - 2 = c + 2 /\ c + 4 - 3 = c + 1
    OBVIOUS
  <2>2. PrefixOf(w, c + 4) = <<"NUM", "STAR", "NUM">>
    BY <1>5, <2>1 DEF PrefixOf
  <2>3. Len(PrefixOf(w, c + 4)) = 3
    BY <2>2, Lengths
  <2>4. c + 4 = c + 1 + 3 /\ c + 4 \in Int /\ 3 \in Nat
    OBVIOUS
  <2>5. QED
    BY <2>3, <2>4, PrefixLength, Zenon
<1>6. QED
  BY <1>2, <1>3, <1>4, <1>5

\* An atom is pushed, behind its repetition prefix.
LEMMA AtomShape ==
  ASSUME Consumed' # 0, Len(la') >= 1, PrefixFits(input', Consumed' + 1),
         Top'.rule = "atom", Top'.phase = "open", Top'.grp = "",
         Top'.node.kind = "undefined"
  PROVE  Shape'
BY DEF Shape, At, Kind

LEMMA ElemPush ==
  ASSUME NEW n, Live(n), NEW alt, alt = Alternatives[n], PushRule(alt), alt.p = "atom",
         Top.rule = "elem", Exact, Consumed # 0, Len(la) >= Takes(alt) + 1,
         NEW d, d = Consumed + Takes(alt),
         Nested(input, d, stack), Sounded(input, d, stack),
         Depth(input, d) = Depth(input, Consumed), PrefixFits(input, d + 1)
  PROVE  Reading'
<1>1. /\ Len(la) \in Nat /\ Consumed \in Nat /\ Len(stack) \in Nat \ {0}
      /\ Top.rule = LevelRule(Len(stack))
  BY LiveFacts, Sizes
<1>2. Runs(n) /\ Waiting /\ ~HasHole
  BY LiveFacts
<1>3. Fires(alt)
  BY DEF PushRule
<1>4. /\ input' = input /\ Len(la') = Len(la) - Takes(alt) /\ Takes(alt) \in Nat
      /\ Consumed' = Consumed + Takes(alt)
  BY <1>2, <1>3, Firing, Zenon
<1>5. Consumed' = d /\ Consumed' # 0 /\ Len(la') >= 1
  BY <1>1, <1>4
<1>6. Top.rule # "atom"
  OBVIOUS
<1>7. /\ Top'.rule = "atom" /\ Top'.phase = "open" /\ Top'.grp = "" /\ Waiting' /\ ~Pending'
      /\ Top'.node.kind = "undefined" /\ Len(stack') = Len(stack) + 1
      /\ (HasHole' <=> HasHole) /\ SameBrackets(stack, stack')
  BY <1>2, <1>6, AfterPush, Zenon
<1>8. Shape'
  BY <1>4, <1>5, <1>7, AtomShape, Zenon
<1>9. Nested(input, Consumed', stack') /\ Sounded(input, Consumed', stack')
  BY <1>5, <1>7, SameNested, SameSounded, Zenon
<1>10. Depth(input, Consumed') = Unclosed'
  <2>1. InBracket(Top) = FALSE /\ InBracket(Top') = FALSE
    BY <1>6, <1>7, BracketPhase
  <2>2. Level(Len(stack) + 1, FALSE) = Level(Len(stack), FALSE)
    BY <1>1, <1>6, PushLevel, Zenon
  <2>3. QED
    BY <1>5, <1>7, <2>1, <2>2, LiveFacts, Zenon DEF Unclosed
<1>11. Exact'
  BY <1>2, <1>3, ExactFires, Zenon
<1>12. Good'
  BY <1>4, <1>5, <1>7, <1>8, <1>9, <1>10, <1>11, MakesGood, Zenon
<1>13. QED
  BY <1>2, <1>7, <1>12, KeepsReading, Zenon

\* Up to three counts are read, one after the other.
LEMMA ReadCounts ==
  ASSUME NEW w \in Seq(Lexemes), NEW c \in Nat \ {0}, NEW s, Len(s) \in Nat,
         Nested(w, c, s), Sounded(w, c, s), Depth(w, c) >= 0
  PROVE  /\ KindAt(w, c + 1) \in Counts =>
              /\ Nested(w, c + 1, s) /\ Sounded(w, c + 1, s)
              /\ Depth(w, c + 1) = Depth(w, c)
         /\ KindAt(w, c + 1) \in Counts /\ KindAt(w, c + 2) \in Counts =>
              /\ Nested(w, c + 2, s) /\ Sounded(w, c + 2, s)
              /\ Depth(w, c + 2) = Depth(w, c)
         /\ (KindAt(w, c + 1) \in Counts /\ KindAt(w, c + 2) \in Counts
             /\ KindAt(w, c + 3) \in Counts) =>
              /\ Nested(w, c + 3, s) /\ Sounded(w, c + 3, s)
              /\ Depth(w, c + 3) = Depth(w, c)
<1>1. /\ c + 1 \in Nat \ {0} /\ c + 2 \in Nat \ {0} /\ c + 1 + 1 = c + 2 /\ c + 2 + 1 = c + 3
  OBVIOUS
<1>2. ASSUME KindAt(w, c + 1) \in Counts
      PROVE  /\ Nested(w, c + 1, s) /\ Sounded(w, c + 1, s)
             /\ Depth(w, c + 1) = Depth(w, c)
  BY <1>2, ReadCount
<1>3. ASSUME KindAt(w, c + 1) \in Counts, KindAt(w, c + 2) \in Counts
      PROVE  /\ Nested(w, c + 2, s) /\ Sounded(w, c + 2, s)
             /\ Depth(w, c + 2) = Depth(w, c)
  <2>1. KindAt(w, c + 1 + 1) \in Counts /\ Depth(w, c + 1) >= 0
    BY <1>1, <1>2, <1>3
  <2>2. /\ Nested(w, c + 1 + 1, s) /\ Sounded(w, c + 1 + 1, s)
        /\ Depth(w, c + 1 + 1) = Depth(w, c + 1)
    BY <1>1, <1>2, <1>3, <2>1, ReadCount, Zenon
  <2>3. QED
    BY <1>1, <1>2, <1>3, <2>2
<1>4. ASSUME KindAt(w, c + 1) \in Counts, KindAt(w, c + 2) \in Counts,
             KindAt(w, c + 3) \in Counts
      PROVE  /\ Nested(w, c + 3, s) /\ Sounded(w, c + 3, s)
             /\ Depth(w, c + 3) = Depth(w, c)
  <2>1. KindAt(w, c + 2 + 1) \in Counts /\ Depth(w, c + 2) >= 0
    BY <1>1, <1>3, <1>4
  <2>2. /\ Nested(w, c + 2 + 1, s) /\ Sounded(w, c + 2 + 1, s)
        /\ Depth(w, c + 2 + 1) = Depth(w, c + 2)
    BY <1>1, <1>3, <1>4, <2>1, ReadCount, Zenon
  <2>3. QED
    BY <1>1, <1>3, <1>4, <2>2
<1>5. KindAt(w, c + 1) \in Counts =>
        /\ Nested(w, c + 1, s) /\ Sounded(w, c + 1, s)
        /\ Depth(w, c + 1) = Depth(w, c)
  BY <1>2
<1>6. KindAt(w, c + 1) \in Counts /\ KindAt(w, c + 2) \in Counts =>
        /\ Nested(w, c + 2, s) /\ Sounded(w, c + 2, s)
        /\ Depth(w, c + 2) = Depth(w, c)
  BY <1>3
<1>7. (KindAt(w, c + 1) \in Counts /\ KindAt(w, c + 2) \in Counts
       /\ KindAt(w, c + 3) \in Counts) =>
        /\ Nested(w, c + 3, s) /\ Sounded(w, c + 3, s)
        /\ Depth(w, c + 3) = Depth(w, c)
  BY <1>4
<1>8. QED
  BY <1>5, <1>6, <1>7

\* The repetition prefix of the alternative that elem takes.
CountsAt(w, c, k) ==
  \/ k = 0
  \/ k = 1 /\ KindAt(w, c + 1) \in Counts
  \/ k = 2 /\ \/ KindAt(w, c + 1) = "NUM" /\ KindAt(w, c + 2) = "STAR"
              \/ KindAt(w, c + 1) = "STAR" /\ KindAt(w, c + 2) = "NUM"
  \/ k = 3 /\ KindAt(w, c + 1) = "NUM" /\ KindAt(w, c + 2) = "STAR" /\ KindAt(w, c + 3) = "NUM"

LEMMA CountsRead ==
  ASSUME NEW w \in Seq(Lexemes), NEW c \in Nat \ {0}, NEW s, Len(s) \in Nat,
         Nested(w, c, s), Sounded(w, c, s), Depth(w, c) >= 0, KindAt(w, c) \notin Counts,
         NEW k, CountsAt(w, c, k)
  PROVE  /\ Nested(w, c + k, s) /\ Sounded(w, c + k, s)
         /\ Depth(w, c + k) = Depth(w, c) /\ PrefixFits(w, c + k + 1)
<1>1. /\ c + 0 = c /\ c + 0 + 1 = c + 1 /\ c + 1 + 1 = c + 2 /\ c + 2 + 1 = c + 3
      /\ c + 3 + 1 = c + 4 /\ c \in Int
  OBVIOUS
<1>2. "NUM" \in Counts /\ "STAR" \in Counts
  BY DEF Counts
<1>3. CASE k = 0
  BY <1>1, <1>3, PrefixRead
<1>4. CASE k = 1 /\ KindAt(w, c + 1) \in Counts
  BY <1>1, <1>4, PrefixRead, ReadCounts
<1>5. CASE k = 2 /\ \/ KindAt(w, c + 1) = "NUM" /\ KindAt(w, c + 2) = "STAR"
                    \/ KindAt(w, c + 1) = "STAR" /\ KindAt(w, c + 2) = "NUM"
  <2>1. PrefixFits(w, c + 3)
    BY <1>1, <1>5, PrefixRead
  <2>2. KindAt(w, c + 1) \in Counts /\ KindAt(w, c + 2) \in Counts
    BY <1>2, <1>5
  <2>3. QED
    BY <1>1, <1>5, <2>1, <2>2, ReadCounts
<1>6. CASE k = 3 /\ KindAt(w, c + 1) = "NUM" /\ KindAt(w, c + 2) = "STAR"
                 /\ KindAt(w, c + 3) = "NUM"
  <2>1. PrefixFits(w, c + 4)
    BY <1>1, <1>6, PrefixRead
  <2>2. KindAt(w, c + 1) \in Counts /\ KindAt(w, c + 2) \in Counts /\ KindAt(w, c + 3) \in Counts
    BY <1>2, <1>6
  <2>3. QED
    BY <1>1, <1>6, <2>1, <2>2, ReadCounts
<1>7. QED
  BY <1>3, <1>4, <1>5, <1>6 DEF CountsAt

\* Where the tokens are the next lexemes, elem reads a repetition prefix.
LEMMA ElemCounts ==
  ASSUME NEW n, Live(n), Settled(n), NEW alt, alt = Alternatives[n], Exact,
         Top.rule = "elem", Top.phase = "open"
  PROVE  CountsAt(input, Consumed, Takes(alt))
<1>1. Len(la) \in Nat /\ Consumed \in Nat
  BY LiveFacts, Sizes
<1>2. /\ Len(la) >= 2 => KindAt(input, Consumed + 1) = la[1]
      /\ Len(la) >= 3 => /\ KindAt(input, Consumed + 1) = la[1]
                         /\ KindAt(input, Consumed + 2) = la[2]
      /\ Len(la) >= 4 => /\ KindAt(input, Consumed + 1) = la[1]
                         /\ KindAt(input, Consumed + 2) = la[2]
                         /\ KindAt(input, Consumed + 3) = la[3]
  <2>1. \A k \in 1..Len(la) : KindAt(input, Consumed + k) = la[k]
    BY <1>1, NextKind
  <2>2. /\ Len(la) >= 2 => 1 \in 1..Len(la)
        /\ Len(la) >= 3 => 1 \in 1..Len(la) /\ 2 \in 1..Len(la)
        /\ Len(la) >= 4 => 1 \in 1..Len(la) /\ 2 \in 1..Len(la) /\ 3 \in 1..Len(la)
    BY <1>1
  <2>3. QED
    BY <2>1, <2>2, Zenon
<1>3. "NUM" \in Counts /\ "STAR" \in Counts
  BY DEF Counts
<1>4. /\ \A a : Does(alt, 0, "atom", "", a) => Takes(alt) = 0
      /\ \A a : Does(alt, 1, "atom", "", a) => Takes(alt) = 1
      /\ \A a : Does(alt, 2, "atom", "", a) => Takes(alt) = 2
      /\ \A a : Does(alt, 3, "atom", "", a) => Takes(alt) = 3
  BY DEF Does
<1>5. QED
  BY <1>2, <1>3, <1>4, ElemOpenDoes, Zenon DEF CountsAt

\* The atom at hand is none, and no alternative will take it.
LEMMA ComesToNoAtom ==
  ASSUME Len(la') >= 1, la'[1] \notin ATOM, Top'.rule = "atom", Top'.phase = "open"
  PROVE  Reading'
BY DEF Reading, Stuck, At

LEMMA ElemOpenReads ==
  ASSUME NEW n, Live(n), NEW alt, alt = Alternatives[n], Acts(alt), At("elem", "open")
  PROVE  Reading'
<1>1. /\ Len(la) \in Nat /\ Consumed \in Nat /\ Len(stack) \in Nat \ {0}
      /\ Top.rule = LevelRule(Len(stack)) /\ input \in Seq(Lexemes)
  BY LiveFacts, Sizes
<1>2. /\ Runs(n) /\ Waiting /\ Accurate /\ Consumed # 0 /\ Kind(Consumed) \notin Counts
      /\ Top.rule = "elem" /\ Top.phase = "open" /\ Len(la) >= 1
  BY LiveFacts DEF At, Shape
<1>3. Settled(n) /\ Fires(alt)
  BY <1>2, ActsFires, Firing, Zenon
<1>4. \/ Does(alt, 0, "atom", "", "")
      \/ /\ Takes(alt) # 0 /\ PushRule(alt) /\ alt.p = "atom" /\ Len(la) >= Takes(alt) + 1
         /\ \/ ~(Len(la) >= 4 /\ la[1] = "NUM" /\ la[2] = "STAR" /\ la[3] = "NUM")
            \/ la[4] \in ATOM /\ Len(la) >= 4
  <2>1. "atom" # ""
    BY Named
  <2>2. \A k, a : Does(alt, k, "atom", "", a) => PushRule(alt) /\ Takes(alt) = k /\ alt.p = "atom"
    BY <2>1, ActsPush, Zenon
  <2>3. "NUM" \notin ATOM /\ "STAR" \notin ATOM /\ "NUM" # "STAR"
    BY DEF ATOM
  <2>4. \/ Does(alt, 0, "atom", "", "")
        \/ /\ Takes(alt) = 1 /\ PushRule(alt) /\ alt.p = "atom" /\ Len(la) >= 2
           /\ la[1] \in Counts /\ la[2] \in ATOM
        \/ /\ Takes(alt) = 2 /\ PushRule(alt) /\ alt.p = "atom" /\ Len(la) >= 3
           /\ \/ la[1] = "NUM" /\ la[2] = "STAR" /\ la[3] \in ATOM
              \/ la[1] = "STAR" /\ la[2] = "NUM" /\ la[3] \in ATOM
        \/ /\ Takes(alt) = 3 /\ PushRule(alt) /\ alt.p = "atom" /\ Len(la) >= 4
           /\ la[4] \in ATOM
    <3>1. "NUM" \in Counts /\ "STAR" \in Counts
      BY DEF Counts
    <3>2. QED
      BY <1>2, <1>3, <2>2, <3>1, ElemOpenDoes, Zenon
  <2>5. ASSUME Takes(alt) = 1, Len(la) >= 2
        PROVE  Takes(alt) # 0 /\ Len(la) >= Takes(alt) + 1
    BY <1>1, <2>5
  <2>6. ASSUME Takes(alt) = 2, Len(la) >= 3
        PROVE  Takes(alt) # 0 /\ Len(la) >= Takes(alt) + 1
    BY <1>1, <2>6
  <2>7. ASSUME Takes(alt) = 3, Len(la) >= 4
        PROVE  Takes(alt) # 0 /\ Len(la) >= Takes(alt) + 1
    BY <1>1, <2>7
  <2>8. QED
    BY <2>3, <2>4, <2>5, <2>6, <2>7, Zenon
<1>5. ASSUME ~(Does(alt, 0, "atom", "", "") /\ la[1] \notin ATOM)
      PROVE  /\ PushRule(alt) /\ alt.p = "atom" /\ Len(la) >= Takes(alt) + 1
             /\ \/ ~(Len(la) >= 4 /\ la[1] = "NUM" /\ la[2] = "STAR" /\ la[3] = "NUM")
                \/ la[4] \in ATOM /\ Len(la) >= 4
  <2>1. CASE Does(alt, 0, "atom", "", "") /\ la[1] \in ATOM
    <3>1. PushRule(alt) /\ Takes(alt) = 0 /\ alt.p = "atom"
      BY <2>1, Named, ActsPush, Zenon
    <3>2. Len(la) >= Takes(alt) + 1
      BY <1>1, <1>2, <3>1
    <3>3. "NUM" \notin ATOM
      BY DEF ATOM
    <3>4. QED
      BY <2>1, <3>1, <3>2, <3>3, Zenon
  <2>2. CASE ~Does(alt, 0, "atom", "", "")
    BY <1>4, <2>2, Zenon
  <2>3. QED
    BY <1>5, <2>1, <2>2
<1>6. CASE Does(alt, 0, "atom", "", "") /\ la[1] \notin ATOM
  <2>1. PushRule(alt) /\ Takes(alt) = 0 /\ alt.p = "atom"
    BY <1>6, Named, ActsPush, Zenon
  <2>2. Top'.rule = alt.p /\ Top'.phase = "open"
    BY <1>2, <2>1, AfterPush, Zenon
  <2>3. Len(la') >= 1 /\ la'[1] = la[1]
    BY <1>2, <1>3, <2>1, SameTokens, Zenon
  <2>4. QED
    BY <1>6, <2>1, <2>2, <2>3, ComesToNoAtom, Zenon
<1>7. CASE ~(Does(alt, 0, "atom", "", "") /\ la[1] \notin ATOM)
  <2>1. /\ PushRule(alt) /\ alt.p = "atom" /\ Len(la) >= Takes(alt) + 1
        /\ \/ ~(Len(la) >= 4 /\ la[1] = "NUM" /\ la[2] = "STAR" /\ la[3] = "NUM")
           \/ la[4] \in ATOM /\ Len(la) >= 4
    BY <1>5, <1>7
  <2>2. Exact
    <3>1. ASSUME NEW k \in 1..Len(la), la[k] # Kind(Consumed + k)
          PROVE  FALSE
      <4>1. /\ k = 4 /\ la[4] = "NR"
            /\ la[1] = "NUM" /\ la[2] = "STAR" /\ la[3] = "NUM"
        BY <1>2, <3>1, Zenon DEF Accurate
      <4>2. Len(la) >= 4
        BY <1>1, <4>1
      <4>3. "NR" \notin ATOM
        BY DEF ATOM
      <4>4. QED
        BY <2>1, <4>1, <4>2, <4>3, Zenon
    <3>2. QED
      BY <3>1 DEF Exact
  <2>3. CountsAt(input, Consumed, Takes(alt))
    BY <1>2, <1>3, <2>2, ElemCounts, Zenon
  <2>4. /\ Nested(input, Consumed, stack) /\ Sounded(input, Consumed, stack)
        /\ Depth(input, Consumed) = Unclosed
    BY LiveFacts
  <2>5. Depth(input, Consumed) >= 0 /\ Consumed \in Nat \ {0} /\ Len(stack) \in Nat
    <3>1. Unclosed = Level(Len(stack), FALSE)
      BY <1>2, BracketPhase DEF Unclosed, InBracket
    <3>2. Level(Len(stack), FALSE) >= 0
      BY <1>1 DEF Level
    <3>3. QED
      BY <1>1, <1>2, <2>4, <3>1, <3>2
  <2>6. DEFINE d == Consumed + Takes(alt)
  <2>7. /\ Nested(input, d, stack) /\ Sounded(input, d, stack)
        /\ Depth(input, d) = Depth(input, Consumed) /\ PrefixFits(input, d + 1)
    BY <1>1, <1>2, <2>3, <2>4, <2>5, CountsRead, Zenon DEF Kind
  <2>8. QED
    BY <1>2, <2>1, <2>2, <2>7, ElemPush, Zenon
<1>8. QED
  BY <1>6, <1>7

LEMMA ElemCloseReads ==
  ASSUME NEW n, Live(n), NEW alt, alt = Alternatives[n], Acts(alt), At("elem", "close")
  PROVE  Reading'
<1>1. /\ Len(la) \in Nat /\ Consumed \in Nat /\ Len(stack) \in Nat \ {0}
      /\ Top.rule = LevelRule(Len(stack))
  BY LiveFacts, Sizes
<1>2. /\ Runs(n) /\ Waiting /\ Accurate /\ Consumed # 0 /\ Kind(Consumed) \notin Counts
      /\ Top.rule = "elem" /\ Top.phase = "close" /\ ~At("elem", "open")
  BY LiveFacts DEF At, Shape
<1>3. Exact
  BY <1>1, <1>2, ExactBut
<1>4. Settled(n) /\ Fires(alt)
  BY <1>2, ActsFires, Firing, Zenon
<1>5. Does(alt, 0, "", "", "append")
  BY <1>2, <1>4, ElemCloseDoes, Zenon
<1>6. Len(stack) # 1
  BY <1>1, <1>2, LevelOne
<1>7. PopRule(alt) /\ Takes(alt) = 0
  BY <1>1, <1>2, <1>5, <1>6, ActsEnd, Zenon
<1>8. Consumed' = Consumed /\ input' = input
  BY <1>2, <1>4, <1>7, SameTokens, Zenon
<1>9. /\ Top'.rule = LevelRule(Len(stack) - 1) /\ Len(stack) > 1
  BY <1>2, <1>7, AfterPop, Zenon
<1>10. Top'.rule = "seq"
  BY <1>1, <1>2, <1>9, LevelParents
<1>11. Shape'
  BY <1>2, <1>8, <1>10, PlainShape, Zenon DEF Kind
<1>12. ~InBracket(Top) /\ ~Pending'
  BY <1>2, <1>10, BracketPhase DEF Pending, At
<1>13. QED
  BY <1>2, <1>3, <1>7, <1>11, <1>12, QuietPop, Zenon

\* Arithmetic, for positions in the text, the lookahead and the stack.
LEMMA Positions ==
  ASSUME NEW c \in Nat, NEW d \in Nat
  PROVE  /\ c + 1 \in Int /\ c + 2 \in Int /\ c + 1 + 1 = c + 2 /\ c + 2 - 1 = c + 1
         /\ c + 1 \in Nat \ {0} /\ c + 1 # 0 /\ c + 1 - 1 = c
         /\ (c # 0 => c + d # 0) /\ (c # 0 => c \in Nat \ {0})
         /\ c >= 1 => 1 \in 1..c
         /\ c >= 2 => c >= 1 /\ 1 \in 1..c /\ 2 \in 1..c
OBVIOUS

LEMMA Predecessor ==
  ASSUME NEW size \in Nat \ {0}
  PROVE  \E m \in Nat : /\ size = m + 1 /\ size - 1 = m /\ size + 1 = m + 2
                       /\ m + 1 - 1 = m /\ m + 1 + 1 = m + 2
<1>1. size - 1 \in Nat /\ size = (size - 1) + 1 /\ size + 1 = (size - 1) + 2
      /\ (size - 1) + 1 - 1 = size - 1 /\ (size - 1) + 1 + 1 = (size - 1) + 2
  OBVIOUS
<1>2. QED
  BY <1>1, Zenon

LEMMA AtomLevel ==
  ASSUME NEW m \in Nat, LevelRule(m + 1) = "atom"
  PROVE  Level(m + 1, FALSE) = ((m + 1 - 2) \div 4) - 1
BY DEF LevelRule, Level

LEMMA StringIsNoElement ==
  ASSUME NEW w \in Seq(Lexemes), NEW c \in Nat,
         KindAt(w, c + 1) = "SS" \/ KindAt(w, c + 1) = "SI"
  PROVE  c + 2 \notin Elements(w)
<1>1. ASSUME NEW i, i = c + 2, i - 1 = c + 1
      PROVE  i \notin Elements(w)
  <2>1. KindAt(w, i - 1) \in {"SS", "SI"}
    BY <1>1, Zenon
  <2>2. QED
    BY <2>1, KindsAt
<1>2. c + 2 - 1 = c + 1
  OBVIOUS
<1>3. QED
  BY <1>1, <1>2

LEMMA LeafShape ==
  ASSUME Consumed' # 0, KindAt(input', Consumed') \notin Counts,
         Top'.rule = "atom", Top'.phase = "close", Top'.grp = "",
         Top'.node.kind # "undefined"
  PROVE  Shape'
BY DEF Shape, At, Kind

\* An atom that is no bracket has been read.
LEMMA LeafEnds ==
  ASSUME NEW n, Live(n), NEW alt, alt = Alternatives[n], EndOpen(alt),
         Top.rule = "atom", Top.grp = "", alt.a \in Leaves, Exact, Consumed # 0,
         NEW d, d = Consumed + Takes(alt),
         Nested(input, d, stack), Sounded(input, d, stack),
         Depth(input, d) = Depth(input, Consumed), KindAt(input, d) \notin Counts
  PROVE  Reading'
<1>0. Top \in Frames
  BY LiveFacts, Sizes
<1>1. Consumed \in Nat
  BY LiveFacts, Sizes
<1>2. Runs(n) /\ Waiting /\ ~HasHole
  BY LiveFacts
<1>3. Fires(alt)
  BY DEF EndOpen
<1>4. input' = input /\ Takes(alt) \in Nat /\ Consumed' = Consumed + Takes(alt)
  BY <1>2, <1>3, Firing, Zenon
<1>5. Consumed' = d /\ Consumed' # 0
  BY <1>1, <1>4, Positions, Zenon
<1>6. /\ Len(stack') = Len(stack) /\ Top'.rule = Top.rule /\ Top'.phase = "close"
      /\ Top'.grp = Acted(Top, alt.a).grp /\ Top'.node = Acted(Top, alt.a).node
      /\ Waiting' /\ heap' = heap
      /\ (~InBracket(Top) /\ ~InBracket(Top') => SameBrackets(stack, stack'))
  BY <1>2, AfterOpen, Zenon
<1>7. Top'.grp = "" /\ Top'.node.kind # "undefined"
  <2>1. /\ alt.a \notin {"group", "opt"} /\ alt.a \in {"term", "number", "prose", "ref"}
        /\ alt.a # "undefined"
    BY DEF Leaves
  <2>2. Acted(Top, alt.a).grp = Top.grp /\ Acted(Top, alt.a).node.kind = alt.a
    BY <1>0, <2>1, ActedParts, Zenon
  <2>3. QED
    BY <1>6, <2>1, <2>2, Zenon
<1>8. ~InBracket(Top) /\ ~InBracket(Top')
  BY <1>7, BracketPhase, Zenon
<1>9. Shape'
  BY <1>4, <1>5, <1>6, <1>7, LeafShape, Zenon
<1>10. Nested(input, Consumed', stack') /\ Sounded(input, Consumed', stack')
  BY <1>5, <1>6, <1>8, SameNested, SameSounded, Zenon
<1>11. Depth(input, Consumed') = Unclosed'
  <2>1. InBracket(Top) = FALSE /\ InBracket(Top') = FALSE
    BY <1>8, BracketPhase
  <2>2. Depth(input, Consumed) = Unclosed
    BY LiveFacts
  <2>3. QED
    BY <1>5, <1>6, <2>1, <2>2, Zenon DEF Unclosed
<1>12. Good'
  BY <1>2, <1>3, <1>4, <1>5, <1>6, <1>9, <1>10, <1>11, ExactFires, MakesGood, Zenon
<1>13. ~HasHole' /\ ~Pending'
  <2>1. HasHole' <=> HasHole
    BY <1>6 DEF HasHole
  <2>2. ~Pending'
    BY <1>6 DEF Pending, At
  <2>3. QED
    BY <1>2, <2>1, <2>2, Zenon
<1>14. QED
  BY <1>12, <1>13, KeepsReading, Zenon

\* A name where an element should be: the `=' behind it is never read.
LEMMA NameIsStuck ==
  ASSUME NEW n, Live(n), NEW alt, alt = Alternatives[n], Fires(alt), Takes(alt) = 1,
         Exact, Consumed # 0, IsHeader(input, Consumed + 1)
  PROVE  Reading'
<1>1. /\ Consumed \in Nat /\ Len(la) \in Nat /\ Len(input) \in Nat
      /\ DOMAIN input = 1..Len(input)
  BY LiveFacts, Sizes, LenProperties
<1>2. Runs(n)
  BY LiveFacts
<1>3. /\ Len(la') = Len(la) - Takes(alt)
      /\ \A j \in 1..Len(la') : la'[j] = la[j + Takes(alt)]
  BY <1>2, Firing, Zenon
<1>4. KindAt(input, Consumed + 2) \in Defines
  <2>1. /\ Consumed + 1 # 1 /\ Consumed + 1 \in Int /\ Consumed + 1 + 1 = Consumed + 2
        /\ (Consumed + 1 = 1) = FALSE
    BY <1>1
  <2>2. HeadKinds(FALSE, KindAt(input, Consumed + 1), KindAt(input, Consumed + 2))
    BY <2>1, HeaderBy
  <2>3. QED
    BY <2>2 DEF HeadKinds, Defines
<1>5. Len(la) >= 2
  <2>1. Consumed + 2 \in DOMAIN input
    BY <1>4 DEF KindAt, Defines
  <2>2. QED
    BY <1>1, <2>1 DEF Consumed
<1>6. la[2] \in Never
  <2>1. 2 \in 1..Len(la)
    BY <1>1, <1>5
  <2>2. KindAt(input, Consumed + 2) = la[2]
    BY <1>1, <2>1, NextKind, Zenon
  <2>3. QED
    BY <1>4, <2>2 DEF Defines, Never
<1>7. Len(la') >= 1 /\ la'[1] = la[2]
  BY <1>1, <1>3, <1>5
<1>8. QED
  BY <1>6, <1>7, ComesToNever, Zenon

LEMMA AtomDepth ==
  ASSUME NEW n, Live(n)
  PROVE  Depth(input, Consumed) >= 0
<1>1. Len(stack) \in Nat \ {0}
  BY LiveFacts, Sizes
<1>2. Depth(input, Consumed) = Unclosed
  BY LiveFacts
<1>3. InBracket(Top) \in BOOLEAN
  BY BracketPhase
<1>4. Level(Len(stack), InBracket(Top)) >= 0
  BY <1>1, <1>3 DEF Level
<1>5. QED
  BY <1>2, <1>4, Zenon DEF Unclosed

\* A quoted string, a numeric value, prose or a reference.
LEMMA ShortLeafReads ==
  ASSUME NEW n, Live(n), NEW alt, alt = Alternatives[n], EndOpen(alt),
         Top.rule = "atom", Top.phase = "open", Top.grp = "", Exact, Consumed # 0,
         PrefixFits(input, Consumed + 1), Len(la) >= 1, Takes(alt) = 1,
         alt.a \in Leaves, la[1] \in {"ST", "NV", "PV", "TX"},
         la[1] = "NV" => alt.a = "number"
  PROVE  Reading'
<1>1. Consumed \in Nat /\ Len(la) \in Nat
  BY LiveFacts, Sizes
<1>2. Fires(alt)
  BY DEF EndOpen
<1>3. CASE IsHeader(input, Consumed + 1)
  BY <1>2, <1>3, NameIsStuck, Zenon
<1>4. CASE ~IsHeader(input, Consumed + 1)
  <2>1. la[1] = "NV" => input[Consumed + 1].val # Fault
    BY <1>2 DEF Fires, IsFault
  <2>2. /\ la[1] \in {"ALT", "ST", "SS", "SI", "NV", "TX", "PV"} \union Counts
        /\ la[1] \in Counts \union Starters /\ la[1] \notin Counts
    BY DEF Counts, Starters
  <2>3. /\ Nested(input, Consumed + 1, stack) /\ Sounded(input, Consumed + 1, stack)
        /\ Depth(input, Consumed + 1) = Depth(input, Consumed)
        /\ KindAt(input, Consumed + 1) = la[1]
    BY <1>4, <2>1, <2>2, ReadsOne, Zenon
  <2>4. KindAt(input, Consumed + 1) \notin Counts
    BY <2>2, <2>3, Zenon
  <2>5. QED
    BY <2>3, <2>4, LeafEnds, Zenon
<1>5. QED
  BY <1>3, <1>4

\* `%s' or `%i' and the string behind it.
LEMMA LongLeafReads ==
  ASSUME NEW n, Live(n), NEW alt, alt = Alternatives[n], EndOpen(alt),
         Top.rule = "atom", Top.phase = "open", Top.grp = "", Exact, Consumed # 0,
         PrefixFits(input, Consumed + 1), Len(la) >= 2, Takes(alt) = 2,
         alt.a \in Leaves, la[1] \in {"SS", "SI"}, la[2] = "ST"
  PROVE  Reading'
<1>1. Consumed \in Nat /\ Len(la) \in Nat
  BY LiveFacts, Sizes
<1>2. input \in Seq(Lexemes) /\ Len(stack) \in Nat
  BY LiveFacts, Sizes
<1>3. Len(la) >= 1 /\ 1 \in 1..Len(la) /\ 2 \in 1..Len(la)
  BY <1>1, Positions, Zenon
<1>4. KindAt(input, Consumed + 1) = la[1] /\ KindAt(input, Consumed + 2) = la[2]
  BY <1>1, <1>3, NextKind, Zenon
<1>5. ~IsHeader(input, Consumed + 1) /\ ~IsHeader(input, Consumed + 2)
  <2>1. la[1] \notin {"TX", "PV", "NV"} /\ la[2] \notin {"TX", "PV", "NV"}
    OBVIOUS
  <2>2. Consumed + 1 \in Int /\ Consumed + 2 \in Int
    BY <1>1, Positions, Zenon
  <2>3. QED
    BY <1>4, <2>1, <2>2, NotHeader, Zenon
<1>6. /\ la[1] \in {"ALT", "ST", "SS", "SI", "NV", "TX", "PV"} \union Counts
      /\ la[1] \in Counts \union Starters /\ la[1] \notin Counts /\ la[1] # "NV"
  BY DEF Counts, Starters
<1>7. /\ Nested(input, Consumed + 1, stack) /\ Sounded(input, Consumed + 1, stack)
      /\ Depth(input, Consumed + 1) = Depth(input, Consumed)
  BY <1>3, <1>5, <1>6, ReadsOne, Zenon
<1>8. Depth(input, Consumed) >= 0
  BY AtomDepth, Zenon
<1>9. /\ Nested(input, Consumed + 2, stack) /\ Sounded(input, Consumed + 2, stack)
      /\ Depth(input, Consumed + 2) = Depth(input, Consumed + 1)
  <2>1. Consumed + 1 \in Nat \ {0} /\ Consumed + 1 + 1 = Consumed + 2
        /\ Consumed + 2 \in Int /\ Consumed + 2 - 1 = Consumed + 1
    BY <1>1, Positions, Zenon
  <2>2. /\ KindAt(input, Consumed + 2) = "ST"
        /\ KindAt(input, Consumed + 1) \notin Counts
        /\ KindAt(input, Consumed + 1) \in {"SS", "SI"}
    BY <1>4, <1>6, Zenon
  <2>3. /\ KindAt(input, Consumed + 2) \notin
             {"BD", "LP", "OB", "RP", "CB"} \union Defines
        /\ KindAt(input, Consumed + 2) # "NV"
    BY <2>2 DEF Defines
  <2>4. Consumed + 2 \notin Elements(input)
    <3>1. KindAt(input, Consumed + 1) = "SS" \/ KindAt(input, Consumed + 1) = "SI"
      BY <2>2, Zenon
    <3>2. QED
      BY <1>1, <1>2, <3>1, StringIsNoElement, Zenon
  <2>5. Depth(input, Consumed + 1) >= 0
    BY <1>7, <1>8, Zenon
  <2>6. QED
    BY <1>2, <1>5, <1>7, <2>1, <2>2, <2>3, <2>4, <2>5, ReadPlain, Zenon
<1>10. KindAt(input, Consumed + 2) \notin Counts
  BY <1>4 DEF Counts
<1>11. Depth(input, Consumed + 2) = Depth(input, Consumed)
  BY <1>7, <1>9, Zenon
<1>12. QED
  BY <1>9, <1>10, <1>11, LeafEnds, Zenon

\* An opening bracket.
LEMMA BracketReads ==
  ASSUME NEW n, Live(n), NEW alt, alt = Alternatives[n], PushRule(alt), alt.p = "alts",
         Top.rule = "atom", Top.phase = "open", Top.grp = "", Top.node.kind = "undefined",
         Exact, Consumed # 0, PrefixFits(input, Consumed + 1), Len(la) >= 1, Takes(alt) = 1,
         \/ la[1] = "LP" /\ alt.a = "group"
         \/ la[1] = "OB" /\ alt.a = "opt"
  PROVE  Reading'
<1>1. Consumed \in Nat /\ Len(la) \in Nat /\ Len(stack) \in Nat \ {0}
      /\ LevelRule(Len(stack)) = "atom"
  BY LiveFacts, Sizes
<1>2. Runs(n) /\ Waiting /\ ~HasHole
  BY LiveFacts
<1>3. Fires(alt)
  BY DEF PushRule
<1>4. input' = input /\ Consumed' = Consumed + 1
  BY <1>2, <1>3, Firing, Zenon
<1>5. Consumed' # 0 /\ Consumed + 1 \in Int /\ 1 \in 1..Len(la)
  BY <1>1, <1>4, Positions, Zenon
<1>6. KindAt(input, Consumed + 1) = la[1]
  BY <1>1, <1>5, NextKind, Zenon
<1>7. Top \in Frames /\ input \in Seq(Lexemes)
  BY LiveFacts, Sizes
<1>8. /\ Len(stack') = Len(stack) + 1 /\ Top'.grp = ""
      /\ Top'.rule = alt.p /\ Top'.phase = "open"
      /\ Waiting' /\ ~Pending' /\ (HasHole' <=> HasHole)
      /\ \A i \in 1..(Len(stack) - 1) : stack'[i] = stack[i]
  BY <1>2, AfterPush, Zenon
<1> DEFINE g == stack'[Len(stack)]
<1>9. /\ g.rule = "atom" /\ g.node.kind = "undefined" /\ g.grp = alt.a
      /\ g.at = Consumed + 1
  <2>1. alt.a \in {"group", "opt"}
    OBVIOUS
  <2>2. Acted(Top, alt.a).grp = alt.a /\ Acted(Top, alt.a).at = Consumed + 1
    BY <1>7, <2>1, ActedParts, Zenon
  <2>3. /\ g.rule = Top.rule /\ g.node = Top.node
        /\ g.grp = Acted(Top, alt.a).grp /\ g.at = Acted(Top, alt.a).at
    BY <1>2, AfterPush, Zenon
  <2>4. QED
    BY <2>2, <2>3, Zenon
<1>10. PICK m \in Nat : /\ Len(stack) = m + 1 /\ Len(stack) - 1 = m /\ Len(stack) + 1 = m + 2
                        /\ m + 1 - 1 = m /\ m + 1 + 1 = m + 2
  BY <1>1, Predecessor, Zenon
<1>11. /\ Len(stack') = m + 2 /\ Len(stack) - 1 = m /\ stack'[m + 1] = g
       /\ stack[m + 1] = Top /\ stack'[m + 2] = Top'
  BY <1>8, <1>10, Zenon DEF Top
<1>12. ~InBracket(Top) /\ ~InBracket(Top')
  BY <1>8, BracketPhase, Zenon
<1>13. Depth(input, Consumed) = Unclosed
  BY LiveFacts
<1>14. InBracket(Top) = FALSE /\ InBracket(Top') = FALSE
  BY <1>12, BracketPhase
<1>15. Depth(input, Consumed) = ((m + 1 - 2) \div 4) - 1
  <2>1. Level(m + 1, FALSE) = ((m + 1 - 2) \div 4) - 1
    BY <1>1, <1>10, AtomLevel, Zenon
  <2>2. Depth(input, Consumed) = Level(Len(stack), FALSE)
    BY <1>13, <1>14, Zenon DEF Unclosed
  <2>3. QED
    BY <1>10, <2>1, <2>2, Zenon
<1>16. KindAt(input, Consumed + 1) \in {"LP", "OB"}
       /\ alt.a = (IF KindAt(input, Consumed + 1) = "LP" THEN "group" ELSE "opt")
  BY <1>6
<1>17. /\ Nested(input, Consumed + 1, stack') /\ Sounded(input, Consumed + 1, stack')
       /\ Depth(input, Consumed + 1) = Depth(input, Consumed) + 1
  <2>1. Depth(input, Consumed) >= 0
    BY AtomDepth, Zenon
  <2>2. Nested(input, Consumed, stack) /\ Sounded(input, Consumed, stack)
    BY LiveFacts
  <2>3. Consumed \in Nat \ {0}
    BY <1>1
  <2>4. \A i \in 1..m : stack'[i] = stack[i]
    BY <1>8, <1>11, Zenon
  <2>5. ~InBracket(stack[m + 1]) /\ ~InBracket(stack'[m + 2])
    BY <1>11, <1>12, Zenon
  <2>6. /\ stack'[m + 1].rule = "atom" /\ stack'[m + 1].node.kind = "undefined"
        /\ stack'[m + 1].grp = alt.a /\ stack'[m + 1].at = Consumed + 1
    BY <1>9, <1>11, Zenon
  <2>7. stack'[m + 1].grp = (IF KindAt(input, Consumed + 1) = "LP" THEN "group" ELSE "opt")
    BY <1>16, <2>6, Zenon
  <2>8. QED
    BY <1>7, <1>10, <1>11, <1>15, <1>16, <2>1, <2>2, <2>3, <2>4, <2>5, <2>6, <2>7,
       ReadOpen, ZenonT(60)
<1>18. Depth(input, Consumed') = Unclosed'
  <2>1. Level(Len(stack) + 1, FALSE) = Level(Len(stack), FALSE) + 1
    BY <1>1, Levels
  <2>2. Depth(input, Consumed) = Level(Len(stack), FALSE)
    BY <1>13, <1>14, Zenon DEF Unclosed
  <2>3. Depth(input, Consumed') = Level(Len(stack) + 1, FALSE)
    BY <1>4, <1>17, <2>1, <2>2, Zenon
  <2>4. QED
    BY <1>8, <1>14, <2>3, Zenon DEF Unclosed
<1>19. Shape'
  <2>1. KindAt(input', Consumed') \notin Counts
    BY <1>4, <1>16 DEF Counts
  <2>2. QED
    BY <1>5, <1>8, <2>1, PlainShape, Zenon
<1>20. Good'
  BY <1>2, <1>3, <1>4, <1>5, <1>8, <1>17, <1>18, <1>19, ExactFires, MakesGood, Zenon
<1>21. QED
  BY <1>2, <1>8, <1>20, KeepsReading, Zenon

LEMMA BracketPushed ==
  ASSUME NEW alt, Acts(alt)
  PROVE  \A k, a : Does(alt, k, "alts", "", a) =>
                    PushRule(alt) /\ Takes(alt) = k /\ alt.p = "alts" /\ alt.a = a
<1>1. SUFFICES ASSUME NEW k, NEW a, Does(alt, k, "alts", "", a)
               PROVE  PushRule(alt) /\ Takes(alt) = k /\ alt.p = "alts" /\ alt.a = a
  OBVIOUS
<1>2. "alts" # ""
  BY Named
<1>3. QED
  BY <1>1, <1>2, ActsPush, Zenon

LEMMA AtomOpenReads ==
  ASSUME NEW n, Live(n), NEW alt, alt = Alternatives[n], Acts(alt), At("atom", "open")
  PROVE  Reading'
<1>1. /\ Len(la) \in Nat
  BY LiveFacts, Sizes
<1>2. /\ Runs(n) /\ Accurate /\ Consumed # 0
      /\ Top.rule = "atom" /\ Top.phase = "open" /\ ~At("elem", "open")
      /\ Len(la) >= 1 /\ PrefixFits(input, Consumed + 1)
      /\ Top.grp = "" /\ Top.node.kind = "undefined"
  BY LiveFacts DEF At, Shape
<1>3. Exact
  BY <1>1, <1>2, ExactBut
<1>4. Settled(n)
  BY <1>2, ActsFires, Firing, Zenon
<1>5. /\ \A k, a : Does(alt, k, "", "", a) => EndOpen(alt) /\ Takes(alt) = k /\ alt.a = a
      /\ \A k, a : Does(alt, k, "alts", "", a) =>
            PushRule(alt) /\ Takes(alt) = k /\ alt.p = "alts" /\ alt.a = a
  <2>1. \A k, a : Does(alt, k, "", "", a) => EndOpen(alt) /\ Takes(alt) = k /\ alt.a = a
    BY <1>2, ActsOpen, Zenon
  <2>2. QED
    BY <2>1, BracketPushed, Zenon
<1>6. /\ "term" \in Leaves /\ "number" \in Leaves /\ "prose" \in Leaves /\ "ref" \in Leaves
      /\ "ST" # "NV" /\ "PV" # "NV" /\ "TX" # "NV"
  BY DEF Leaves
<1>7. \/ /\ EndOpen(alt) /\ Takes(alt) = 1 /\ alt.a \in Leaves
         /\ la[1] \in {"ST", "NV", "PV", "TX"} /\ (la[1] = "NV" => alt.a = "number")
      \/ /\ EndOpen(alt) /\ Takes(alt) = 2 /\ alt.a \in Leaves /\ Len(la) >= 2
         /\ la[1] \in {"SS", "SI"} /\ la[2] = "ST"
      \/ /\ PushRule(alt) /\ Takes(alt) = 1 /\ alt.p = "alts"
         /\ \/ la[1] = "LP" /\ alt.a = "group"
            \/ la[1] = "OB" /\ alt.a = "opt"
  BY <1>2, <1>4, <1>5, <1>6, AtomOpenDoes, Zenon
<1>8. QED
  BY <1>2, <1>3, <1>7, ShortLeafReads, LongLeafReads, BracketReads, Zenon

\* A bracket that is open at the end of its production or of the text, or at
\* a bracket of the other kind.
LEMMA OpenIsDoomed ==
  ASSUME NEW w \in Seq(Lexemes), Proper(w), NEW c \in Nat, NEW i, NEW grp, NEW d \in Int,
         OpenAt(w, c, i, grp, d), Depth(w, c) = d, c + 1 \in DOMAIN w,
         \/ /\ KindAt(w, c + 1) \in {"RP", "CB"}
            /\ KindAt(w, c + 1) # IF grp = "group" THEN "RP" ELSE "CB"
         \/ IsHeader(w, c + 1)
         \/ KindAt(w, c + 1) = "ZZ"
  PROVE  SomeDoomed(w)
<1>1. i \in 1..c /\ i \in Nat \ {0} /\ i \in Int /\ i <= c /\ i < c + 1 /\ c + 1 - 1 = c
  BY DEF OpenAt
<1>2. /\ KindAt(w, i) = IF grp = "group" THEN "LP" ELSE "OB"
      /\ Depth(w, i - 1) = d - 1 /\ \A k \in i..c : Depth(w, k) >= d
  BY DEF OpenAt
<1>3. i \in Opens(w)
  BY <1>2, KindsAt
<1>4. DOMAIN w = 1..Len(w) /\ Len(w) \in Nat
  BY LenProperties
<1>5. ASSUME NEW k \in i..c
      PROVE  Balance(w, i, k) > 0
  <2>1. k \in Nat /\ i <= k + 1
    BY <1>1
  <2>2. Balance(w, i, k) = Depth(w, k) - Depth(w, i - 1)
    BY <1>1, <2>1, BalanceIs
  <2>3. Depth(w, k) >= d /\ Depth(w, k) \in Int
    BY <1>2, <2>1, DepthStep
  <2>4. QED
    BY <1>2, <2>2, <2>3
<1>6. \/ c + 1 \in Closes(w) /\ Balance(w, i, c + 1) = 0 /\ ~Mates(w, i, c + 1)
      \/ IsHeader(w, c + 1)
      \/ \A e \in (c + 1)..Len(w) : KindAt(w, e) = "ZZ"
  <2>1. CASE /\ KindAt(w, c + 1) \in {"RP", "CB"}
             /\ KindAt(w, c + 1) # IF grp = "group" THEN "RP" ELSE "CB"
    <3>1. c + 1 \in Closes(w) /\ ~Mates(w, i, c + 1) /\ Pairs(w, i, c + 1)
      BY <2>1, ReachesEnd
    <3>2. QED
      BY <3>1 DEF Pairs
  <2>2. CASE IsHeader(w, c + 1)
    BY <2>2
  <2>3. CASE KindAt(w, c + 1) = "ZZ"
    <3>1. ASSUME NEW e \in (c + 1)..Len(w)
          PROVE  KindAt(w, e) = "ZZ"
      <4>1. e \in DOMAIN w /\ (e = c + 1 \/ c + 1 < e)
        BY <1>4
      <4>2. QED
        BY <2>3, <4>1 DEF Proper
    <3>2. QED
      BY <3>1
  <2>4. QED
    BY <2>1, <2>2, <2>3
<1>7. Doomed(w, i)
  BY <1>1, <1>3, <1>5, <1>6 DEF Doomed
<1>8. i \in DOMAIN w
  BY <1>3 DEF Opens
<1>9. QED
  BY <1>7, <1>8 DEF SomeDoomed

LEMMA HeaderAhead ==
  ASSUME NEW w, NEW c \in Int,
         \/ KindAt(w, c + 1) = "TX" /\ KindAt(w, c + 2) \in Defines
         \/ KindAt(w, c + 1) = "PV" /\ KindAt(w, c + 2) = "DEF"
  PROVE  IsHeader(w, c + 1)
<1>1. c + 1 + 1 = c + 2
  OBVIOUS
<1>2. QED
  BY <1>1 DEF IsHeader

\* The tokens that stop a sequence, in the text.
LEMMA StoppedText ==
  ASSUME Held, status = "run", Exact, Stopped(la)
  PROVE  /\ KindAt(input, Consumed + 1) = la[1] /\ Consumed + 1 \in DOMAIN input
         /\ la[1] \notin {"ALT", "ZZ", "RP", "CB"} => IsHeader(input, Consumed + 1)
<1>1. /\ Len(la) \in Nat /\ Consumed \in Nat /\ Len(input) \in Nat /\ Consumed \in Int
      /\ Len(la) <= Len(input)
  BY Sizes
<1>2. DOMAIN input = 1..Len(input)
  BY Sizes, LenProperties
<1>3. \A k \in 1..Len(la) : KindAt(input, Consumed + k) = la[k]
  BY <1>1, NextKind
<1>4. Len(la) >= 1 /\ 1 \in 1..Len(la)
  BY <1>1 DEF Stopped
<1>5. Consumed + 1 \in DOMAIN input
  BY <1>1, <1>2, <1>4 DEF Consumed
<1>6. ASSUME la[1] \notin {"ALT", "ZZ", "RP", "CB"}
      PROVE  IsHeader(input, Consumed + 1)
  <2>1. HeaderNext(la)
    BY <1>6 DEF Stopped
  <2>2. 2 \in 1..Len(la)
    BY <1>1, <2>1 DEF HeaderNext
  <2>3. /\ KindAt(input, Consumed + 1) = la[1] /\ KindAt(input, Consumed + 2) = la[2]
    BY <1>3, <1>4, <2>2, Zenon
  <2>4. \/ la[1] = "TX" /\ la[2] \in Defines
        \/ la[1] = "PV" /\ la[2] = "DEF"
    BY <2>1 DEF HeaderNext
  <2>5. QED
    BY <1>1, <2>3, <2>4, HeaderAhead, Zenon
<1>7. QED
  BY <1>3, <1>4, <1>5, <1>6, Zenon

LEMMA LevelsHeld ==
  ASSUME Held, status = "run"
  PROVE  \A i \in 1..Len(stack) : stack[i].rule = LevelRule(i)
BY Sizes DEF Held, FourLevelsPerBracket

LEMMA TwoBelow ==
  ASSUME NEW size \in Nat \ {0}, size > 1
  PROVE  \E m \in Nat : size = m + 2 /\ size - 1 = m + 1 /\ size - 2 = m
<1>1. size - 2 \in Nat /\ size = (size - 2) + 2 /\ size - 1 = (size - 2) + 1
  OBVIOUS
<1>2. QED
  BY <1>1, Zenon

LEMMA ClosingDepth ==
  ASSUME NEW m \in Nat, LevelRule(m + 2) = "atom"
  PROVE  /\ Level(m + 2, TRUE) = (m + 2 - 2) \div 4 /\ Level(m + 2, TRUE) >= 1
         /\ LevelRule(m + 1) = "elem"
         /\ Level(m + 1, FALSE) = Level(m + 2, TRUE) - 1
         /\ m + 1 \in 1..(m + 2)
<1>1. m \in Nat \ {0} /\ (m + 2) % 4 = 2
  BY DEF LevelRule
<1>2. m % 4 = 0 /\ m >= 4 /\ (m + 1) % 4 = 1 /\ m + 1 > 2 /\ m \div 4 >= 1
  BY <1>1
<1>3. LevelRule(m + 1) = "elem"
  BY <1>2 DEF LevelRule
<1>4. (m - 2) \div 4 = (m \div 4) - 1
  BY <1>2
<1>5. Level(m + 2, TRUE) = m \div 4 /\ Level(m + 1, FALSE) = (m - 2) \div 4
  BY <1>2 DEF Level
<1>6. m + 1 \in 1..(m + 2) /\ (m + 2 - 2) \div 4 = m \div 4
  OBVIOUS
<1>7. Level(m + 2, TRUE) >= 1 /\ Level(m + 1, FALSE) = Level(m + 2, TRUE) - 1
  BY <1>2, <1>4, <1>5
<1>8. QED
  BY <1>3, <1>5, <1>6, <1>7, Zenon

LEMMA InnerBrackets ==
  ASSUME Held, status = "run", NEW m \in Nat, Len(stack) = m + 2, LevelRule(m + 2) = "atom"
  PROVE  \A i \in 1..m : InBracket(stack[i]) => (i - 2) \div 4 < (m + 2 - 2) \div 4
<1>1. SUFFICES ASSUME NEW i \in 1..m, InBracket(stack[i])
               PROVE  (i - 2) \div 4 < (m + 2 - 2) \div 4
  OBVIOUS
<1>2. i \in 1..(m + 2 - 1) /\ i \in 1..(m + 2) /\ m + 2 \in Nat \ {0}
  BY <1>1
<1>3. LevelRule(i) = "atom"
  <2>1. i \in 1..Len(stack) /\ stack[i].rule = "atom"
    BY <1>1, <1>2 DEF InBracket
  <2>2. QED
    BY <2>1, LevelsHeld, Zenon
<1>4. PICK size \in Nat \ {0} : size = m + 2
  BY <1>2, Zenon
<1>5. i \in 1..(size - 1) /\ LevelRule(size) = "atom"
  BY <1>2, <1>4
<1>6. (i - 2) \div 4 < (size - 2) \div 4
  BY <1>3, <1>5, AtomLevels, Zenon
<1>7. QED
  BY <1>4, <1>6

LEMMA LastPlace ==
  ASSUME NEW m \in Nat, NEW size, size = m + 2
  PROVE  m + 2 \in 1..size
OBVIOUS

LEMMA Quarters ==
  ASSUME NEW m \in Nat, NEW j, j = m + 2
  PROVE  (j - 2) \div 4 = (m + 2 - 2) \div 4
OBVIOUS

LEMMA QuarterInt ==
  ASSUME NEW m \in Nat
  PROVE  (m + 2 - 2) \div 4 \in Int
OBVIOUS

\* The closing bracket of the running bracket.
LEMMA BracketCloses ==
  ASSUME NEW n, Live(n), NEW alt, alt = Alternatives[n], PopRule(alt), Takes(alt) = 1,
         alt.a = "close", Top.rule = "atom", Top.phase = "close", Exact, Consumed # 0,
         Kind(Consumed) \notin Counts, Len(la) >= 1,
         \/ la[1] = "RP" /\ Top.grp = "group"
         \/ la[1] = "CB" /\ Top.grp = "opt"
  PROVE  Reading'
<1>1. Consumed \in Nat /\ Len(la) \in Nat /\ Len(stack) \in Nat \ {0}
      /\ LevelRule(Len(stack)) = "atom"
  BY LiveFacts, Sizes
<1>2. Runs(n) /\ Waiting /\ ~HasHole /\ Held /\ status = "run"
  BY LiveFacts
<1>3. Fires(alt)
  BY DEF PopRule, Ends
<1>4. input' = input /\ Consumed' = Consumed + 1
  BY <1>2, <1>3, Firing, Zenon
<1>5. Consumed' # 0 /\ 1 \in 1..Len(la) /\ Consumed \in Nat \ {0}
  BY <1>1, <1>4, Positions, Zenon
<1>6. KindAt(input, Consumed + 1) = la[1]
  BY <1>1, <1>5, NextKind, Zenon
<1>7. Top \in Frames /\ input \in Seq(Lexemes)
  BY LiveFacts, Sizes
<1>8. /\ Len(stack) > 1 /\ Len(stack') = Len(stack) - 1
      /\ Top'.rule = LevelRule(Len(stack) - 1) /\ Top'.phase = "close"
      /\ Top'.child = Acted(Top, alt.a).node /\ Waiting' /\ (HasHole' <=> HasHole)
      /\ \A i \in 1..(Len(stack) - 2) : stack'[i] = stack[i]
  BY <1>2, AfterPop, Zenon
<1>9. PICK m \in Nat : Len(stack) = m + 2 /\ Len(stack) - 1 = m + 1 /\ Len(stack) - 2 = m
  BY <1>1, <1>8, TwoBelow, Zenon
<1>10. /\ Level(m + 2, TRUE) = (m + 2 - 2) \div 4 /\ Level(m + 2, TRUE) >= 1
       /\ LevelRule(m + 1) = "elem" /\ Level(m + 1, FALSE) = Level(m + 2, TRUE) - 1
       /\ m + 1 \in 1..(m + 2)
  BY <1>1, <1>9, ClosingDepth, Zenon
<1>11. /\ stack[m + 1].rule = "elem" /\ Top'.rule = "elem"
       /\ Len(stack') = m + 1 /\ stack'[m + 1] = Top' /\ stack[m + 2] = Top
  BY <1>2, <1>8, <1>9, <1>10, LevelsHeld, Zenon DEF Top
<1>12. InBracket(Top) = TRUE /\ InBracket(Top') = FALSE /\ InBracket(stack[m + 1]) = FALSE
  <2>1. Top.grp # ""
    OBVIOUS
  <2>2. InBracket(Top) /\ ~InBracket(Top') /\ ~InBracket(stack[m + 1])
    BY <1>11, <2>1, BracketPhase, Zenon
  <2>3. QED
    BY <2>2, BracketPhase
<1>13. Depth(input, Consumed) = Level(m + 2, TRUE)
  BY <1>9, <1>12, LiveFacts, Zenon DEF Unclosed
<1>14. KindAt(input, Consumed + 1) = (IF Top.grp = "group" THEN "RP" ELSE "CB")
  BY <1>6
<1>15. /\ Nested(input, Consumed + 1, stack') /\ Sounded(input, Consumed + 1, stack')
       /\ Depth(input, Consumed + 1) = Depth(input, Consumed) - 1
  <2>1. Nested(input, Consumed, stack) /\ Sounded(input, Consumed, stack)
    BY LiveFacts
  <2>2. \A i \in 1..m : stack'[i] = stack[i]
    BY <1>8, <1>9, Zenon
  <2>3. ~InBracket(stack[m + 1]) /\ ~InBracket(stack'[m + 1]) /\ InBracket(stack[m + 2])
    BY <1>11, <1>12, Zenon
  <2>4. \A i \in 1..m : InBracket(stack[i]) => (i - 2) \div 4 < (m + 2 - 2) \div 4
    BY <1>1, <1>2, <1>9, InnerBrackets, Zenon
  <2>5. Depth(input, Consumed) = (m + 2 - 2) \div 4 /\ Depth(input, Consumed) >= 1
    BY <1>10, <1>13, Zenon
  <2>6. KindAt(input, Consumed + 1) = (IF stack[m + 2].grp = "group" THEN "RP" ELSE "CB")
    BY <1>11, <1>14, Zenon
  <2>7. QED
    BY <1>5, <1>7, <1>9, <1>11, <2>1, <2>2, <2>3, <2>4, <2>5, <2>6, ReadClose, Zenon DEF Kind
<1>16. Depth(input, Consumed') = Unclosed'
  <2>1. Depth(input, Consumed') = Level(m + 1, FALSE)
    BY <1>4, <1>10, <1>13, <1>15, Zenon
  <2>2. QED
    BY <1>11, <1>12, <2>1, Zenon DEF Unclosed
<1>17. Shape'
  <2>1. KindAt(input', Consumed') \notin Counts
    BY <1>4, <1>6 DEF Counts
  <2>2. QED
    BY <1>5, <1>8, <1>11, <2>1, PlainShape, Zenon
<1>18. Good'
  BY <1>2, <1>3, <1>4, <1>5, <1>8, <1>15, <1>16, <1>17, ExactFires, MakesGood, Zenon
<1>19. ~Pending'
  <2>1. Top'.child.kind = Top.grp
    <3>1. Acted(Top, "close").node.kind = Top.grp
      BY <1>7, ActedParts
    <3>2. QED
      BY <1>8, <3>1, Zenon
  <2>2. QED
    BY <2>1 DEF Pending
<1>20. QED
  BY <1>2, <1>8, <1>18, <1>19, KeepsReading, Zenon

\* A bracket that ends without its closing bracket.
LEMMA BracketFails ==
  ASSUME NEW n, Live(n), NEW alt, alt = Alternatives[n], PopRule(alt), Takes(alt) = 0,
         alt.a = "", Top.rule = "atom", Top.grp # "", Exact, Stopped(la),
         la[1] # "ALT", ~(la[1] = "RP" /\ Top.grp = "group"),
         ~(la[1] = "CB" /\ Top.grp = "opt")
  PROVE  Reading'
<1>1. Consumed \in Nat /\ Len(la) \in Nat /\ Len(stack) \in Nat \ {0}
      /\ LevelRule(Len(stack)) = "atom"
  BY LiveFacts, Sizes
<1>2. Runs(n) /\ Waiting /\ Held /\ status = "run" /\ Proper(input)
  BY LiveFacts DEF Live
<1>3. Fires(alt)
  BY DEF PopRule, Ends
<1>4. input' = input
  BY <1>2, <1>3, Firing, Zenon
<1>5. Top \in Frames /\ input \in Seq(Lexemes)
  BY LiveFacts, Sizes
<1>6. /\ Len(stack) > 1 /\ Top'.rule = LevelRule(Len(stack) - 1) /\ Top'.phase = "close"
      /\ Top'.child = Acted(Top, alt.a).node
  BY <1>2, AfterPop, Zenon
<1>7. PICK m \in Nat : Len(stack) = m + 2 /\ Len(stack) - 1 = m + 1 /\ Len(stack) - 2 = m
  BY <1>1, <1>6, TwoBelow, Zenon
<1>8. /\ Level(m + 2, TRUE) = (m + 2 - 2) \div 4 /\ LevelRule(m + 1) = "elem"
  BY <1>1, <1>7, ClosingDepth, Zenon
<1>9. InBracket(Top) /\ InBracket(Top) = TRUE
  <2>1. InBracket(Top)
    BY BracketPhase, Zenon
  <2>2. QED
    BY <2>1, BracketPhase
<1>10. Depth(input, Consumed) = (m + 2 - 2) \div 4
  BY <1>7, <1>8, <1>9, LiveFacts, Zenon DEF Unclosed
<1>11. /\ OpenAt(input, Consumed, Top.at, Top.grp, (m + 2 - 2) \div 4)
       /\ Top.node.kind = "undefined"
  <2>1. m + 2 \in 1..Len(stack)
    BY <1>7, LastPlace, Zenon
  <2>2. stack[m + 2] = Top
    BY <1>7, Zenon DEF Top
  <2>3. Nested(input, Consumed, stack)
    BY LiveFacts
  <2>4. OpenAt(input, Consumed, stack[m + 2].at, stack[m + 2].grp, (m + 2 - 2) \div 4)
        /\ stack[m + 2].node.kind = "undefined"
    <3>1. PICK j : j = m + 2
      OBVIOUS
    <3>2. /\ j \in 1..Len(stack) /\ InBracket(stack[j])
      BY <1>9, <2>1, <2>2, <3>1, Zenon
    <3>3. /\ OpenAt(input, Consumed, stack[j].at, stack[j].grp, (j - 2) \div 4)
          /\ stack[j].node.kind = "undefined"
      BY <2>3, <3>2, NestedAt, Zenon
    <3>4. (j - 2) \div 4 = (m + 2 - 2) \div 4
      BY <1>7, <3>1, Quarters, Zenon
    <3>5. QED
      BY <3>1, <3>3, <3>4, Zenon
  <2>5. QED
    BY <2>2, <2>4, Zenon
<1>12. Pending'
  <2>1. Top'.child = Top.node
    BY <1>5, <1>6, ActedParts, Zenon
  <2>2. QED
    BY <1>6, <1>7, <1>8, <1>11, <2>1, Zenon DEF Pending, At
<1>13. SomeDoomed(input)
  <2>1. /\ KindAt(input, Consumed + 1) = la[1] /\ Consumed + 1 \in DOMAIN input
        /\ la[1] \notin {"ALT", "ZZ", "RP", "CB"} => IsHeader(input, Consumed + 1)
    BY <1>2, StoppedText, Zenon
  <2>2. \/ /\ KindAt(input, Consumed + 1) \in {"RP", "CB"}
           /\ KindAt(input, Consumed + 1) # IF Top.grp = "group" THEN "RP" ELSE "CB"
        \/ IsHeader(input, Consumed + 1)
        \/ KindAt(input, Consumed + 1) = "ZZ"
    <3>1. Top.grp \in {"group", "opt"}
      BY <1>5 DEF Frames
    <3>2. \/ la[1] \in {"RP", "CB"} /\ la[1] # IF Top.grp = "group" THEN "RP" ELSE "CB"
          \/ la[1] = "ZZ"
          \/ la[1] \notin {"ALT", "ZZ", "RP", "CB"}
      BY <3>1
    <3>3. QED
      BY <2>1, <3>2, Zenon
  <2>3. (m + 2 - 2) \div 4 \in Int
    BY <1>7, QuarterInt, Zenon
  <2>4. QED
    BY <1>1, <1>2, <1>5, <1>10, <1>11, <2>1, <2>2, <2>3, OpenIsDoomed, Zenon
<1>14. QED
  BY <1>4, <1>12, <1>13 DEF Reading, Holed

\* A leaf returns to its element.
LEMMA LeafReturns ==
  ASSUME NEW n, Live(n), NEW alt, alt = Alternatives[n], PopRule(alt), Takes(alt) = 0,
         alt.a = "", Top.rule = "atom", Top.grp = "", Top.node.kind # "undefined",
         Exact, Consumed # 0, Kind(Consumed) \notin Counts
  PROVE  Reading'
<1>1. Len(stack) \in Nat \ {0} /\ LevelRule(Len(stack)) = "atom"
  BY LiveFacts, Sizes
<1>2. Runs(n) /\ Waiting
  BY LiveFacts
<1>3. Fires(alt)
  BY DEF PopRule, Ends
<1>4. input' = input /\ Consumed' = Consumed
  BY <1>2, <1>3, SameTokens, Zenon
<1>5. Top \in Frames
  BY LiveFacts, Sizes
<1>6. /\ Len(stack) > 1 /\ Top'.rule = LevelRule(Len(stack) - 1) /\ Top'.phase = "close"
      /\ Top'.child = Acted(Top, alt.a).node
  BY <1>2, AfterPop, Zenon
<1>7. PICK m \in Nat : Len(stack) = m + 2 /\ Len(stack) - 1 = m + 1 /\ Len(stack) - 2 = m
  BY <1>1, <1>6, TwoBelow, Zenon
<1>8. Top'.rule = "elem"
  BY <1>1, <1>6, <1>7, ClosingDepth, Zenon
<1>9. ~Pending'
  <2>1. Top'.child = Top.node
    BY <1>5, <1>6, ActedParts, Zenon
  <2>2. QED
    BY <2>1, Zenon DEF Pending
<1>10. Shape'
  BY <1>4, <1>6, <1>8, PlainShape, Zenon DEF Kind
<1>11. ~InBracket(Top)
  BY BracketPhase, Zenon
<1>12. QED
  BY <1>9, <1>10, <1>11, QuietPop, Zenon

LEMMA AtomCloseReads ==
  ASSUME NEW n, Live(n), NEW alt, alt = Alternatives[n], Acts(alt), At("atom", "close")
  PROVE  Reading'
<1>1. Len(la) \in Nat /\ Len(stack) \in Nat \ {0} /\ LevelRule(Len(stack)) = Top.rule
  BY LiveFacts, Sizes
<1>2. /\ Runs(n) /\ Accurate /\ Consumed # 0 /\ Kind(Consumed) \notin Counts
      /\ Top.rule = "atom" /\ Top.phase = "close" /\ ~At("elem", "open")
      /\ IF Top.grp = "" THEN Top.node.kind # "undefined" ELSE Stopped(la) /\ la[1] # "ALT"
  BY LiveFacts DEF At, Shape
<1>3. Exact
  BY <1>1, <1>2, ExactBut
<1>4. Settled(n)
  BY <1>2, ActsFires, Firing, Zenon
<1>5. Len(stack) # 1
  BY <1>1, <1>2, LevelOne
<1>6. \A k, a : Does(alt, k, "", "", a) => PopRule(alt) /\ Takes(alt) = k /\ alt.a = a
  BY <1>1, <1>2, <1>5, ActsEnd, Zenon
<1>7. \/ /\ PopRule(alt) /\ Takes(alt) = 1 /\ alt.a = "close" /\ Len(la) >= 1
         /\ \/ la[1] = "RP" /\ Top.grp = "group"
            \/ la[1] = "CB" /\ Top.grp = "opt"
      \/ /\ PopRule(alt) /\ Takes(alt) = 0 /\ alt.a = ""
         /\ ~(la[1] = "RP" /\ Top.grp = "group") /\ ~(la[1] = "CB" /\ Top.grp = "opt")
  BY <1>2, <1>4, <1>6, AtomCloseDoes, Zenon
<1>8. CASE Top.grp = ""
  <2>1. Top.node.kind # "undefined" /\ Top.grp # "group" /\ Top.grp # "opt"
    BY <1>2, <1>8
  <2>2. QED
    BY <1>2, <1>3, <1>7, <1>8, <2>1, LeafReturns, Zenon
<1>9. CASE Top.grp # ""
  <2>1. Stopped(la) /\ la[1] # "ALT"
    BY <1>2, <1>9
  <2>2. QED
    BY <1>2, <1>3, <1>7, <1>9, <2>1, BracketCloses, BracketFails, Zenon
<1>10. QED
  BY <1>8, <1>9

LEMMA Two ==
  ASSUME NEW size \in Nat, size <= 2, size >= 2
  PROVE  size = 2
OBVIOUS

\* A production's name and its `=' come next, in the text as in the tokens.
LEMMA HeaderComes ==
  ASSUME NEW n, Live(n), HeaderNext(la), At("prod", "open")
  PROVE  /\ IsHeader(input, Consumed + 1) /\ KindAt(input, Consumed + 2) \in Defines
         /\ KindAt(input, Consumed) \notin Counts
         /\ Consumed # 0 => Exact
         /\ Consumed = 0 => Len(la) = 2
<1>1. /\ Len(la) \in Nat /\ Consumed \in Nat /\ Len(input) \in Nat /\ input \in Seq(Lexemes)
      /\ Len(la) <= Len(input)
  BY LiveFacts, Sizes
<1>2. /\ Accurate /\ ~At("atom", "open") /\ ~At("elem", "open")
      /\ Kind(Consumed) \in Counts => At("atom", "open")
  BY LiveFacts DEF At
<1>3. Proper(input)
  BY DEF Live
<1>4. /\ Len(la) >= 2 /\ la[2] \in Defines
      /\ \/ la[1] = "TX"
         \/ la[1] = "PV" /\ la[2] = "DEF"
  BY DEF HeaderNext, Defines
<1>5. KindAt(input, Consumed) \notin Counts
  BY <1>2 DEF Kind
<1>6. 1 \in 1..Len(la) /\ 2 \in 1..Len(la) /\ Len(la) >= 1
  BY <1>1, <1>4
<1>7. ASSUME Consumed # 0
      PROVE  Exact
  BY <1>1, <1>2, <1>7, ExactBut
<1>8. CASE Consumed # 0
  <2>1. KindAt(input, Consumed + 1) = la[1] /\ KindAt(input, Consumed + 2) = la[2]
    BY <1>1, <1>6, <1>7, <1>8, NextKind, Zenon
  <2>2. \/ KindAt(input, Consumed + 1) = "TX" /\ KindAt(input, Consumed + 2) \in Defines
        \/ KindAt(input, Consumed + 1) = "PV" /\ KindAt(input, Consumed + 2) = "DEF"
    BY <1>4, <2>1, Zenon
  <2>3. Consumed \in Int
    BY <1>1
  <2>4. IsHeader(input, Consumed + 1)
    BY <2>2, <2>3, HeaderAhead, Zenon
  <2>5. QED
    BY <1>4, <1>5, <1>7, <1>8, <2>1, <2>4, Zenon
<1>9. CASE Consumed = 0
  <2>1. /\ Len(la) = 2
        /\ \/ la[1] = KindAt(input, 1) \/ la[1] = "NR"
           \/ la[1] = "TX" /\ KindAt(input, 1) \in {"NV", "SS", "SI", "PV"}
        /\ la[2] = KindAt(input, 2) \/ la[2] \in {"NR", "TX"}
    <3>1. /\ Len(la) <= 2
          /\ Len(la) >= 1 => \/ la[1] = Kind(1)
                             \/ la[1] = "NR"
                             \/ la[1] = "TX" /\ Kind(1) \in {"NV", "SS", "SI", "PV"}
          /\ Len(la) >= 2 => la[2] = Kind(2) \/ la[2] \in {"NR", "TX"}
      BY <1>2, <1>9, Zenon DEF Accurate
    <3>2. Len(la) = 2
      BY <1>1, <1>4, <3>1, Two, Zenon
    <3>3. QED
      BY <1>4, <1>6, <3>1, <3>2, Zenon DEF Kind
  <2>2. la[2] = KindAt(input, 2) /\ KindAt(input, 2) # "ST"
    BY <1>4, <2>1 DEF Defines
  <2>3. KindAt(input, 1) \notin {"SS", "SI"}
    <3>1. 1 \in DOMAIN input /\ 1 < Len(input) /\ 1 + 1 = 2
      BY <1>1, <1>4, LenProperties
    <3>2. KindAt(input, 1) \in {"SS", "SI"} => KindAt(input, 1 + 1) = "ST"
      BY <1>3, <3>1 DEF Proper
    <3>3. QED
      BY <2>2, <3>1, <3>2
  <2>4. IsHeader(input, 1)
    <3>1. \/ KindAt(input, 1) = "TX" /\ KindAt(input, 2) \in Defines
          \/ KindAt(input, 1) \in {"PV", "NV"} /\ KindAt(input, 2) \in Defines
      BY <1>4, <2>1, <2>2, <2>3
    <3>2. 1 + 1 = 2
      OBVIOUS
    <3>3. QED
      BY <3>1, <3>2 DEF IsHeader
  <2>5. Consumed + 1 = 1 /\ Consumed + 2 = 2
    BY <1>9
  <2>6. QED
    BY <1>4, <1>5, <1>9, <2>1, <2>2, <2>4, <2>5, Zenon
<1>10. QED
  BY <1>8, <1>9

LEMMA ProdOpenReads ==
  ASSUME NEW n, Live(n), NEW alt, alt = Alternatives[n], Acts(alt), At("prod", "open")
  PROVE  Reading'
<1>1. /\ Len(la) \in Nat /\ Consumed \in Nat /\ Len(stack) \in Nat \ {0}
      /\ Top.rule = LevelRule(Len(stack))
  BY LiveFacts, Sizes
<1>2. /\ Runs(n) /\ Waiting /\ ~HasHole /\ Held /\ status = "run"
      /\ Top.rule = "prod" /\ Top.phase = "open"
  BY LiveFacts DEF At
<1>3. Settled(n) /\ Fires(alt)
  BY <1>2, ActsFires, Firing, Zenon
<1>4. /\ Does(alt, 2, "alts", "", "define") \/ Does(alt, 2, "alts", "", "extend")
      /\ HeaderNext(la)
  BY <1>2, <1>3, ProdOpenDoes, Zenon
<1>5. PushRule(alt) /\ Takes(alt) = 2 /\ alt.p = "alts"
  BY <1>4, Named, ActsPush, Zenon
<1>6. HeaderNext(la)
  BY <1>4
<1>7. /\ IsHeader(input, Consumed + 1) /\ KindAt(input, Consumed + 2) \in Defines
      /\ KindAt(input, Consumed) \notin Counts
      /\ Consumed # 0 => Exact
      /\ Consumed = 0 => Len(la) = 2
  BY <1>6, HeaderComes, Zenon
<1>8. /\ input' = input /\ Consumed' = Consumed + 2 /\ Len(la') = Len(la) - 2
  BY <1>2, <1>3, <1>5, Firing, Zenon
<1>9. Consumed' # 0 /\ (Consumed = 0 => Len(la') = 0)
  <2>1. Consumed + 2 # 0
    BY <1>1
  <2>2. Len(la) = 2 => Len(la) - 2 = 0
    OBVIOUS
  <2>3. QED
    BY <1>7, <1>8, <2>1, <2>2, Zenon
<1>10. Exact'
  <2>1. CASE Consumed = 0
    <3>1. \A k \in 1..Len(la') : FALSE
      BY <1>9, <2>1
    <3>2. QED
      BY <3>1 DEF Exact
  <2>2. CASE Consumed # 0
    BY <1>2, <1>3, <1>7, <2>2, ExactFires, Zenon
  <2>3. QED
    BY <2>1, <2>2
<1>11. Len(stack) = 2
  BY <1>1, <1>2, Levels
<1>12. \A j \in 1..Len(stack) : ~InBracket(stack[j])
  <2>1. \A j \in 1..2 : LevelRule(j) # "atom"
    BY DEF LevelRule
  <2>2. \A j \in 1..Len(stack) : stack[j].rule = LevelRule(j)
    BY <1>2, LevelsHeld, Zenon
  <2>3. QED
    BY <1>11, <2>1, <2>2 DEF InBracket
<1>13. /\ Top'.rule = alt.p /\ Top'.phase = "open" /\ Top'.grp = "" /\ Waiting' /\ ~Pending'
       /\ Len(stack') = Len(stack) + 1 /\ (HasHole' <=> HasHole)
       /\ SameBrackets(stack, stack')
  <2>1. Top.rule # "atom"
    BY <1>2
  <2>2. QED
    BY <1>2, <1>5, <2>1, AfterPush, Zenon
<1>14. InBracket(Top) = FALSE /\ InBracket(Top') = FALSE
  BY <1>2, <1>13, BracketPhase
<1>15. /\ Nested(input, Consumed + 2, stack) /\ Sounded(input, Consumed + 2, stack)
       /\ Depth(input, Consumed + 2) = 0
  <2>1. Level(Len(stack), FALSE) = 0
    BY <1>11 DEF Level
  <2>2. Depth(input, Consumed) = 0
    BY <1>14, <2>1, LiveFacts, Zenon DEF Unclosed
  <2>3. Sounded(input, Consumed, stack)
    BY LiveFacts
  <2>4. input \in Seq(Lexemes)
    BY LiveFacts, Sizes
  <2>5. QED
    BY <1>1, <1>7, <1>12, <2>2, <2>3, <2>4, ReadHeader, Zenon
<1>16. Nested(input, Consumed', stack') /\ Sounded(input, Consumed', stack')
  BY <1>8, <1>13, <1>15, SameNested, SameSounded, Zenon
<1>17. Depth(input, Consumed') = Unclosed'
  <2>1. Level(Len(stack) + 1, FALSE) = 0
    BY <1>11 DEF Level
  <2>2. QED
    BY <1>8, <1>13, <1>14, <1>15, <2>1, Zenon DEF Unclosed
<1>18. Shape'
  <2>1. KindAt(input', Consumed') \notin Counts
    BY <1>7, <1>8 DEF Counts, Defines
  <2>2. QED
    BY <1>5, <1>9, <1>13, <2>1, PlainShape, Zenon
<1>19. Good'
  BY <1>8, <1>9, <1>10, <1>13, <1>16, <1>17, <1>18, MakesGood, Zenon
<1>20. QED
  BY <1>2, <1>13, <1>19, KeepsReading, Zenon

LEMMA ProdShape ==
  ASSUME Consumed' # 0, KindAt(input', Consumed') \notin Counts, HeaderNext(la'),
         Top'.rule = "prod", Top'.phase = "open"
  PROVE  Shape'
BY DEF Shape, At, Kind

LEMMA ProdCloseReads ==
  ASSUME NEW n, Live(n), NEW alt, alt = Alternatives[n], Acts(alt), At("prod", "close")
  PROVE  Reading'
<1>1. /\ Len(la) \in Nat /\ Consumed \in Nat /\ Len(stack) \in Nat \ {0}
      /\ Top.rule = LevelRule(Len(stack))
  BY LiveFacts, Sizes
<1>2. /\ Runs(n) /\ Waiting /\ Accurate /\ Consumed # 0 /\ Kind(Consumed) \notin Counts
      /\ Top.rule = "prod" /\ Top.phase = "close" /\ ~At("elem", "open") /\ Stopped(la)
      /\ ~HasHole /\ Good
  BY LiveFacts DEF At, Shape
<1>3. Exact
  BY <1>1, <1>2, ExactBut
<1>4. Settled(n) /\ Fires(alt)
  BY <1>2, ActsFires, Firing, Zenon
<1>5. /\ Does(alt, 0, "", "prod", "") \/ Does(alt, 0, "", "", "")
      /\ alt.r # "" => HeaderNext(la)
  BY <1>2, <1>4, ProdCloseDoes, Zenon
<1>6. Top.rule # "atom" /\ Len(stack) # 1
  BY <1>1, <1>2, LevelOne
<1>7. CASE Does(alt, 0, "", "prod", "")
  <2>1. ReplaceRule(alt) /\ Takes(alt) = 0
    BY <1>2, <1>7, Named, ActsReplace, Zenon
  <2>2. alt.r # ""
    BY <1>7 DEF Does
  <2>3. HeaderNext(la)
    BY <1>5, <2>2
  <2>4. Consumed' = Consumed /\ input' = input /\ HeaderNext(la')
    BY <1>2, <1>4, <2>1, <2>3, SameTokens, Zenon
  <2>5. /\ Len(stack') = Len(stack) /\ Top'.rule = "prod" /\ Top'.phase = "open"
        /\ Waiting' /\ heap' = heap /\ SameBrackets(stack, stack')
    BY <1>2, <2>1, AfterReplace, Zenon
  <2>6. Shape'
    BY <1>2, <2>4, <2>5, ProdShape, Zenon DEF Kind
  <2>7. Unclosed' = Unclosed
    <3>1. InBracket(Top) = FALSE /\ InBracket(Top') = FALSE
      BY <1>6, <2>5, BracketPhase
    <3>2. QED
      BY <2>5, <3>1, Zenon DEF Unclosed
  <2>8. Good'
    BY <1>2, <1>3, <1>4, <2>4, <2>5, <2>6, <2>7, ExactFires, StaysGood, Zenon
  <2>9. ~HasHole' /\ ~Pending'
    BY <1>2, <2>5 DEF HasHole, Pending, At
  <2>10. QED
    BY <2>8, <2>9, KeepsReading, Zenon
<1>8. CASE Does(alt, 0, "", "", "")
  <2>1. PopRule(alt) /\ Takes(alt) = 0
    BY <1>1, <1>2, <1>6, <1>8, ActsEnd, Zenon
  <2>2. /\ Top'.rule = LevelRule(Len(stack) - 1) /\ Top'.phase = "close" /\ Len(stack) > 1
    BY <1>2, <2>1, AfterPop, Zenon
  <2>3. Top'.rule = "abnf"
    BY <1>1, <1>2, <2>2, LevelParents
  <2>4. Consumed' = Consumed /\ input' = input /\ Stopped(la') /\ Len(la') \in Nat
    BY <1>2, <1>4, <2>1, SameTokens, Zenon
  <2>5. Top'.rule \in {"abnf", "prod", "alts"}
    BY <2>3
  <2>6. Shape'
    BY <1>2, <2>2, <2>4, <2>5, StoppedShape, Zenon DEF Kind
  <2>7. ~InBracket(Top) /\ ~Pending'
    BY <1>6, <2>3, BracketPhase DEF Pending, At
  <2>8. QED
    BY <1>2, <1>3, <2>1, <2>6, <2>7, QuietPop, Zenon
<1>9. QED
  BY <1>5, <1>7, <1>8

\* The text is taken only once all of it has been read, brackets closed.
LEMMA AbnfCloseReads ==
  ASSUME NEW n, Live(n), NEW alt, alt = Alternatives[n], Acts(alt), At("abnf", "close")
  PROVE  Reading' /\ Finished'
<1>1. /\ Len(la) \in Nat /\ Consumed \in Nat /\ Len(stack) \in Nat \ {0}
      /\ Top.rule = LevelRule(Len(stack))
  BY LiveFacts, Sizes
<1>2. /\ Runs(n) /\ Accurate /\ Consumed # 0 /\ Kind(Consumed) \notin Counts
      /\ Top.rule = "abnf" /\ Top.phase = "close" /\ ~At("elem", "open")
      /\ ~HasHole /\ Sounded(input, Consumed, stack) /\ Held /\ status = "run"
  BY LiveFacts DEF At, Shape
<1>3. Exact
  BY <1>1, <1>2, ExactBut
<1>4. Settled(n) /\ Fires(alt)
  BY <1>2, ActsFires, Firing, Zenon
<1>5. Does(alt, 1, "", "", "") /\ Len(la) >= 1 /\ la[1] = "ZZ"
  BY <1>2, <1>4, AbnfCloseDoes, Zenon
<1>6. Len(la) >= 1 /\ la[1] = "ZZ"
  BY <1>5
<1>7. Len(stack) = 1
  BY <1>1, <1>2, LevelOne
<1>8. Accept(alt)
  BY <1>1, <1>2, <1>5, <1>7, ActsEnd, Zenon
<1>9. status' = "done" /\ heap' = heap /\ input' = input
  BY <1>8 DEF Accept, Ends, Fires
<1>10. input \in Seq(Lexemes) /\ Proper(input)
  BY LiveFacts, Sizes DEF Live
<1>11. Stopped(la)
  BY <1>6 DEF Stopped
<1>12. KindAt(input, Consumed + 1) = "ZZ" /\ Consumed + 1 \in DOMAIN input
  BY <1>2, <1>3, <1>6, <1>11, StoppedText, Zenon
<1>13. \A j \in 1..Len(stack) : ~InBracket(stack[j])
  <2>1. \A j \in 1..1 : j = 1
    OBVIOUS
  <2>2. ~InBracket(stack[1])
    BY <1>2, <1>7 DEF InBracket, Top
  <2>3. QED
    BY <1>7, <2>1, <2>2, Zenon
<1>14. /\ IsHeader(input, 1) /\ \A i \in 1..Consumed : SoundAt(input, i)
       /\ \A i \in Opens(input) : i <= Consumed => \E j \in Closes(input) : Pairs(input, i, j)
  <2>1. Consumed > 0
    BY <1>1, <1>2
  <2>2. QED
    BY <1>2, <1>13, <2>1 DEF Sounded
<1>15. WellFormed(input)
  BY <1>1, <1>2, <1>10, <1>12, <1>14, SoundIsWellFormed, Zenon DEF Kind
<1>16. ~HasHole'
  BY <1>2, <1>9 DEF HasHole
<1>17. QED
  BY <1>9, <1>15, <1>16 DEF Reading, Finished

\* A parse that goes well.
LEMMA GoodReads ==
  ASSUME NEW n, Live(n), NEW alt, alt = Alternatives[n], Acts(alt)
  PROVE  Reading'
<1>1. Top.rule \in RuleNames /\ Top.phase \in {"open", "close"}
  BY LiveFacts, Sizes
<1>2. \/ Top.rule = "seq"
      \/ At("abnf", "open") \/ At("abnf", "close") \/ At("prod", "open") \/ At("prod", "close")
      \/ At("alts", "open") \/ At("alts", "close") \/ At("elem", "open") \/ At("elem", "close")
      \/ At("atom", "open") \/ At("atom", "close")
  BY <1>1 DEF At, RuleNames
<1>3. QED
  BY <1>2, AbnfOpenReads, AbnfCloseReads, ProdOpenReads, ProdCloseReads, AltsOpenReads,
     AltsCloseReads, SeqReads, ElemOpenReads, ElemCloseReads, AtomOpenReads, AtomCloseReads,
     Zenon

\* Only abnf, the first frame, accepts.
LEMMA AcceptsAtEnd ==
  ASSUME Held, status = "run", NEW alt, Accept(alt)
  PROVE  At("abnf", "close") /\ heap' = heap /\ input' = input /\ status' = "done"
<1>1. Top.phase = "close" /\ Len(stack) = 1 /\ heap' = heap /\ input' = input /\ status' = "done"
  BY DEF Accept, Ends, Fires
<1>2. Len(stack) \in Nat \ {0} /\ Top.rule = LevelRule(Len(stack))
  BY Sizes
<1>3. Top.rule = "abnf"
  BY <1>1, <1>2, LevelOne
<1>4. QED
  BY <1>1, <1>3 DEF At

LEMMA GoesOn ==
  ASSUME NEW alt, Acts(alt), ~Accept(alt), status = "run"
  PROVE  status' = "run"
BY DEF Acts, PushRule, EndOpen, ReplaceRule, PopRule

\* A token that no alternative takes stays the next one.
LEMMA StuckTakesNone ==
  ASSUME NEW n, Runs(n), NEW alt, alt = Alternatives[n], Acts(alt), Stuck
  PROVE  Takes(alt) = 0 /\ ~Accept(alt) /\ Len(la) >= 1 /\ la[1] \in Never
<1>1. Settled(n) /\ status = "run" /\ Held
  BY ActsFires, Firing, Zenon DEF Runs
<1>2. Top.rule \in RuleNames /\ Top.phase \in {"open", "close"}
  BY <1>1, Sizes
<1>3. Len(la) >= 1 /\ (la[1] \in Never \/ (At("atom", "open") /\ la[1] \notin ATOM))
  BY DEF Stuck
<1>4. /\ \A k, p, r, a : Does(alt, k, p, r, a) => Takes(alt) = k
      /\ \A p : p \in Never => p \notin ATOM \union Counts \union {"ALT", "ZZ", "RP", "CB"}
      /\ \A p : p \in {"ST", "NV", "TX", "LP", "OB", "SS", "SI", "PV"} => p \in ATOM
      /\ \A p : p \in {"NUM", "STAR"} => p \in Counts
  BY DEF Does, Never, ATOM, Counts
<1>5. HeaderNext(la) => la[1] \in ATOM /\ la[1] \notin Never
  BY DEF HeaderNext, ATOM, Never
<1>6. At("abnf", "close") => la[1] = "ZZ"
  BY <1>1, AbnfCloseDoes, Zenon DEF At
<1>7. ~At("abnf", "close")
  <2>1. "abnf" # "atom" /\ "ZZ" \in {"ALT", "ZZ", "RP", "CB"}
    OBVIOUS
  <2>2. QED
    BY <1>3, <1>4, <1>6, <2>1, Zenon DEF At
<1>8. ~Accept(alt)
  BY <1>1, <1>7, AcceptsAtEnd, Zenon
<1>9. CASE Top.rule = "abnf"
  <2>1. Top.phase = "open"
    BY <1>2, <1>7, <1>9 DEF At
  <2>2. \/ Does(alt, 0, "prod", "", "")
        \/ Does(alt, 1, "", "", "")
    BY <1>1, <1>9, <2>1, AbnfOpenDoes, Zenon
  <2>3. alt.p = "" => la[1] = "ZZ"
    BY <1>1, <1>9, <2>1, AbnfOpenDoes, Zenon
  <2>4. Does(alt, 1, "", "", "") => la[1] = "ZZ"
    BY <2>3 DEF Does
  <2>5. la[1] # "ZZ" /\ la[1] \in Never
    BY <1>3, <1>9 DEF At, Never
  <2>6. QED
    BY <1>3, <1>4, <1>8, <2>2, <2>4, <2>5, Zenon
<1>10. CASE Top.rule = "prod"
  <2>1. la[1] \in Never
    BY <1>3, <1>10 DEF At
  <2>2. Top.phase # "open"
    BY <1>1, <1>5, <1>10, <2>1, ProdOpenDoes, Zenon
  <2>3. Top.phase = "close"
    BY <1>2, <2>2
  <2>4. \/ Does(alt, 0, "", "prod", "")
        \/ Does(alt, 0, "", "", "")
    BY <1>1, <1>10, <2>3, ProdCloseDoes, Zenon
  <2>5. QED
    BY <1>3, <1>4, <1>8, <2>1, <2>4, Zenon
<1>11. CASE Top.rule = "alts"
  <2>1. la[1] \in Never /\ la[1] # "ALT"
    BY <1>3, <1>11 DEF At, Never
  <2>2. CASE Top.phase = "open"
    BY <1>1, <1>3, <1>4, <1>8, <1>11, <2>1, <2>2, AltsOpenDoes, Zenon
  <2>3. CASE Top.phase = "close"
    BY <1>1, <1>3, <1>4, <1>8, <1>11, <2>1, <2>3, AltsCloseDoes, Zenon
  <2>4. QED
    BY <1>2, <2>2, <2>3
<1>12. CASE Top.rule = "seq"
  <2>1. la[1] \in Never
    BY <1>3, <1>12 DEF At
  <2>2. CASE Top.phase = "open"
    BY <1>1, <1>3, <1>4, <1>8, <1>12, <2>1, <2>2, SeqOpenDoes, Zenon
  <2>3. CASE Top.phase = "close"
    BY <1>1, <1>3, <1>4, <1>8, <1>12, <2>1, <2>3, SeqCloseDoes, Zenon
  <2>4. QED
    BY <1>2, <2>2, <2>3
<1>13. CASE Top.rule = "elem"
  <2>1. la[1] \in Never /\ la[1] # "NUM" /\ la[1] # "STAR"
    BY <1>3, <1>13 DEF At, Never
  <2>2. CASE Top.phase = "open"
    BY <1>1, <1>3, <1>4, <1>8, <1>13, <2>1, <2>2, ElemOpenDoes, Zenon
  <2>3. CASE Top.phase = "close"
    BY <1>1, <1>3, <1>4, <1>8, <1>13, <2>1, <2>3, ElemCloseDoes, Zenon
  <2>4. QED
    BY <1>2, <2>2, <2>3
<1>14. CASE Top.rule = "atom"
  <2>1. Top.phase # "open"
    <3>1. ASSUME Top.phase = "open"
          PROVE  FALSE
      <4>1. la[1] \in {"ST", "NV", "TX", "LP", "OB", "SS", "SI", "PV"}
        BY <1>1, <1>14, <3>1, AtomOpenDoes, Zenon
      <4>2. QED
        BY <1>3, <1>4, <4>1, Zenon
    <3>2. QED
      BY <3>1
  <2>2. Top.phase = "close"
    BY <1>2, <2>1
  <2>3. la[1] \in Never
    BY <1>3, <2>1 DEF At
  <2>4. la[1] # "RP" /\ la[1] # "CB"
    BY <2>3 DEF Never
  <2>5. \/ Does(alt, 0, "", "", "")
        \/ Does(alt, 1, "", "", "close") /\ (la[1] = "RP" \/ la[1] = "CB")
    BY <1>1, <1>14, <2>2, AtomCloseDoes, Zenon
  <2>6. QED
    BY <1>3, <1>4, <1>8, <2>3, <2>4, <2>5, Zenon
<1>15. QED
  BY <1>2, <1>9, <1>10, <1>11, <1>12, <1>13, <1>14 DEF RuleNames

LEMMA WaitingStays ==
  ASSUME NEW n, Runs(n), NEW alt, alt = Alternatives[n], Acts(alt), ~Accept(alt), Waiting
  PROVE  Waiting'
BY AfterPush, AfterOpen, AfterReplace, AfterPop, Zenon DEF Acts

\* A hole stays, and an element that came back undefined becomes one.
LEMMA HolesStay ==
  ASSUME NEW n, Runs(n), NEW alt, alt = Alternatives[n], Acts(alt), Waiting, Holed
  PROVE  HasHole'
<1>1. Settled(n) /\ Held /\ status = "run"
  BY ActsFires, Firing, Zenon DEF Runs
<1>2. CASE HasHole
  <2>1. CASE PushRule(alt)
    BY <1>2, <2>1, AfterPush, Zenon
  <2>2. CASE PopRule(alt)
    BY <1>2, <2>2, AfterPop, Zenon
  <2>3. CASE EndOpen(alt)
    <3>1. heap' = heap
      BY <2>3, AfterOpen, Zenon
    <3>2. QED
      BY <1>2, <3>1 DEF HasHole
  <2>4. CASE ReplaceRule(alt)
    <3>1. heap' = heap
      BY <2>4, AfterReplace, Zenon
    <3>2. QED
      BY <1>2, <3>1 DEF HasHole
  <2>5. CASE Accept(alt)
    BY <1>2, <2>5 DEF Accept, HasHole
  <2>6. QED
    BY <2>1, <2>2, <2>3, <2>4, <2>5 DEF Acts
<1>3. CASE Pending
  <2>1. Top.rule = "elem" /\ Top.phase = "close" /\ Top.child.kind = "undefined"
    BY <1>3 DEF Pending, At
  <2>2. Does(alt, 0, "", "", "append")
    BY <1>1, <2>1, ElemCloseDoes, Zenon
  <2>3. Len(stack) \in Nat \ {0} /\ Top.rule = LevelRule(Len(stack))
    BY <1>1, Sizes
  <2>4. Len(stack) # 1
    BY <2>1, <2>3, LevelOne
  <2>5. PopRule(alt)
    BY <2>1, <2>2, <2>3, <2>4, ActsEnd, Zenon
  <2>6. QED
    BY <2>1, <2>5, AfterPop, Zenon
<1>4. QED
  BY <1>2, <1>3 DEF Holed

LEMMA NoBadStays ==
  ASSUME NEW n, Runs(n), NEW alt, alt = Alternatives[n], Fires(alt), NoBad
  PROVE  NoBad'
<1>1. status = "run" /\ Held
  BY DEF Runs
<1>2. Len(la) \in Nat
  BY <1>1, Sizes
<1>3. /\ input' = input /\ Takes(alt) \in Nat /\ Len(la') = Len(la) - Takes(alt)
      /\ \A j \in 1..Len(la') : la'[j] = la[j + Takes(alt)]
  BY Firing, Zenon
<1>4. \A j \in 1..Len(la') : j + Takes(alt) \in 1..Len(la)
  BY <1>2, <1>3
<1>5. \A k \in 1..Len(la) : la[k] # "BD"
  BY <1>1 DEF NoBad
<1>6. \A k \in 1..Len(la') : la'[k] # "BD"
  BY <1>3, <1>4, <1>5, Zenon
<1>7. QED
  BY <1>1, <1>3, <1>6 DEF NoBad, Kind

\* A step that takes an alternative, whatever the state of the parse.
LEMMA ActsKeeps ==
  ASSUME NEW n, Runs(n), NEW alt, alt = Alternatives[n], Acts(alt), ParseInv
  PROVE  ParseInv'
<1>1. /\ status = "run" /\ Held /\ Fires(alt)
  BY ActsFires DEF Runs
<1>2. NoBad /\ Proper(input) /\ Waiting /\ Reading
  BY <1>1 DEF ParseInv, Waits
<1>3. input' = input
  BY <1>1, Firing, Zenon
<1>4. NoBad'
  BY <1>1, <1>2, NoBadStays, Zenon
<1>5. Proper(input)'
  BY <1>2, <1>3
<1>6. Waits'
  <2>1. ~Accept(alt) => Waiting'
    BY <1>2, WaitingStays, Zenon
  <2>2. Accept(alt) => status' # "run"
    BY DEF Accept
  <2>3. QED
    BY <2>1, <2>2 DEF Waits
<1>7. ASSUME ~Accept(alt)
      PROVE  Finished'
  <2>1. status' = "run"
    BY <1>1, <1>7, GoesOn, Zenon
  <2>2. QED
    BY <2>1 DEF Finished
<1>8. Reading' /\ Finished'
  <2>1. CASE Stuck
    <3>1. Takes(alt) = 0 /\ ~Accept(alt) /\ Len(la) >= 1 /\ la[1] \in Never
      BY <2>1, StuckTakesNone, Zenon
    <3>2. Len(la') >= 1 /\ la'[1] = la[1]
      BY <1>1, <3>1, SameTokens, Zenon
    <3>3. QED
      BY <1>7, <3>1, <3>2, ComesToNever, Zenon
  <2>2. CASE Empty
    <3>1. Top.rule = "abnf" /\ Top.phase = "close" /\ heap = << <<>> >>
      BY <2>2 DEF Empty, At
    <3>2. Settled(n)
      BY <1>1, Firing, Zenon
    <3>3. Does(alt, 1, "", "", "")
      BY <3>1, <3>2, AbnfCloseDoes, Zenon
    <3>4. Len(stack) \in Nat \ {0} /\ Top.rule = LevelRule(Len(stack))
      BY <1>1, Sizes
    <3>5. Len(stack) = 1
      BY <3>1, <3>4, LevelOne
    <3>6. Accept(alt)
      BY <3>1, <3>3, <3>4, <3>5, ActsEnd, Zenon
    <3>7. QED
      BY <3>1, <3>6 DEF Accept, Reading, Finished
  <2>3. CASE Holed /\ SomeDoomed(input)
    <3>1. HasHole' /\ SomeDoomed(input')
      BY <1>2, <1>3, <2>3, HolesStay, Zenon
    <3>2. QED
      BY <3>1 DEF Reading, Finished, Holed
  <2>4. CASE ~Holed /\ Good
    <3>1. Live(n)
      BY <1>2, <2>4 DEF Live
    <3>2. Reading'
      BY <3>1, GoodReads, Zenon
    <3>3. Accept(alt) => Finished'
      BY <1>1, <3>1, AcceptsAtEnd, AbnfCloseReads, Zenon
    <3>4. QED
      BY <1>7, <3>2, <3>3, Zenon
  <2>5. QED
    BY <1>1, <1>2, <2>1, <2>2, <2>3, <2>4 DEF Reading
<1>9. QED
  BY <1>4, <1>5, <1>6, <1>8 DEF ParseInv

-----------------------------------------------------------------------------
(* One more lexeme is read into the lookahead.                             *)

LEMMA LongerText ==
  ASSUME NEW w \in Seq(Lexemes), NEW x \in Lexemes, NEW c \in 0..Len(w), NEW s,
         c < Len(w) \/ x.kind \notin Defines, Nested(w, c, s), Sounded(w, c, s)
  PROVE  LET v == Append(w, x)
         IN  /\ Nested(v, c, s) /\ Sounded(v, c, s) /\ Depth(v, c) = Depth(w, c)
             /\ KindAt(v, c) = KindAt(w, c)
             /\ PrefixFits(v, c + 1) <=> PrefixFits(w, c + 1)
<1> DEFINE v == Append(w, x)
<1>1. /\ Len(w) \in Nat /\ c \in Int /\ c <= Len(w) /\ c # Len(w) + 1 /\ c + 1 \in Int
      /\ c + 1 <= Len(w) + 1
  BY LenProperties
<1>2. Depth(v, c) = Depth(w, c) /\ KindAt(v, c) = KindAt(w, c)
  BY <1>1, DepthOfLonger, KindOfLonger
<1>3. PrefixFits(v, c + 1) <=> PrefixFits(w, c + 1)
  BY <1>1, PrefixOfLonger
<1>4. Nested(v, c, s)
  <2>1. \A i, grp, d : OpenAt(w, c, i, grp, d) => OpenAt(v, c, i, grp, d)
    BY OpenOfLonger, Zenon
  <2>2. QED
    BY <2>1, Zenon DEF Nested
<1>5. c > 0 => IsHeader(v, 1)
  <2>1. IsHeader(w, 1) => IsHeader(v, 1)
    BY HeaderOfLonger
  <2>2. QED
    BY <2>1 DEF Sounded
<1>6. \A i \in 1..c : SoundAt(v, i)
  <2>1. ASSUME NEW i \in 1..c
        PROVE  SoundAt(v, i)
    <3>1. i \in 1..Len(w) /\ (i < Len(w) \/ x.kind \notin Defines)
      BY <1>1
    <3>2. SoundAt(w, i)
      BY DEF Sounded
    <3>3. QED
      BY <3>1, <3>2, SoundOfLonger, Zenon
  <2>2. QED
    BY <2>1
<1>7. ASSUME NEW i \in Opens(v), i <= c
      PROVE  \/ \E n \in 1..Len(s) : InBracket(s[n]) /\ s[n].at = i
             \/ \E j \in Closes(v) : Pairs(v, i, j)
  <2>1. v \in Seq(Lexemes)
    BY AppendProperties
  <2>2. i \in Nat
    BY <2>1, LenProperties DEF Opens
  <2>3. KindAt(v, i) = KindAt(w, i) /\ KindAt(v, i) \in {"LP", "OB"}
    <3>1. i \in Int /\ i # Len(w) + 1
      BY <1>1, <1>7, <2>2
    <3>2. KindAt(v, i) = KindAt(w, i)
      BY <3>1, KindOfLonger
    <3>3. QED
      BY <1>7, <2>1, <3>2, KindsAt
  <2>4. i \in Opens(w)
    BY <2>3, KindsAt
  <2>5. CASE \E n \in 1..Len(s) : InBracket(s[n]) /\ s[n].at = i
    BY <2>5
  <2>6. CASE \E j \in Closes(w) : Pairs(w, i, j)
    BY <2>4, <2>6, MatedOfLonger
  <2>7. QED
    BY <1>7, <2>4, <2>5, <2>6 DEF Sounded
<1>8. Sounded(v, c, s)
  BY <1>5, <1>6, <1>7 DEF Sounded
<1>9. QED
  BY <1>2, <1>3, <1>4, <1>8, Zenon

LEMMA LexFacts ==
  ASSUME NEW n, Runs(n), NEW alt, alt = Alternatives[n], Lex(alt)
  PROVE  \E x \in NextLexemes, kind \in Kinds :
           /\ input' = Append(input, x) /\ kind = Lexed(x.kind, Offered(Len(la) + 1))
           /\ Len(la') = Len(la) + 1 /\ la'[Len(la) + 1] = kind
           /\ \A k \in 1..Len(la) : la'[k] = la[k]
           /\ Consumed' = Consumed /\ stack' = stack /\ heap' = heap
           /\ status' = IF kind = "BD" THEN "error" ELSE "run"
<1>1. Held /\ status = "run" /\ TypeOK
  BY DEF Runs, Held
<1>2. /\ Len(la) \in Nat /\ Len(input) \in Nat /\ la \in Seq(Kinds)
      /\ input \in Seq(Lexemes)
  BY <1>1, Sizes
<1>3. stack' = stack /\ heap' = heap
  BY DEF Lex
<1>4. PICK x \in NextLexemes :
        LET kind == Lexed(x.kind, Offered(Len(la) + 1))
        IN  /\ input' = Append(input, x) /\ la' = Append(la, kind)
            /\ status' = IF kind = "BD" THEN "error" ELSE "run"
  BY DEF Lex
<1> DEFINE kind == Lexed(x.kind, Offered(Len(la) + 1))
<1>5. la' \in Seq(Kinds)
  BY <1>1, LexStep, Zenon DEF TypeOK
<1>6. x \in Lexemes
  BY TextLexemes DEF NextLexemes
<1>7. kind \in Kinds
  <2>1. x.kind \in Kinds
    BY <1>6 DEF Lexemes
  <2>2. QED
    BY <2>1 DEF Lexed, Kinds, Fixed
<1>8. la' = Append(la, kind) /\ input' = Append(input, x)
      /\ status' = IF kind = "BD" THEN "error" ELSE "run"
  BY <1>4
<1> HIDE DEF kind
<1>9. /\ Len(la') = Len(la) + 1 /\ la'[Len(la) + 1] = kind
      /\ \A k \in 1..Len(la) : la'[k] = la[k]
  BY <1>2, <1>7, <1>8, AppendProperties
<1>10. Len(input') = Len(input) + 1
  BY <1>2, <1>6, <1>8, AppendProperties
<1>11. Consumed' = Consumed
  BY <1>2, <1>9, <1>10 DEF Consumed
<1>12. QED
  BY <1>3, <1>7, <1>8, <1>9, <1>11, Zenon DEF kind

LEMMA LexedIs ==
  ASSUME NEW kind, NEW offered
  PROVE  \/ Lexed(kind, offered) = kind
         \/ /\ kind \in Matched /\ kind \notin offered
            /\ Lexed(kind, offered) = IF kind = "NUM" THEN "NR" ELSE "TX"
BY DEF Lexed

LEMMA ReadAs ==
  ASSUME NEW k, NEW offered, NEW kind, kind = Lexed(k, offered)
  PROVE  \/ kind = k
         \/ k \in Matched /\ kind = IF k = "NUM" THEN "NR" ELSE "TX"
BY DEF Lexed

LEMMA OfferedBy ==
  ASSUME NEW m \in DOMAIN Alternatives, NEW k, k <= Len(Alternatives[m].s),
         NEW kind \in Alternatives[m].s[k]
  PROVE  kind \in Offered(k)
BY DEF Offered

LEMMA FitsAt ==
  ASSUME NEW n, First(n), NEW k \in DOMAIN Alternatives[n].s, k <= Len(la)
  PROVE  la[k] \in Alternatives[n].s[k]
BY DEF First, Candidates, Fits

-----------------------------------------------------------------------------
(* The token of a lexeme that is read behind the first two of a text.      *)

LEMMA AsMeant ==
  ASSUME NEW kind, NEW k, kind \in Matched => kind \in Offered(k)
  PROVE  Lexed(kind, Offered(k)) = kind
BY LexedIs, Zenon

LEMMA LexesNext ==
  ASSUME NEW n, Runs(n), NEW alt, alt = Alternatives[n], Lex(alt)
  PROVE  Len(la) \in Nat /\ Len(alt.s) \in Nat /\ Len(la) < Len(alt.s)
<1>1. Len(la) < Len(alt.s)
  BY DEF Lex
<1>2. Len(la) \in Nat
  BY Sizes DEF Runs
<1>3. Len(alt.s) \in Nat
  BY Taken, Zenon DEF Runs, Held, AltOK
<1>4. QED
  BY <1>1, <1>2, <1>3

LEMMA Shorter ==
  ASSUME NEW k \in Nat, NEW size, k < size
  PROVE  /\ size # 0
         /\ size = 1 \/ size = 0 => k = 0 /\ ~(k >= 1)
         /\ size = 2 => ~(k >= 2) /\ (k >= 1 => k = 1)
         /\ size \in {0, 1, 2} => k = 0 \/ k = 1
         /\ k >= 1 /\ size \in {0, 2, 3} => k = 1 \/ k = 2
         /\ k >= 1 /\ size = 4 => k = 1 \/ k = 2 \/ k = 3
OBVIOUS

LEMMA TwoTokens ==
  ASSUME NEW alt, NEW A, NEW B, NEW b, NEW p, NEW r, NEW c, NEW a,
         Is2(alt, A, B, b, p, r, c, a)
  PROVE  Len(alt.s) = 2 /\ 1 \in DOMAIN alt.s /\ alt.s[1] = A
<1>1. Len(alt.s) = 2 /\ alt.s[1] = A /\ DOMAIN alt.s = 1..2
  BY DEF Is2
<1>2. 1 \in 1..2
  OBVIOUS
<1>3. QED
  BY <1>1, <1>2, Zenon

LEMMA SeqLexes ==
  ASSUME NEW n, Runs(n), NEW alt, alt = Alternatives[n], Lex(alt), NEW kind,
         Top.rule = "seq"
  PROVE  Lexed(kind, Offered(Len(la) + 1)) = kind
<1>1. Len(la) \in Nat /\ Top.phase \in {"open", "close"} /\ n \in DOMAIN Alternatives
  BY Sizes DEF Runs
<1>2. CASE Top.phase = "open"
  <2>1. /\ DOMAIN Alternatives = 1..8 /\ Len(Alternatives[7].s) = 1
        /\ Alternatives[7].s[1] = ATOM \union {"STAR", "NUM"}
        /\ Len(Alternatives[3].s) = 2 /\ Alternatives[3].s[2] = {"NUM"}
        /\ Len(Alternatives[4].s) = 2 /\ Alternatives[4].s[2] = ATOM
    BY <1>2, SeqOpen DEF Is1, Is2
  <2>2. Len(alt.s) \in {0, 1, 2}
    <3>1. n \in 1..8
      BY <1>1, <2>1
    <3>2. \A k \in {1, 2, 3, 4, 5, 6, 7, 8} : Len(Alternatives[k].s) \in {0, 1, 2}
      BY <1>2, SeqOpen DEF Is0, Is1, Is2
    <3>3. n \in {1, 2, 3, 4, 5, 6, 7, 8}
      BY <3>1
    <3>4. QED
      BY <3>2, <3>3, Zenon
  <2>3. Len(la) = 0 \/ Len(la) = 1
    <3>1. Len(la) \in Nat /\ Len(la) < Len(alt.s) /\ Len(alt.s) \in Nat
      BY LexesNext, Zenon
    <3>2. QED
      BY <2>2, <3>1, Shorter, Zenon
  <2>4. CASE Len(la) = 0
    <3>1. kind \in Matched => kind \in Alternatives[7].s[1]
      BY <2>1 DEF ATOM, Matched
    <3>2. kind \in Matched => kind \in Offered(1)
      BY <2>1, <3>1, OfferedBy
    <3>3. Lexed(kind, Offered(1)) = kind
      BY <3>2, AsMeant, Zenon
    <3>4. QED
      BY <2>4, <3>3
  <2>5. CASE Len(la) = 1
    <3>1. kind \in Matched => kind \in Alternatives[3].s[2] \/ kind \in Alternatives[4].s[2]
      BY <2>1 DEF ATOM, Matched
    <3>2. kind \in Matched => kind \in Offered(2)
      BY <2>1, <3>1, OfferedBy
    <3>3. Lexed(kind, Offered(2)) = kind
      BY <3>2, AsMeant, Zenon
    <3>4. QED
      BY <2>5, <3>3
  <2>6. QED
    BY <2>3, <2>4, <2>5
<1>3. CASE Top.phase = "close"
  <2>1. /\ DOMAIN Alternatives = 1..8 /\ Len(Alternatives[7].s) = 1
        /\ Alternatives[7].s[1] = ATOM \union {"STAR", "NUM"}
        /\ Len(Alternatives[4].s) = 2 /\ Alternatives[4].s[2] = {"NUM"}
        /\ Len(Alternatives[5].s) = 2 /\ Alternatives[5].s[2] = ATOM
    BY <1>3, SeqClose DEF Is1, Is2
  <2>2. Len(alt.s) \in {0, 1, 2}
    <3>1. n \in 1..8
      BY <1>1, <2>1
    <3>2. \A k \in {1, 2, 3, 4, 5, 6, 7, 8} : Len(Alternatives[k].s) \in {0, 1, 2}
      BY <1>3, SeqClose DEF Is0, Is1, Is2
    <3>3. n \in {1, 2, 3, 4, 5, 6, 7, 8}
      BY <3>1
    <3>4. QED
      BY <3>2, <3>3, Zenon
  <2>3. Len(la) = 0 \/ Len(la) = 1
    <3>1. Len(la) \in Nat /\ Len(la) < Len(alt.s) /\ Len(alt.s) \in Nat
      BY LexesNext, Zenon
    <3>2. QED
      BY <2>2, <3>1, Shorter, Zenon
  <2>4. CASE Len(la) = 0
    <3>1. kind \in Matched => kind \in Alternatives[7].s[1]
      BY <2>1 DEF ATOM, Matched
    <3>2. kind \in Matched => kind \in Offered(1)
      BY <2>1, <3>1, OfferedBy
    <3>3. Lexed(kind, Offered(1)) = kind
      BY <3>2, AsMeant, Zenon
    <3>4. QED
      BY <2>4, <3>3
  <2>5. CASE Len(la) = 1
    <3>1. kind \in Matched => kind \in Alternatives[4].s[2] \/ kind \in Alternatives[5].s[2]
      BY <2>1 DEF ATOM, Matched
    <3>2. kind \in Matched => kind \in Offered(2)
      BY <2>1, <3>1, OfferedBy
    <3>3. Lexed(kind, Offered(2)) = kind
      BY <3>2, AsMeant, Zenon
    <3>4. QED
      BY <2>5, <3>3
  <2>6. QED
    BY <2>3, <2>4, <2>5
<1>4. QED
  BY <1>1, <1>2, <1>3

\* A count behind `m*n' is the one lexeme that no alternative names.
LEMMA ElemLexes ==
  ASSUME NEW n, Runs(n), NEW alt, alt = Alternatives[n], Lex(alt), NEW kind,
         Top.rule = "elem", Top.phase = "open", Len(la) >= 1
  PROVE  \/ Lexed(kind, Offered(Len(la) + 1)) = kind
         \/ /\ Len(la) = 3 /\ la[1] = "NUM" /\ la[2] = "STAR" /\ la[3] = "NUM"
            /\ Lexed(kind, Offered(Len(la) + 1)) = "NR"
<1>1. Len(la) \in Nat /\ n \in DOMAIN Alternatives /\ First(n)
  BY Sizes DEF Runs
<1>2. /\ DOMAIN Alternatives = 1..6
      /\ Len(Alternatives[1].s) = 4 /\ DOMAIN Alternatives[1].s = 1..4
      /\ Alternatives[1].s[1] = {"NUM"} /\ Alternatives[1].s[2] = {"STAR"}
      /\ Alternatives[1].s[3] = {"NUM"} /\ Alternatives[1].s[4] = ATOM
      /\ Len(Alternatives[2].s) = 3 /\ Alternatives[2].s[3] = ATOM
      /\ Len(Alternatives[3].s) = 3 /\ Alternatives[3].s[2] = {"NUM"}
      /\ Len(Alternatives[4].s) = 2 /\ Alternatives[4].s[2] = ATOM
  BY ElemOpen DEF Is2, Is3, Is4
<1>3. n = 1 \/ Len(alt.s) \in {0, 2, 3}
  <2>1. n \in 1..6
    BY <1>1, <1>2
  <2>2. \A k \in {2, 3, 4, 5, 6} : Len(Alternatives[k].s) \in {0, 2, 3}
    BY ElemOpen DEF Is0, Is2, Is3
  <2>3. n = 1 \/ n \in {2, 3, 4, 5, 6}
    BY <2>1
  <2>4. QED
    BY <2>2, <2>3, Zenon
<1>4. Len(la) = 1 \/ Len(la) = 2 \/ (Len(la) = 3 /\ n = 1)
  <2>1. Len(la) \in Nat /\ Len(la) < Len(alt.s) /\ Len(alt.s) \in Nat
    BY LexesNext, Zenon
  <2>2. n = 1 => Len(alt.s) = 4
    BY <1>2
  <2>3. QED
    BY <1>3, <2>1, <2>2, Shorter, Zenon
<1>5. CASE Len(la) = 1
  <2>1. kind \in Matched => kind \in Alternatives[3].s[2] \/ kind \in Alternatives[4].s[2]
    BY <1>2 DEF ATOM, Matched
  <2>2. kind \in Matched => kind \in Offered(2)
    BY <1>2, <2>1, OfferedBy
  <2>3. Lexed(kind, Offered(2)) = kind
    BY <2>2, AsMeant, Zenon
  <2>4. QED
    BY <1>5, <2>3
<1>6. CASE Len(la) = 2
  <2>1. kind \in Matched => kind \in Alternatives[1].s[3] \/ kind \in Alternatives[2].s[3]
    BY <1>2 DEF ATOM, Matched
  <2>2. kind \in Matched => kind \in Offered(3)
    BY <1>2, <2>1, OfferedBy
  <2>3. Lexed(kind, Offered(3)) = kind
    BY <2>2, AsMeant, Zenon
  <2>4. QED
    BY <1>6, <2>3
<1>7. CASE Len(la) = 3 /\ n = 1
  <2>1. la[1] \in {"NUM"} /\ la[2] \in {"STAR"} /\ la[3] \in {"NUM"}
    <3>1. \A k \in 1..4 : k <= Len(la) => la[k] \in Alternatives[1].s[k]
      BY <1>1, <1>2, <1>7, FitsAt
    <3>2. QED
      BY <1>2, <1>7, <3>1
  <2>2. CASE kind \in Matched => kind \in ATOM
    <3>1. kind \in Matched => kind \in Offered(4)
      BY <1>2, <2>2, OfferedBy
    <3>2. Lexed(kind, Offered(4)) = kind
      BY <3>1, AsMeant, Zenon
    <3>3. QED
      BY <1>7, <3>2
  <2>3. CASE kind \in Matched /\ kind \notin ATOM
    <3>1. kind = "NUM"
      BY <2>3 DEF Matched, ATOM
    <3>2. Lexed(kind, Offered(Len(la) + 1)) = kind \/ Lexed(kind, Offered(Len(la) + 1)) = "NR"
      BY <3>1, LexedIs
    <3>3. QED
      BY <1>7, <2>1, <3>2
  <2>4. QED
    BY <2>2, <2>3
<1>8. QED
  BY <1>4, <1>5, <1>6, <1>7

\* Behind `%s' or `%i' a text goes on with a string.
LEMMA AtomOpenLexes ==
  ASSUME NEW n, Runs(n), NEW alt, alt = Alternatives[n], Lex(alt), NEW x \in NextLexemes,
         Top.rule = "atom", Top.phase = "open", Len(la) >= 1, la[1] = Kind(Consumed + 1)
  PROVE  Lexed(x.kind, Offered(Len(la) + 1)) = x.kind
<1>1. /\ Len(la) \in Nat /\ Len(input) \in Nat /\ n \in DOMAIN Alternatives
      /\ First(n) /\ input \in Seq(Lexemes)
  BY Sizes DEF Runs
<1>2. /\ DOMAIN Alternatives = 1..7 /\ Len(Alternatives[1].s) = 2
      /\ 1 \in DOMAIN Alternatives[1].s /\ Alternatives[1].s[1] = {"SS", "SI"}
  <2>1. /\ DOMAIN Alternatives = 1..7
        /\ Is2(Alternatives[1], {"SS", "SI"}, {"ST"}, 0, "", "", "", "term")
    BY AtomOpen, Zenon
  <2>2. QED
    BY <2>1, TwoTokens, Zenon
<1>3. n = 1 \/ Len(alt.s) = 1
  <2>1. n \in 1..7
    BY <1>1, <1>2
  <2>2. \A k \in {2, 3, 4, 5, 6, 7} : Len(Alternatives[k].s) = 1
    BY AtomOpen DEF Is1
  <2>3. n = 1 \/ n \in {2, 3, 4, 5, 6, 7}
    BY <2>1
  <2>4. QED
    BY <2>2, <2>3, Zenon
<1>4. n = 1 /\ Len(la) = 1
  <2>1. Len(la) \in Nat /\ Len(la) < Len(alt.s)
    BY LexesNext, Zenon
  <2>2. Len(alt.s) # 1
    BY <2>1, Shorter, Zenon
  <2>3. n = 1 /\ Len(alt.s) = 2
    BY <1>2, <1>3, <2>2
  <2>4. QED
    BY <2>1, <2>3, Shorter, Zenon
<1>5. la[1] \in {"SS", "SI"}
  BY <1>1, <1>2, <1>4, FitsAt
<1>6. Consumed + 1 = Len(input)
  BY <1>1, <1>4 DEF Consumed
<1>7. input # <<>> /\ input[Len(input)].kind \in {"SS", "SI"}
  <2>1. KindAt(input, Len(input)) \in {"SS", "SI"}
    BY <1>5, <1>6 DEF Kind
  <2>2. KindAt(input, Len(input)) # ""
    BY <2>1
  <2>3. Len(input) \in DOMAIN input /\ input[Len(input)].kind = KindAt(input, Len(input))
    BY <1>1, <2>2, KindsAt, Zenon
  <2>4. QED
    BY <2>1, <2>3
<1>8. x.kind = "ST"
  BY <1>7 DEF NextLexemes
<1>9. x.kind \notin Matched
  BY <1>8 DEF Matched
<1>10. QED
  BY <1>9, AsMeant, Zenon

LEMMA AtomCloseLexes ==
  ASSUME NEW n, Runs(n), NEW alt, alt = Alternatives[n], Lex(alt), NEW kind,
         Top.rule = "atom", Top.phase = "close"
  PROVE  Lexed(kind, Offered(Len(la) + 1)) = kind
<1>1. /\ DOMAIN Alternatives = 1..4 /\ Len(Alternatives[3].s) = 1
      /\ Alternatives[3].s[1] = ATOM \union {"NUM", "STAR", "RP", "CB", "ALT", "DEF", "ZZ"}
  BY AtomClose DEF Is1
<1>2. Len(alt.s) \in {0, 1}
  <2>1. n \in 1..4
    BY <1>1 DEF Runs
  <2>2. \A k \in {1, 2, 3, 4} : Len(Alternatives[k].s) \in {0, 1}
    BY AtomClose DEF Is0, Is1
  <2>3. n \in {1, 2, 3, 4}
    BY <2>1
  <2>4. QED
    BY <2>2, <2>3, Zenon
<1>3. Len(la) = 0
  <2>1. Len(la) \in Nat /\ Len(la) < Len(alt.s)
    BY LexesNext, Zenon
  <2>2. Len(alt.s) = 0 \/ Len(alt.s) = 1
    BY <1>2, Zenon
  <2>3. QED
    BY <2>1, <2>2, Shorter, Zenon
<1>4. kind \in Matched => kind \in Alternatives[3].s[1]
  BY <1>1 DEF ATOM, Matched
<1>5. kind \in Matched => kind \in Offered(1)
  BY <1>1, <1>4, OfferedBy
<1>6. Lexed(kind, Offered(1)) = kind
  BY <1>5, AsMeant, Zenon
<1>7. QED
  BY <1>3, <1>6

\* The other rules have seen all the tokens they ask for.
LEMMA LexesNothing ==
  ASSUME NEW n, Runs(n), NEW alt, alt = Alternatives[n], Lex(alt)
  PROVE  /\ ~At("alts", "open") /\ ~At("elem", "close")
         /\ At("abnf", "close") \/ At("alts", "close") => ~(Len(la) >= 1)
         /\ At("prod", "open") => ~HeaderNext(la)
         /\ At("prod", "close") => ~Stopped(la)
<1>1. /\ Len(la) \in Nat /\ Len(la) < Len(alt.s) /\ n \in DOMAIN Alternatives
      /\ First(n)
  BY LexesNext DEF Runs
<1>2. Len(alt.s) # 0
  BY <1>1, Shorter, Zenon
<1>3. ASSUME At("alts", "open")
      PROVE  FALSE
  <2>1. DOMAIN Alternatives = 1..1 /\ Len(Alternatives[1].s) = 0
    BY <1>3, AltsOpen DEF At, Is0
  <2>2. n = 1
    BY <1>1, <2>1
  <2>3. Len(alt.s) = 0
    BY <2>1, <2>2
  <2>4. QED
    BY <1>2, <2>3
<1>4. ASSUME At("elem", "close")
      PROVE  FALSE
  <2>1. DOMAIN Alternatives = 1..1 /\ Len(Alternatives[1].s) = 0
    BY <1>4, ElemClose DEF At, Is0
  <2>2. n = 1
    BY <1>1, <2>1
  <2>3. Len(alt.s) = 0
    BY <2>1, <2>2
  <2>4. QED
    BY <1>2, <2>3
<1>5. ASSUME At("abnf", "close"), Len(la) >= 1
      PROVE  FALSE
  <2>1. DOMAIN Alternatives = 1..1 /\ Len(Alternatives[1].s) = 1
    BY <1>5, AbnfClose DEF At, Is1
  <2>2. n = 1
    BY <1>1, <2>1
  <2>3. Len(alt.s) = 1
    BY <2>1, <2>2
  <2>4. QED
    BY <1>1, <1>5, <2>3, Shorter, Zenon
<1>6. ASSUME At("alts", "close"), Len(la) >= 1
      PROVE  FALSE
  <2>1. /\ DOMAIN Alternatives = 1..2
        /\ Len(Alternatives[1].s) = 1 /\ Len(Alternatives[2].s) = 0
    BY <1>6, AltsClose DEF At, Is0, Is1
  <2>2. n = 1 \/ n = 2
    BY <1>1, <2>1
  <2>3. Len(alt.s) = 1 \/ Len(alt.s) = 0
    BY <2>1, <2>2
  <2>4. QED
    BY <1>1, <1>6, <2>3, Shorter, Zenon
<1>7. ASSUME At("prod", "open"), HeaderNext(la)
      PROVE  FALSE
  <2>1. DOMAIN Alternatives = 1..3 /\ \A k \in {1, 2, 3} : Len(Alternatives[k].s) = 2
    BY <1>7, ProdOpen DEF At, Is2
  <2>2. n \in {1, 2, 3}
    BY <1>1, <2>1
  <2>3. Len(alt.s) = 2
    BY <2>1, <2>2, Zenon
  <2>4. Len(la) >= 2
    BY <1>7 DEF HeaderNext
  <2>5. QED
    BY <1>1, <2>3, <2>4, Shorter, Zenon
<1>8. ASSUME At("prod", "close"), Stopped(la)
      PROVE  FALSE
  <2>1. /\ DOMAIN Alternatives = 1..4 /\ Len(Alternatives[4].s) = 0
        /\ \A k \in {1, 2, 3} :
             /\ Len(Alternatives[k].s) = 2 /\ 1 \in DOMAIN Alternatives[k].s
             /\ Alternatives[k].s[1] \subseteq {"TX", "PV"}
    <3>1. /\ DOMAIN Alternatives = 1..4
          /\ Is2(Alternatives[1], {"TX"}, {"DEF"}, 2, "", "prod", "", "")
          /\ Is2(Alternatives[2], {"TX"}, {"DEFA"}, 2, "", "prod", "", "")
          /\ Is2(Alternatives[3], {"PV"}, {"DEF"}, 2, "", "prod", "", "")
          /\ Is0(Alternatives[4], 1, "", "", "", "")
      BY <1>8, ProdClose, Zenon DEF At
    <3>2. /\ Len(Alternatives[1].s) = 2 /\ 1 \in DOMAIN Alternatives[1].s
          /\ Alternatives[1].s[1] = {"TX"}
      BY <3>1, TwoTokens, Zenon
    <3>3. /\ Len(Alternatives[2].s) = 2 /\ 1 \in DOMAIN Alternatives[2].s
          /\ Alternatives[2].s[1] = {"TX"}
      BY <3>1, TwoTokens, Zenon
    <3>4. /\ Len(Alternatives[3].s) = 2 /\ 1 \in DOMAIN Alternatives[3].s
          /\ Alternatives[3].s[1] = {"PV"}
      <4>1. Is2(Alternatives[3], {"PV"}, {"DEF"}, 2, "", "prod", "", "")
        BY <3>1, Zenon
      <4>2. QED
        BY <4>1, TwoTokens, Zenon
    <3>5. Len(Alternatives[4].s) = 0
      BY <3>1 DEF Is0
    <3>6. QED
      BY <3>1, <3>2, <3>3, <3>4, <3>5
  <2>2. n \in {1, 2, 3} \/ n = 4
    BY <1>1, <2>1
  <2>3. CASE n = 4
    <3>1. Len(alt.s) = 0
      BY <2>1, <2>3
    <3>2. QED
      BY <1>2, <3>1
  <2>4. CASE n \in {1, 2, 3}
    <3>1. Len(alt.s) = 2 /\ 1 \in DOMAIN alt.s /\ alt.s[1] \subseteq {"TX", "PV"}
      BY <2>1, <2>4, Zenon
    <3>2. Len(la) >= 1
      BY <1>8 DEF Stopped
    <3>3. la[1] \in alt.s[1]
      BY <1>1, <3>1, <3>2, FitsAt
    <3>4. la[1] \in {"TX", "PV"}
      BY <3>1, <3>3
    <3>5. HeaderNext(la)
      BY <1>8, <3>4 DEF Stopped
    <3>6. Len(la) >= 2
      BY <3>5 DEF HeaderNext
    <3>7. QED
      BY <1>1, <3>1, <3>6, Shorter, Zenon
  <2>5. QED
    BY <2>2, <2>3, <2>4
<1>9. QED
  BY <1>3, <1>4, <1>5, <1>6, <1>7, <1>8, Zenon

LEMMA LexTokens ==
  ASSUME NEW n, Live(n), NEW alt, alt = Alternatives[n], Lex(alt), Consumed # 0,
         NEW x \in NextLexemes, NEW kind, kind = Lexed(x.kind, Offered(Len(la) + 1))
  PROVE  \/ kind = x.kind
         \/ /\ Len(la) = 3 /\ At("elem", "open") /\ kind = "NR"
            /\ la[1] = "NUM" /\ la[2] = "STAR" /\ la[3] = "NUM"
<1>1. /\ Runs(n) /\ Accurate /\ Shape /\ Len(la) \in Nat
      /\ Top.rule \in RuleNames /\ Top.phase \in {"open", "close"}
  BY LiveFacts, Sizes DEF Runs
<1>2. /\ ~At("alts", "open") /\ ~At("elem", "close") /\ ~At("abnf", "close")
      /\ ~At("alts", "close") /\ ~At("prod", "open") /\ ~At("prod", "close")
  <2>1. /\ At("abnf", "close") => Len(la) >= 1
        /\ At("alts", "close") => Len(la) >= 1
        /\ At("prod", "open") => HeaderNext(la)
        /\ At("prod", "close") => Stopped(la)
    BY <1>1 DEF Shape, Stopped
  <2>2. QED
    BY <1>1, <2>1, LexesNothing, Zenon
<1>3. ~At("abnf", "open")
  BY <1>1 DEF Shape
<1>4. CASE Top.rule = "seq"
  BY <1>1, <1>4, SeqLexes, Zenon
<1>5. CASE At("elem", "open")
  <2>1. Top.rule = "elem" /\ Top.phase = "open" /\ Len(la) >= 1
    BY <1>1, <1>5 DEF Shape, At
  <2>2. QED
    BY <1>1, <1>5, <2>1, ElemLexes, Zenon
<1>6. CASE At("atom", "open")
  <2>1. Top.rule = "atom" /\ Top.phase = "open" /\ Len(la) >= 1
    BY <1>1, <1>6 DEF Shape, At
  <2>2. Exact
    <3>1. ~At("elem", "open")
      BY <2>1 DEF At
    <3>2. QED
      BY <1>1, <3>1, ExactBut, Zenon
  <2>3. la[1] = Kind(Consumed + 1)
    BY <1>1, <2>1, <2>2 DEF Exact
  <2>4. QED
    BY <1>1, <2>1, <2>3, AtomOpenLexes, Zenon
<1>7. CASE At("atom", "close")
  <2>1. Top.rule = "atom" /\ Top.phase = "close"
    BY <1>7 DEF At
  <2>2. QED
    BY <1>1, <2>1, AtomCloseLexes, Zenon
<1>8. Top.rule = "seq" \/ At("elem", "open") \/ At("atom", "open") \/ At("atom", "close")
  BY <1>1, <1>2, <1>3 DEF RuleNames, At
<1>9. QED
  BY <1>4, <1>5, <1>6, <1>7, <1>8

\* The lexeme x is read, as a token of the kind that the matchers make of it.
Adds(x, kind) ==
  /\ x \in NextLexemes /\ kind \in Kinds /\ kind = Lexed(x.kind, Offered(Len(la) + 1))
  /\ input' = Append(input, x)
  /\ Len(la') = Len(la) + 1 /\ la'[Len(la) + 1] = kind
  /\ \A k \in 1..Len(la) : la'[k] = la[k]
  /\ Consumed' = Consumed /\ stack' = stack /\ heap' = heap

LEMMA MoreTokens ==
  ASSUME NEW t, NEW u, Len(t) \in Nat, Len(u) = Len(t) + 1, \A k \in 1..Len(t) : u[k] = t[k]
  PROVE  /\ HeaderNext(t) => HeaderNext(u)
         /\ Stopped(t) => Stopped(u)
         /\ Len(t) >= 1 => Len(u) >= 1 /\ u[1] = t[1]
<1>1. Len(t) >= 1 => Len(u) >= 1 /\ u[1] = t[1]
  OBVIOUS
<1>2. Len(t) >= 2 => Len(u) >= 2 /\ u[2] = t[2] /\ Len(t) >= 1
  OBVIOUS
<1>3. HeaderNext(t) => HeaderNext(u)
  BY <1>1, <1>2, Zenon DEF HeaderNext
<1>4. QED
  BY <1>1, <1>3, Zenon DEF Stopped

\* Where the lexemes up to the new one stand.
LEMMA NewPlace ==
  ASSUME Held, status = "run"
  PROVE  /\ Len(la) \in Nat /\ Len(input) \in Nat /\ Consumed + Len(la) = Len(input)
         /\ Consumed \in 0..Len(input) /\ Consumed + (Len(la) + 1) = Len(input) + 1
         /\ Len(la) >= 1 => Consumed < Len(input)
         /\ Len(la) + 1 >= 1
         /\ \A k \in 1..(Len(la) + 1) : k \in 1..Len(la) \/ k = Len(la) + 1
         /\ \A k \in 1..Len(la) : Consumed + k \in Int /\ Consumed + k # Len(input) + 1
<1>1. /\ Len(la) \in Nat /\ Len(input) \in Nat /\ Len(la) <= Len(input)
      /\ Consumed = Len(input) - Len(la)
  BY Sizes DEF Consumed
<1>2. QED
  BY <1>1

\* Old tokens keep their lexemes and the new one has the new lexeme.
LEMMA KindsAdded ==
  ASSUME Held, status = "run", NEW x, NEW kind, Adds(x, kind)
  PROVE  /\ \A k \in 1..Len(la) : KindAt(input', Consumed + k) = Kind(Consumed + k)
         /\ KindAt(input', Consumed + (Len(la) + 1)) = x.kind
<1>1. /\ Len(la) \in Nat /\ Len(input) \in Nat /\ Consumed + (Len(la) + 1) = Len(input) + 1
      /\ \A k \in 1..Len(la) : Consumed + k \in Int /\ Consumed + k # Len(input) + 1
  BY NewPlace, Zenon
<1>2. input \in Seq(Lexemes) /\ x \in Lexemes /\ input' = Append(input, x)
  BY Sizes, TextLexemes DEF Adds, NextLexemes
<1>3. \A i \in Int : KindAt(Append(input, x), i) =
                       IF i = Len(input) + 1 THEN x.kind ELSE KindAt(input, i)
  BY <1>2, KindOfLonger, Zenon
<1>4. Len(input) + 1 \in Int
  BY <1>1
<1>5. QED
  BY <1>1, <1>2, <1>3, <1>4, Zenon DEF Kind

\* A lexeme is read as itself, or as what the default matchers make of it.
LEMMA KindAdded ==
  ASSUME NEW x, NEW kind, Adds(x, kind)
  PROVE  \/ kind = x.kind
         \/ kind = "NR"
         \/ kind = "TX" /\ x.kind \in {"NV", "SS", "SI", "PV"}
<1>1. kind = x.kind \/ (x.kind \in Matched /\ kind = IF x.kind = "NUM" THEN "NR" ELSE "TX")
  BY LexedIs DEF Adds
<1>2. QED
  BY <1>1 DEF Matched

LEMMA TokenAdded ==
  ASSUME NEW x, NEW kind, Adds(x, kind)
  PROVE  \/ kind = x.kind
         \/ x.kind \in Matched /\ kind = IF x.kind = "NUM" THEN "NR" ELSE "TX"
<1>1. kind = Lexed(x.kind, Offered(Len(la) + 1))
  BY Zenon DEF Adds
<1>2. QED
  BY <1>1, ReadAs

LEMMA LexAccurate ==
  ASSUME NEW n, Live(n), NEW alt, alt = Alternatives[n], Lex(alt), NEW x, NEW kind,
         Adds(x, kind)
  PROVE  Accurate'
<1>1. /\ Runs(n) /\ Held /\ status = "run" /\ Accurate /\ Len(la) \in Nat
      /\ Consumed = 0 => At("abnf", "open") \/ At("prod", "open")
  BY LiveFacts, Sizes
<1>2. /\ \A k \in 1..Len(la) : KindAt(input', Consumed + k) = Kind(Consumed + k)
      /\ KindAt(input', Consumed + (Len(la) + 1)) = x.kind
  BY <1>1, KindsAdded, Zenon
<1>3. /\ Len(la') = Len(la) + 1 /\ la'[Len(la) + 1] = kind
      /\ \A k \in 1..Len(la) : la'[k] = la[k]
      /\ Consumed' = Consumed /\ stack' = stack
  BY DEF Adds
<1>4. At("elem", "open")' <=> At("elem", "open")
  BY <1>3 DEF At, Top
<1>5. CASE Consumed # 0
  <2>1. x \in NextLexemes /\ kind = Lexed(x.kind, Offered(Len(la) + 1))
    BY DEF Adds
  <2>2. \/ kind = x.kind
        \/ /\ Len(la) = 3 /\ At("elem", "open") /\ kind = "NR"
           /\ la[1] = "NUM" /\ la[2] = "STAR" /\ la[3] = "NUM"
    BY <1>5, <2>1, LexTokens, Zenon
  <2>3. ASSUME NEW k \in 1..(Len(la) + 1)
        PROVE  \/ la'[k] = KindAt(input', Consumed + k)
               \/ /\ k = 4 /\ At("elem", "open") /\ la'[4] = "NR"
                  /\ la'[1] = "NUM" /\ la'[2] = "STAR" /\ la'[3] = "NUM"
    <3>1. CASE k \in 1..Len(la)
      <4>1. \/ la[k] = Kind(Consumed + k)
            \/ /\ k = 4 /\ At("elem", "open") /\ la[4] = "NR"
               /\ la[1] = "NUM" /\ la[2] = "STAR" /\ la[3] = "NUM"
        BY <1>1, <1>5, <3>1 DEF Accurate
      <4>2. k = 4 => 1 \in 1..Len(la) /\ 2 \in 1..Len(la) /\ 3 \in 1..Len(la) /\ 4 \in 1..Len(la)
        BY <1>1, <3>1
      <4>3. QED
        BY <1>2, <1>3, <3>1, <4>1, <4>2, Zenon
    <3>2. CASE k = Len(la) + 1
      <4>1. la'[k] = kind /\ KindAt(input', Consumed + k) = x.kind
        BY <1>2, <1>3, <3>2, Zenon
      <4>2. Len(la) = 3 => k = 4 /\ 1 \in 1..Len(la) /\ 2 \in 1..Len(la) /\ 3 \in 1..Len(la)
        BY <3>2
      <4>3. QED
        BY <1>3, <2>2, <4>1, <4>2, Zenon
    <3>3. QED
      BY <1>1, <3>1, <3>2
  <2>4. Consumed' # 0 /\ Len(la') = Len(la) + 1
    BY <1>3, <1>5
  <2>5. \A k \in 1..Len(la') :
          \/ la'[k] = KindAt(input', Consumed' + k)
          \/ /\ k = 4 /\ At("elem", "open")' /\ la'[4] = "NR"
             /\ la'[1] = "NUM" /\ la'[2] = "STAR" /\ la'[3] = "NUM"
    BY <1>3, <1>4, <2>3, <2>4, Zenon
  <2>6. QED
    BY <2>4, <2>5, Zenon DEF Accurate, Kind
<1>6. CASE Consumed = 0
  <2>1. Len(la) = 0 \/ Len(la) = 1
    <3>1. n \in DOMAIN Alternatives
      BY <1>1 DEF Runs
    <3>2. CASE At("abnf", "open")
      <4>1. /\ DOMAIN Alternatives = 1..2
            /\ Len(Alternatives[1].s) = 1 /\ Len(Alternatives[2].s) = 0
        BY <3>2, AbnfOpen DEF At, Is0, Is1
      <4>2. n = 1 \/ n = 2
        BY <3>1, <4>1
      <4>3. Len(alt.s) = 1 \/ Len(alt.s) = 0
        BY <4>1, <4>2
      <4>4. QED
        BY <1>1, <4>3, LexesNext, Shorter, Zenon
    <3>3. CASE At("prod", "open")
      <4>1. DOMAIN Alternatives = 1..3 /\ \A k \in {1, 2, 3} : Len(Alternatives[k].s) = 2
        BY <3>3, ProdOpen DEF At, Is2
      <4>2. n \in {1, 2, 3}
        BY <3>1, <4>1
      <4>3. Len(alt.s) \in {0, 1, 2}
        BY <4>1, <4>2, Zenon
      <4>4. QED
        BY <1>1, <4>3, LexesNext, Shorter, Zenon
    <3>4. QED
      BY <1>1, <1>6, <3>2, <3>3
  <2>2. \/ kind = x.kind
        \/ kind = "NR"
        \/ kind = "TX" /\ x.kind \in {"NV", "SS", "SI", "PV"}
    BY KindAdded
  <2>3. CASE Len(la) = 0
    <3>1. Len(la') = 1 /\ la'[1] = kind
      BY <1>3, <2>3
    <3>2. KindAt(input', 1) = x.kind
      BY <1>2, <1>6, <2>3
    <3>3. Consumed' = 0
      BY <1>3, <1>6
    <3>4. QED
      BY <2>2, <3>1, <3>2, <3>3 DEF Accurate, Kind
  <2>4. CASE Len(la) = 1
    <3>1. Len(la') = 2 /\ la'[2] = kind /\ la'[1] = la[1]
      BY <1>3, <2>4
    <3>2. KindAt(input', 2) = x.kind /\ KindAt(input', 1) = Kind(1)
      BY <1>2, <1>6, <2>4
    <3>3. Consumed' = 0
      BY <1>3, <1>6
    <3>4. \/ la[1] = Kind(1)
          \/ la[1] = "NR"
          \/ la[1] = "TX" /\ Kind(1) \in {"NV", "SS", "SI", "PV"}
      BY <1>1, <1>6, <2>4 DEF Accurate
    <3>5. QED
      BY <2>2, <3>1, <3>2, <3>3, <3>4 DEF Accurate, Kind
  <2>5. QED
    BY <2>1, <2>3, <2>4
<1>7. QED
  BY <1>5, <1>6

LEMMA LexShape ==
  ASSUME NEW n, Live(n), NEW x, NEW kind, Adds(x, kind),
         Kind(Consumed)' = Kind(Consumed),
         PrefixFits(input', Consumed' + 1) <=> PrefixFits(input, Consumed + 1)
  PROVE  Shape'
<1>1. Shape /\ Len(la) \in Nat
  BY LiveFacts, Sizes
<1>2. /\ Len(la') = Len(la) + 1 /\ \A k \in 1..Len(la) : la'[k] = la[k]
      /\ Consumed' = Consumed /\ stack' = stack /\ heap' = heap
  BY DEF Adds
<1>3. /\ HeaderNext(la) => HeaderNext(la')
      /\ Stopped(la) => Stopped(la') /\ la'[1] = la[1]
      /\ Len(la) >= 1 => Len(la') >= 1
  <2>1. Stopped(la) => Len(la) >= 1
    BY DEF Stopped
  <2>2. QED
    BY <1>1, <1>2, <2>1, MoreTokens, Zenon
<1>4. Top' = Top
  BY <1>2 DEF Top
<1>5. \A rule, phase : At(rule, phase)' <=> At(rule, phase)
  BY <1>4 DEF At
<1>6. /\ Consumed' = 0 => At("abnf", "open")' \/ At("prod", "open")'
      /\ At("abnf", "open")' => Consumed' = 0 /\ heap' = << <<>> >>
      /\ At("abnf", "close")' => Len(la') >= 1
      /\ At("prod", "open")' => Consumed' = 0 \/ HeaderNext(la')
      /\ At("prod", "close")' => Stopped(la')
      /\ At("alts", "close")' => Stopped(la')
      /\ At("elem", "open")' => Len(la') >= 1
      /\ Kind(Consumed)' \in Counts => At("atom", "open")'
  BY <1>1, <1>2, <1>3, <1>5, Zenon DEF Shape
<1>7. At("atom", "open")' =>
        /\ Len(la') >= 1 /\ PrefixFits(input', Consumed' + 1)
        /\ Top'.grp = "" /\ Top'.node.kind = "undefined"
  BY <1>1, <1>3, <1>4, <1>5, Zenon DEF Shape
<1>8. At("atom", "close")' =>
        IF Top'.grp = "" THEN Top'.node.kind # "undefined" ELSE Stopped(la') /\ la'[1] # "ALT"
  BY <1>1, <1>3, <1>4, <1>5, Zenon DEF Shape
<1>9. QED
  BY <1>6, <1>7, <1>8, Zenon DEF Shape

LEMMA LexGood ==
  ASSUME NEW n, Live(n), NEW alt, alt = Alternatives[n], Lex(alt), NEW x, NEW kind,
         Adds(x, kind), Consumed < Len(input) \/ x.kind \notin Defines
  PROVE  Good'
<1>1. /\ Runs(n) /\ Held /\ status = "run" /\ Waiting
      /\ Nested(input, Consumed, stack) /\ Sounded(input, Consumed, stack)
      /\ Depth(input, Consumed) = Unclosed
  BY LiveFacts, Zenon
<1>2. /\ input \in Seq(Lexemes) /\ x \in Lexemes /\ input' = Append(input, x)
      /\ Consumed' = Consumed /\ stack' = stack
  BY <1>1, Sizes, TextLexemes DEF Adds, NextLexemes
<1>3. Consumed \in 0..Len(input)
  BY <1>1, NewPlace, Zenon
<1>4. /\ Nested(input', Consumed, stack) /\ Sounded(input', Consumed, stack)
      /\ Depth(input', Consumed) = Depth(input, Consumed)
      /\ KindAt(input', Consumed) = KindAt(input, Consumed)
      /\ PrefixFits(input', Consumed + 1) <=> PrefixFits(input, Consumed + 1)
  BY <1>1, <1>2, <1>3, LongerText, Zenon
<1>5. Accurate'
  BY LexAccurate, Zenon
<1>6. Shape'
  <2>1. Kind(Consumed)' = Kind(Consumed)
    BY <1>2, <1>4, Zenon DEF Kind
  <2>2. PrefixFits(input', Consumed' + 1) <=> PrefixFits(input, Consumed + 1)
    BY <1>2, <1>4, Zenon
  <2>3. QED
    BY <2>1, <2>2, LexShape, Zenon
<1>7. Waiting' /\ Unclosed' = Unclosed
  BY <1>1, <1>2, Zenon DEF Waiting, Unclosed, Top
<1>8. /\ Nested(input', Consumed', stack') /\ Sounded(input', Consumed', stack')
      /\ Depth(input', Consumed') = Unclosed'
  BY <1>1, <1>2, <1>4, <1>7, Zenon
<1>9. Nest'
  BY <1>7, <1>8, MakesNest, Zenon
<1>10. QED
  BY <1>5, <1>6, <1>8, <1>9, Zenon DEF Good

\* A step that reads a lexeme, whatever the state of the parse.
LEMMA LexKeeps ==
  ASSUME NEW n, Runs(n), NEW alt, alt = Alternatives[n], Lex(alt), ParseInv
  PROVE  ParseInv'
<1>1. /\ status = "run" /\ Held /\ NoBad /\ Proper(input) /\ Waiting /\ Reading
  BY DEF Runs, ParseInv, Waits
<1>2. PICK x, kind : Adds(x, kind) /\ status' = IF kind = "BD" THEN "error" ELSE "run"
  BY LexFacts, Zenon DEF Adds
<1>3. /\ x \in NextLexemes /\ input' = Append(input, x)
      /\ kind = Lexed(x.kind, Offered(Len(la) + 1))
      /\ Consumed' = Consumed /\ stack' = stack /\ heap' = heap
      /\ Len(la') = Len(la) + 1 /\ la'[Len(la) + 1] = kind
      /\ \A k \in 1..Len(la) : la'[k] = la[k]
  BY <1>2, Zenon DEF Adds
<1>4. /\ Len(la) \in Nat /\ input \in Seq(Lexemes) /\ Len(input) \in Nat
  BY <1>1, Sizes
<1>5. /\ x \in Lexemes /\ Proper(input')
      /\ \A i \in DOMAIN input : KindAt(input, i) = "ZZ" => x.kind = "ZZ"
  BY <1>1, <1>3, <1>4, ProperOfLonger, Zenon
<1>6. Waits' /\ Finished'
  BY <1>1, <1>2, <1>3 DEF Waits, Waiting, Finished
<1>7. CASE kind = "BD"
  <2>1. status' = "error"
    BY <1>2, <1>7
  <2>2. QED
    BY <1>5, <1>6, <2>1 DEF ParseInv, NoBad, Reading
<1>8. CASE kind # "BD"
  <2>1. status' = "run" /\ x.kind # "BD"
    <3>1. x.kind = "BD" => x.kind \notin Matched
      BY DEF Matched
    <3>2. x.kind = "BD" => kind = "BD"
      BY <1>3, <3>1, AsMeant, Zenon
    <3>3. QED
      BY <1>2, <1>8, <3>2
  <2>2. NoBad'
    <3>1. \A i \in DOMAIN input' : KindAt(input', i) # "BD"
      <4>1. \A i \in DOMAIN input : KindAt(input, i) # "BD"
        BY <1>1 DEF NoBad, Kind
      <4>2. \A i \in Int : KindAt(input', i) =
                             IF i = Len(input) + 1 THEN x.kind ELSE KindAt(input, i)
        BY <1>3, <1>4, <1>5, KindOfLonger, Zenon
      <4>3. \A i \in DOMAIN input' : i \in Int /\ (i = Len(input) + 1 \/ i \in DOMAIN input)
        BY <1>3, <1>4, <1>5, AppendProperties
      <4>4. QED
        BY <2>1, <4>1, <4>2, <4>3, Zenon
    <3>2. \A k \in 1..Len(la') : la'[k] # "BD"
      <4>1. \A k \in 1..Len(la) : la[k] # "BD"
        BY <1>1 DEF NoBad
      <4>2. \A k \in 1..Len(la') : k \in 1..Len(la) \/ k = Len(la) + 1
        BY <1>3, <1>4
      <4>3. QED
        BY <1>3, <1>8, <4>1, <4>2, Zenon
    <3>3. QED
      BY <3>1, <3>2 DEF NoBad, Kind
  <2>3. Top' = Top /\ (HasHole' <=> HasHole)
    BY <1>3 DEF Top, HasHole
  <2>4. Len(la) >= 1 => Len(la') >= 1 /\ la'[1] = la[1]
    BY <1>3, <1>4
  <2>5. Reading'
    <3>1. CASE Stuck
      <4>1. Stuck'
        BY <2>3, <2>4, <3>1 DEF Stuck, At
      <4>2. QED
        BY <4>1 DEF Reading
    <3>2. CASE Empty
      <4>1. Empty'
        BY <1>3, <2>3, <3>2 DEF Empty, At
      <4>2. QED
        BY <4>1 DEF Reading
    <3>3. CASE Holed /\ SomeDoomed(input)
      <4>1. SomeDoomed(input')
        BY <1>3, <1>4, <1>5, <3>3, DoomedOfLonger, Zenon
      <4>2. Holed'
        BY <2>3, <3>3 DEF Holed, Pending, At
      <4>3. QED
        BY <4>1, <4>2 DEF Reading
    <3>4. CASE ~Holed /\ Good
      <4>1. Live(n)
        BY <1>1, <3>4 DEF Live
      <4>2. CASE Consumed < Len(input) \/ x.kind \notin Defines
        <5>1. Good'
          BY <1>2, <4>1, <4>2, LexGood, Zenon
        <5>2. ~Holed'
          BY <2>3, <3>4 DEF Holed, Pending, At
        <5>3. QED
          BY <5>1, <5>2 DEF Reading
      <4>3. CASE ~(Consumed < Len(input)) /\ x.kind \in Defines
        <5>1. Len(la) = 0
          <6>1. ~(Len(la) >= 1)
            BY <1>1, <4>3, NewPlace, Zenon
          <6>2. QED
            BY <1>4, <6>1
        <5>2. kind = x.kind
          <6>1. x.kind \notin Matched
            BY <4>3 DEF Matched, Defines
          <6>2. QED
            BY <1>3, <6>1, AsMeant, Zenon
        <5>3. Len(la') >= 1 /\ la'[1] = x.kind
          BY <1>3, <5>1, <5>2
        <5>4. la'[1] \in Never
          BY <4>3, <5>3 DEF Never, Defines
        <5>5. QED
          BY <5>3, <5>4, ComesToNever, Zenon
      <4>4. QED
        BY <4>2, <4>3
    <3>5. QED
      BY <1>1, <3>1, <3>2, <3>3, <3>4 DEF Reading
  <2>6. QED
    BY <1>5, <1>6, <2>2, <2>5 DEF ParseInv
<1>9. QED
  BY <1>7, <1>8

-----------------------------------------------------------------------------
(* The invariant of the parse.                                             *)

LEMMA ParseStarts ==
  ASSUME Init
  PROVE  ParseInv
<1>1. /\ input = <<>> /\ la = <<>> /\ status = "run" /\ heap = << <<>> >>
      /\ Len(stack) = 1 /\ Top.rule = "abnf" /\ Top.phase = "open" /\ stack[1] = Top
  BY DEF Init, Top
<1>2. /\ Consumed = 0 /\ Len(la) = 0 /\ Len(input) = 0 /\ DOMAIN input = {}
      /\ input \in Seq(Lexemes)
  BY <1>1 DEF Consumed
<1>3. /\ At("abnf", "open") /\ ~At("abnf", "close") /\ ~At("prod", "open")
      /\ ~At("prod", "close") /\ ~At("alts", "close") /\ ~At("elem", "open")
      /\ ~At("elem", "close") /\ ~At("atom", "open") /\ ~At("atom", "close")
  BY <1>1 DEF At
<1>4. NoBad /\ Proper(input) /\ Waits /\ Finished
  BY <1>1, <1>2 DEF NoBad, Proper, Waits, Waiting, Finished
<1>5. ~Holed
  <2>1. ~HasHole
    BY <1>1 DEF HasHole
  <2>2. QED
    BY <1>3, <2>1 DEF Holed, Pending
<1>6. \A i : KindAt(input, i) = ""
  BY <1>2 DEF KindAt
<1>7. Accurate
  BY <1>2 DEF Accurate
<1>8. Shape
  <2>1. Kind(Consumed) \notin Counts
    BY <1>6 DEF Kind, Counts
  <2>2. QED
    BY <1>1, <1>2, <1>3, <2>1 DEF Shape
<1>9. \A n \in 1..Len(stack) : ~InBracket(stack[n])
  <2>1. \A n \in 1..Len(stack) : n = 1
    BY <1>1
  <2>2. ~InBracket(Top)
    BY <1>1 DEF InBracket
  <2>3. QED
    BY <1>1, <2>1, <2>2, Zenon
<1>10. Nest
  <2>1. Waiting /\ Nested(input, Consumed, stack)
    BY <1>1, <1>9 DEF Waiting, Nested
  <2>2. Depth(input, Consumed) = 0
    <3>1. Depth(input, 0) = 0
      BY <1>2, DepthStep
    <3>2. QED
      BY <1>2, <3>1
  <2>3. Unclosed = 0
    BY <1>1 DEF Unclosed, Level
  <2>4. QED
    BY <2>1, <2>2, <2>3 DEF Nest
<1>11. Sounded(input, Consumed, stack)
  <2>1. ~(Consumed > 0) /\ 1..Consumed = {}
    BY <1>2
  <2>2. Opens(input) = {}
    BY <1>2 DEF Opens
  <2>3. QED
    BY <2>1, <2>2 DEF Sounded
<1>12. QED
  BY <1>4, <1>5, <1>7, <1>8, <1>10, <1>11 DEF ParseInv, Reading, Good

LEMMA ParseKeeps ==
  ASSUME Held, ParseInv, [Next]_vars
  PROVE  ParseInv'
<1>1. CASE UNCHANGED vars
  <2>1. UNCHANGED <<input, la, stack, heap, status>>
    BY <1>1 DEF vars
  <2>2. Top' = Top /\ Consumed' = Consumed /\ Unclosed' = Unclosed
    BY <2>1 DEF Top, Consumed, Unclosed
  <2>3. NoBad' /\ Proper(input)' /\ Waits' /\ Finished'
    BY <2>1 DEF ParseInv, NoBad, Kind, Waits, Waiting, Finished, HasHole
  <2>4. Reading'
    BY <2>1, <2>2 DEF ParseInv, Reading, Stuck, Empty, Holed, HasHole, Pending, At, Good,
                      Accurate, Shape, Nest, Waiting, Kind
  <2>5. QED
    BY <2>3, <2>4 DEF ParseInv
<1>2. ASSUME status = "run", NEW n \in DOMAIN Alternatives, First(n), Step(Alternatives[n])
      PROVE  ParseInv'
  <2>1. Runs(n)
    BY <1>2 DEF Runs
  <2>2. CASE Lex(Alternatives[n])
    BY <2>1, <2>2, LexKeeps
  <2>3. CASE Acts(Alternatives[n])
    BY <2>1, <2>3, ActsKeeps
  <2>4. CASE ThrowNumeric(Alternatives[n])
    <3>1. status' = "numeric" /\ input' = input
      BY <2>4 DEF ThrowNumeric
    <3>2. QED
      BY <3>1 DEF ParseInv, NoBad, Waits, Reading, Finished
  <2>5. QED
    BY <1>2, <2>2, <2>3, <2>4 DEF Step, Acts
<1>3. CASE Reject
  <2>1. status' = "error" /\ input' = input
    BY <1>3 DEF Reject
  <2>2. QED
    BY <2>1 DEF ParseInv, NoBad, Waits, Reading, Finished
<1>4. CASE Ended
  BY <1>1, <1>4 DEF Ended
<1>5. QED
  BY <1>1, <1>2, <1>3, <1>4 DEF Next

\* ParseInv, which TypeOK, FourLevelsPerBracket and NodesInPlace make
\* inductive, holds of every parse.
LEMMA ParseIsSound == Spec => [](Held /\ ParseInv)
<1>1. Spec => []Held
  BY TypeCorrect, LevelsFollowBrackets, AppendsLandInPlace, PTL DEF Held
<1>2. Init => ParseInv
  BY ParseStarts
<1>3. Held /\ ParseInv /\ [Next]_vars => ParseInv'
  BY ParseKeeps
<1>4. QED
  BY <1>1, <1>2, <1>3, PTL DEF Spec

\* An element comes back undefined, and leaves a hole in its sequence, only
\* in a text with a bracket that is left open or closed by the other kind.
THEOREM OnlyBracketsLeaveHoles == Spec => []HoleOnlyForBracket
<1>1. ASSUME Held, ParseInv
      PROVE  HoleOnlyForBracket
  <2>1. SUFFICES ASSUME status = "done", HasHole
                 PROVE  \E i \in Opens(input) : ~\E j \in Closes(input) : Mated(input, i, j)
    BY DEF HoleOnlyForBracket, Mated
  <2>2. heap # << <<>> >>
    BY <2>1 DEF HasHole
  <2>3. SomeDoomed(input) /\ Proper(input)
    BY <1>1, <2>1, <2>2 DEF ParseInv, Finished
  <2>4. input \in Seq(Lexemes)
    BY <1>1, TextIs DEF Held
  <2>5. QED
    BY <2>3, <2>4, DoomedIsUnmated, Zenon
<1>2. QED
  BY <1>1, ParseIsSound, PTL

\* A text that is parsed to productions without a hole is in the language.
THEOREM OnlyWellFormedIsAccepted == Spec => []AcceptsOnlyWellFormed
<1>1. ASSUME Held, ParseInv
      PROVE  AcceptsOnlyWellFormed
  <2>1. heap = << <<>> >> => Root = <<>>
    BY DEF Root
  <2>2. QED
    BY <1>1, <2>1 DEF ParseInv, Finished, AcceptsOnlyWellFormed
<1>2. QED
  BY <1>1, ParseIsSound, PTL

-----------------------------------------------------------------------------
(* What the alternatives that were passed over say of the next tokens.     *)

LEMMA UpToFour ==
  /\ \A k \in 1..1 : k = 1
  /\ \A k \in 1..2 : k = 1 \/ k = 2
  /\ \A k \in 1..3 : k = 1 \/ k = 2 \/ k = 3
  /\ \A k \in 1..4 : k = 1 \/ k = 2 \/ k = 3 \/ k = 4
OBVIOUS

LEMMA AtLeast ==
  ASSUME NEW size \in Nat
  PROVE  /\ 1 <= size => size >= 1
         /\ 2 <= size => size >= 1 /\ size >= 2
         /\ 3 <= size => size >= 1 /\ size >= 3
         /\ 4 <= size => size >= 1 /\ size >= 4
OBVIOUS

LEMMA Unfit1 ==
  ASSUME NEW alt, NEW A,
         NEW b, NEW p, NEW r, NEW c, NEW a, Is1(alt, A, b, p, r, c, a),
         c = "", Len(la) \in Nat, ~Fits(alt)
  PROVE  Len(la) >= 1 /\ la[1] \notin A
<1>1. /\ DOMAIN alt.s = 1..1 /\ alt.s[1] = A
      /\ alt.c = ""
  BY Zenon DEF Is1, Act
<1>2. \E k \in DOMAIN alt.s : k <= Len(la) /\ la[k] \notin alt.s[k]
  BY <1>1, Zenon DEF Fits
<1>3. (1 <= Len(la) /\ la[1] \notin A)
  BY <1>1, <1>2, UpToFour, Zenon
<1>4. QED
  BY <1>3, AtLeast, Zenon

LEMMA Unfit2 ==
  ASSUME NEW alt, NEW A, NEW B,
         NEW b, NEW p, NEW r, NEW c, NEW a, Is2(alt, A, B, b, p, r, c, a),
         c = "", Len(la) \in Nat, ~Fits(alt)
  PROVE  Len(la) >= 1 /\ (la[1] \in A => Len(la) >= 2 /\ la[2] \notin B)
<1>1. /\ DOMAIN alt.s = 1..2 /\ alt.s[1] = A /\ alt.s[2] = B
      /\ alt.c = ""
  BY Zenon DEF Is2, Act
<1>2. \E k \in DOMAIN alt.s : k <= Len(la) /\ la[k] \notin alt.s[k]
  BY <1>1, Zenon DEF Fits
<1>3. (1 <= Len(la) /\ la[1] \notin A) \/ (2 <= Len(la) /\ la[2] \notin B)
  BY <1>1, <1>2, UpToFour, Zenon
<1>4. QED
  BY <1>3, AtLeast, Zenon

LEMMA Unfit3 ==
  ASSUME NEW alt, NEW A, NEW B, NEW C,
         NEW b, NEW p, NEW r, NEW c, NEW a, Is3(alt, A, B, C, b, p, r, c, a),
         c = "", Len(la) \in Nat, ~Fits(alt), la[1] \in A, la[2] \in B
  PROVE  Len(la) >= 3 /\ la[3] \notin C
<1>1. /\ DOMAIN alt.s = 1..3 /\ alt.s[1] = A /\ alt.s[2] = B /\ alt.s[3] = C
      /\ alt.c = ""
  BY Zenon DEF Is3, Act
<1>2. \E k \in DOMAIN alt.s : k <= Len(la) /\ la[k] \notin alt.s[k]
  BY <1>1, Zenon DEF Fits
<1>3. (1 <= Len(la) /\ la[1] \notin A) \/ (2 <= Len(la) /\ la[2] \notin B) \/ (3 <= Len(la) /\ la[3] \notin C)
  BY <1>1, <1>2, UpToFour, Zenon
<1>4. QED
  BY <1>3, AtLeast, Zenon

LEMMA Unfit4 ==
  ASSUME NEW alt, NEW A, NEW B, NEW C, NEW D,
         NEW b, NEW p, NEW r, NEW c, NEW a, Is4(alt, A, B, C, D, b, p, r, c, a),
         c = "", Len(la) \in Nat, ~Fits(alt), la[1] \in A, la[2] \in B, la[3] \in C
  PROVE  Len(la) >= 4 /\ la[4] \notin D
<1>1. /\ DOMAIN alt.s = 1..4 /\ alt.s[1] = A /\ alt.s[2] = B /\ alt.s[3] = C /\ alt.s[4] = D
      /\ alt.c = ""
  BY Zenon DEF Is4, Act
<1>2. \E k \in DOMAIN alt.s : k <= Len(la) /\ la[k] \notin alt.s[k]
  BY <1>1, Zenon DEF Fits
<1>3. (1 <= Len(la) /\ la[1] \notin A) \/ (2 <= Len(la) /\ la[2] \notin B) \/ (3 <= Len(la) /\ la[3] \notin C) \/ (4 <= Len(la) /\ la[4] \notin D)
  BY <1>1, <1>2, UpToFour, Zenon
<1>4. QED
  BY <1>3, AtLeast, Zenon

LEMMA Over ==
  ASSUME NEW n, Settled(n), NEW m \in DOMAIN Alternatives, ~(n <= m)
  PROVE  ~Fits(Alternatives[m]) /\ Len(la) \in Nat
<1>1. ~Fits(Alternatives[m])
  BY DEF Settled, First, Candidates
<1>2. Len(la) \in Nat
  BY LenProperties DEF Settled, TypeOK
<1>3. QED
  BY <1>1, <1>2

\* A sequence that goes on with a name or prose knows the token behind it.
ElementNext(t) ==
  /\ Len(t) >= 1 /\ t[1] \in ATOM \union Counts
  /\ t[1] \in {"TX", "PV"} => Len(t) >= 2 /\ ~HeaderNext(t)

LEMMA SeqOpenSees ==
  ASSUME NEW n, Settled(n), NEW alt, alt = Alternatives[n],
         Top.rule = "seq", Top.phase = "open", alt.p = "elem",
         la[1] \notin Never \union {"BD"}
  PROVE  ElementNext(la)
<1>0. DOMAIN Alternatives = 1..8
  BY SeqOpen, Zenon
<1>1. n = 1 \/ n = 2 \/ n = 3 \/ n = 4 \/ n = 5 \/ n = 6 \/ n = 7 \/ n = 8
  BY <1>0 DEF Settled
<1>2. Len(la) \in Nat
  BY LenProperties DEF Settled, TypeOK
<1>3. n \notin {1, 2, 5, 6}
  <2>1. alt.p # ""
    BY Named
  <2>2. /\ Is2(Alternatives[1], {"TX"}, {"DEF"}, 2, "", "", "", "")
        /\ Is2(Alternatives[2], {"TX"}, {"DEFA"}, 2, "", "", "", "")
        /\ Is2(Alternatives[5], {"PV"}, {"DEF"}, 2, "", "", "", "")
        /\ Is1(Alternatives[6], {"ALT", "ZZ", "RP", "CB"}, 1, "", "", "", "")
    BY SeqOpen, Zenon
  <2>3. /\ Alternatives[1].p = ""
        /\ Alternatives[2].p = ""
        /\ Alternatives[5].p = ""
        /\ Alternatives[6].p = ""
    BY <2>2, Zenon DEF Is1, Is2, Act
  <2>4. QED
    BY <2>1, <2>3
<1>4. CASE n = 3
  <2>1. Is2(alt, {"TX"}, {"NUM"}, 2, "elem", "", "", "")
    BY <1>4, SeqOpen, Zenon
  <2>2. Len(la) >= 1 /\ Len(la) >= 2 /\ la[1] \in {"TX"} /\ la[2] \in {"NUM"}
    BY <2>1, Reads2, Zenon
  <2>3. QED
    BY <2>2 DEF ElementNext, HeaderNext, Defines, ATOM
<1>5. CASE n = 4
  <2>1. Is2(alt, {"TX"}, ATOM, 2, "elem", "", "", "")
    BY <1>5, SeqOpen, Zenon
  <2>2. Len(la) >= 1 /\ Len(la) >= 2 /\ la[1] \in {"TX"} /\ la[2] \in ATOM
    BY <2>1, Reads2, Zenon
  <2>3. QED
    BY <2>2 DEF ElementNext, HeaderNext, Defines, ATOM
<1>6. CASE n = 7 \/ n = 8
  <2>0. \A m \in {1, 2, 5} : m \in DOMAIN Alternatives /\ ~(n <= m)
    BY <1>0, <1>6
  <2>1. ~Fits(Alternatives[1]) /\ ~Fits(Alternatives[2]) /\ ~Fits(Alternatives[5])
    BY <2>0, Over
  <2>2. /\ Is2(Alternatives[1], {"TX"}, {"DEF"}, 2, "", "", "", "")
        /\ Is2(Alternatives[2], {"TX"}, {"DEFA"}, 2, "", "", "", "")
        /\ Is2(Alternatives[5], {"PV"}, {"DEF"}, 2, "", "", "", "")
    BY SeqOpen, Zenon
  <2>3. /\ Len(la) >= 1 /\ (la[1] \in {"TX"} => Len(la) >= 2 /\ la[2] \notin {"DEF"})
        /\ la[1] \in {"TX"} => Len(la) >= 2 /\ la[2] \notin {"DEFA"}
        /\ la[1] \in {"PV"} => Len(la) >= 2 /\ la[2] \notin {"DEF"}
    BY <1>2, <2>1, <2>2, Unfit2, Zenon
  <2>4. la[1] \in ATOM \union Counts
    <3>1. CASE n = 7
      <4>1. Is1(alt, ATOM \union {"STAR", "NUM"}, 1, "elem", "", "", "")
        BY <3>1, SeqOpen, Zenon
      <4>2. la[1] \in ATOM \union {"STAR", "NUM"}
        BY <4>1, Reads1, Zenon
      <4>3. QED
        BY <4>2 DEF Counts
    <3>2. CASE n = 8
      <4>1. \A m \in {6, 7} : m \in DOMAIN Alternatives /\ ~(n <= m)
        BY <1>0, <3>2
      <4>2. ~Fits(Alternatives[6]) /\ ~Fits(Alternatives[7])
        BY <4>1, Over
      <4>3. /\ Is1(Alternatives[6], {"ALT", "ZZ", "RP", "CB"}, 1, "", "", "", "")
            /\ Is1(Alternatives[7], ATOM \union {"STAR", "NUM"}, 1, "elem", "", "", "")
        BY SeqOpen, Zenon
      <4>4. la[1] \notin {"ALT", "ZZ", "RP", "CB"} /\ la[1] \notin ATOM \union {"STAR", "NUM"}
        BY <1>2, <4>2, <4>3, Unfit1, Zenon
      <4>5. la[1] \in Kinds
        BY <2>3, HeadKind DEF Settled
      <4>6. QED
        BY <4>4, <4>5 DEF Kinds, Fixed, Matched, Never, ATOM
    <3>3. QED
      BY <1>6, <3>1, <3>2
  <2>5. QED
    BY <1>2, <2>3, <2>4 DEF ElementNext, HeaderNext, Defines
<1>7. QED
  BY <1>1, <1>3, <1>4, <1>5, <1>6

LEMMA SeqCloseSees ==
  ASSUME NEW n, Settled(n), NEW alt, alt = Alternatives[n],
         Top.rule = "seq", Top.phase = "close", alt.p = "elem"
  PROVE  ElementNext(la)
<1>0. DOMAIN Alternatives = 1..8
  BY SeqClose, Zenon
<1>1. n = 1 \/ n = 2 \/ n = 3 \/ n = 4 \/ n = 5 \/ n = 6 \/ n = 7 \/ n = 8
  BY <1>0 DEF Settled
<1>2. Len(la) \in Nat
  BY LenProperties DEF Settled, TypeOK
<1>3. n \notin {1, 2, 3, 6, 8}
  <2>1. alt.p # ""
    BY Named
  <2>2. /\ Is2(Alternatives[1], {"TX"}, {"DEF"}, 2, "", "", "", "")
        /\ Is2(Alternatives[2], {"TX"}, {"DEFA"}, 2, "", "", "", "")
        /\ Is2(Alternatives[3], {"PV"}, {"DEF"}, 2, "", "", "", "")
        /\ Is1(Alternatives[6], {"ALT", "ZZ", "RP", "CB"}, 1, "", "", "", "")
        /\ Is0(Alternatives[8], 1, "", "", "", "")
    BY SeqClose, Zenon
  <2>3. /\ Alternatives[1].p = ""
        /\ Alternatives[2].p = ""
        /\ Alternatives[3].p = ""
        /\ Alternatives[6].p = ""
        /\ Alternatives[8].p = ""
    BY <2>2, Zenon DEF Is0, Is1, Is2, Act
  <2>4. QED
    BY <2>1, <2>3
<1>4. CASE n = 4
  <2>1. Is2(alt, {"TX"}, {"NUM"}, 2, "elem", "", "", "")
    BY <1>4, SeqClose, Zenon
  <2>2. Len(la) >= 1 /\ Len(la) >= 2 /\ la[1] \in {"TX"} /\ la[2] \in {"NUM"}
    BY <2>1, Reads2, Zenon
  <2>3. QED
    BY <2>2 DEF ElementNext, HeaderNext, Defines, ATOM
<1>5. CASE n = 5
  <2>1. Is2(alt, {"TX"}, ATOM, 2, "elem", "", "", "")
    BY <1>5, SeqClose, Zenon
  <2>2. Len(la) >= 1 /\ Len(la) >= 2 /\ la[1] \in {"TX"} /\ la[2] \in ATOM
    BY <2>1, Reads2, Zenon
  <2>3. QED
    BY <2>2 DEF ElementNext, HeaderNext, Defines, ATOM
<1>6. CASE n = 7
  <2>0. \A m \in {1, 2, 3} : m \in DOMAIN Alternatives /\ ~(n <= m)
    BY <1>0, <1>6
  <2>1. ~Fits(Alternatives[1]) /\ ~Fits(Alternatives[2]) /\ ~Fits(Alternatives[3])
    BY <2>0, Over
  <2>2. /\ Is2(Alternatives[1], {"TX"}, {"DEF"}, 2, "", "", "", "")
        /\ Is2(Alternatives[2], {"TX"}, {"DEFA"}, 2, "", "", "", "")
        /\ Is2(Alternatives[3], {"PV"}, {"DEF"}, 2, "", "", "", "")
    BY SeqClose, Zenon
  <2>3. /\ Len(la) >= 1 /\ (la[1] \in {"TX"} => Len(la) >= 2 /\ la[2] \notin {"DEF"})
        /\ la[1] \in {"TX"} => Len(la) >= 2 /\ la[2] \notin {"DEFA"}
        /\ la[1] \in {"PV"} => Len(la) >= 2 /\ la[2] \notin {"DEF"}
    BY <1>2, <2>1, <2>2, Unfit2, Zenon
  <2>4. Is1(alt, ATOM \union {"STAR", "NUM"}, 1, "elem", "", "", "")
    BY <1>6, SeqClose, Zenon
  <2>5. la[1] \in ATOM \union {"STAR", "NUM"}
    BY <2>4, Reads1, Zenon
  <2>6. QED
    BY <1>2, <2>3, <2>5 DEF ElementNext, HeaderNext, Defines, Counts
<1>7. QED
  BY <1>1, <1>3, <1>4, <1>5, <1>6

LEMMA ProdCloseSees ==
  ASSUME NEW n, Settled(n), NEW alt, alt = Alternatives[n],
         Top.rule = "prod", Top.phase = "close"
  PROVE  alt.r = "" /\ Stopped(la) => la[1] \in {"ALT", "ZZ", "RP", "CB"}
<1>0. DOMAIN Alternatives = 1..4
  BY ProdClose, Zenon
<1>1. n = 1 \/ n = 2 \/ n = 3 \/ n = 4
  BY <1>0 DEF Settled
<1>2. /\ Is2(Alternatives[1], {"TX"}, {"DEF"}, 2, "", "prod", "", "")
      /\ Is2(Alternatives[2], {"TX"}, {"DEFA"}, 2, "", "prod", "", "")
      /\ Is2(Alternatives[3], {"PV"}, {"DEF"}, 2, "", "prod", "", "")
  BY ProdClose, Zenon
<1>4. ASSUME n = 4
      PROVE  \A m \in {1, 2, 3} : m \in DOMAIN Alternatives /\ ~(n <= m)
  BY <1>0, <1>4
<1> SUFFICES ASSUME alt.r = "", Stopped(la)
             PROVE  la[1] \in {"ALT", "ZZ", "RP", "CB"}
  OBVIOUS
<1>3. n = 4
  <2>1. \A m \in {1, 2, 3} : Alternatives[m].r = "prod"
    BY <1>2 DEF Is2, Act
  <2>2. QED
    BY <1>1, <2>1, Named
<1>5. /\ ~Fits(Alternatives[1]) /\ ~Fits(Alternatives[2]) /\ ~Fits(Alternatives[3])
      /\ Len(la) \in Nat
  BY <1>3, <1>4, Over
<1>6. /\ la[1] \in {"TX"} => la[2] \notin {"DEF"}
      /\ la[1] \in {"TX"} => la[2] \notin {"DEFA"}
      /\ la[1] \in {"PV"} => la[2] \notin {"DEF"}
  BY <1>2, <1>5, Unfit2, Zenon
<1>7. QED
  BY <1>6 DEF Stopped, HeaderNext, Defines

LEMMA AbnfOpenSees ==
  ASSUME NEW n, Settled(n), NEW alt, alt = Alternatives[n],
         Top.rule = "abnf", Top.phase = "open"
  PROVE  Len(la) >= 1
<1>0. DOMAIN Alternatives = 1..2
  BY AbnfOpen, Zenon
<1>5. Is1(Alternatives[1], {"ZZ"}, 0, "", "", "", "")
  BY AbnfOpen, Zenon
<1>1. n = 1 \/ n = 2
  BY <1>0 DEF Settled
<1>2. CASE n = 1
  BY <1>2, <1>5, Reads1, Zenon
<1>3. CASE n = 2
  <2>1. 1 \in DOMAIN Alternatives /\ ~(n <= 1)
    BY <1>0, <1>3
  <2>2. QED
    BY <1>5, <2>1, Over, Unfit1, Zenon
<1>4. QED
  BY <1>1, <1>2, <1>3

\* Behind the count y, and x before it, z makes no prefix and no element.
Overrun(x, y, z) ==
  /\ y \in Counts
  /\ z \notin Counts \union ATOM \/ z = y \/ (x = "STAR" /\ y = "NUM" /\ z = "STAR")

\* The next tokens are counts, and no prefix.
Overruns(t) ==
  \/ Len(t) >= 2 /\ Overrun("", t[1], t[2])
  \/ Len(t) >= 3 /\ Overrun(t[1], t[2], t[3])
  \/ Len(t) >= 4 /\ Overrun(t[2], t[3], t[4])

LEMMA NotTwice ==
  ASSUME NEW x, NEW y, NEW z, y \in Counts, z \notin ATOM
  PROVE  /\ Overrun(x, y, z) \/ (y = "NUM" /\ z = "STAR") \/ (y = "STAR" /\ z = "NUM")
         /\ x = "STAR" /\ y = "NUM" => Overrun(x, y, z)
BY DEF Overrun, Counts

\* An element is opened at a token that may begin one.
LEMMA ElemOpenSees ==
  ASSUME NEW n, Settled(n), NEW alt, alt = Alternatives[n],
         Top.rule = "elem", Top.phase = "open", Takes(alt) = 0, Len(la) >= 1, la[1] \in Counts
  PROVE  Overruns(la)
<1>0. DOMAIN Alternatives = 1..6
  BY ElemOpen, Zenon
<1>1. n = 1 \/ n = 2 \/ n = 3 \/ n = 4 \/ n = 5 \/ n = 6
  BY <1>0 DEF Settled
<1>2. /\ Is4(Alternatives[1], {"NUM"}, {"STAR"}, {"NUM"}, ATOM, 1, "atom", "", "", "m*n")
      /\ Is3(Alternatives[2], {"NUM"}, {"STAR"}, ATOM, 1, "atom", "", "", "m*")
      /\ Is3(Alternatives[3], {"STAR"}, {"NUM"}, ATOM, 1, "atom", "", "", "*n")
      /\ Is2(Alternatives[4], {"STAR"}, ATOM, 1, "atom", "", "", "*")
      /\ Is2(Alternatives[5], {"NUM"}, ATOM, 1, "atom", "", "", "n")
  BY ElemOpen, Zenon
<1>3. /\ Does(Alternatives[1], 3, "atom", "", "m*n") /\ Does(Alternatives[2], 2, "atom", "", "m*")
      /\ Does(Alternatives[3], 2, "atom", "", "*n") /\ Does(Alternatives[4], 1, "atom", "", "*")
      /\ Does(Alternatives[5], 1, "atom", "", "n")
  BY <1>2, Doing41, Doing31, Doing21, Zenon
<1>4. n = 6
  <2>1. /\ Takes(Alternatives[1]) = 3 /\ Takes(Alternatives[2]) = 2
        /\ Takes(Alternatives[3]) = 2 /\ Takes(Alternatives[4]) = 1
        /\ Takes(Alternatives[5]) = 1
    BY <1>3, Zenon DEF Does
  <2>2. 3 # 0 /\ 2 # 0 /\ 1 # 0
    OBVIOUS
  <2>3. QED
    BY <1>1, <2>1, <2>2, Zenon
<1>5. \A m \in {1, 2, 3, 4, 5} : m \in DOMAIN Alternatives /\ ~(n <= m)
  BY <1>0, <1>4
<1>6. \A m \in {1, 2, 3, 4, 5} : ~Fits(Alternatives[m])
  BY <1>5, Over
<1>7. /\ ~Fits(Alternatives[1]) /\ ~Fits(Alternatives[2]) /\ ~Fits(Alternatives[3])
      /\ ~Fits(Alternatives[4]) /\ ~Fits(Alternatives[5])
  BY <1>6
<1>8. Len(la) \in Nat
  BY LenProperties DEF Settled, TypeOK
<1>9. Len(la) >= 2 /\ la[2] \notin ATOM
  <2>1. la[1] \in {"STAR"} \/ la[1] \in {"NUM"}
    BY DEF Counts
  <2>2. QED
    BY <1>2, <1>7, <1>8, <2>1, Unfit2, Zenon
<1>10. Overrun("", la[1], la[2]) \/ (la[1] = "NUM" /\ la[2] = "STAR") \/ (la[1] = "STAR" /\ la[2] = "NUM")
  BY <1>9, NotTwice, Zenon
<1>11. CASE la[1] = "STAR" /\ la[2] = "NUM"
  <2>1. la[1] \in {"STAR"} /\ la[2] \in {"NUM"} /\ la[2] \in Counts
    BY <1>11 DEF Counts
  <2>2. Len(la) >= 3 /\ la[3] \notin ATOM
    BY <1>2, <1>7, <1>8, <1>9, <2>1, Unfit3, Zenon
  <2>3. QED
    BY <1>11, <2>1, <2>2, NotTwice, Zenon DEF Overruns
<1>12. CASE la[1] = "NUM" /\ la[2] = "STAR"
  <2>1. la[1] \in {"NUM"} /\ la[2] \in {"STAR"} /\ la[2] \in Counts /\ "STAR" # "NUM"
    BY <1>12 DEF Counts
  <2>2. Len(la) >= 3 /\ la[3] \notin ATOM
    BY <1>2, <1>7, <1>8, <1>9, <2>1, Unfit3, Zenon
  <2>3. Overrun(la[1], la[2], la[3]) \/ la[3] = "NUM"
    BY <1>12, <2>1, <2>2, NotTwice, Zenon
  <2>4. ASSUME la[3] = "NUM"
        PROVE  Overruns(la)
    <3>1. la[3] \in {"NUM"} /\ la[3] \in Counts
      BY <2>4 DEF Counts
    <3>2. Len(la) >= 4 /\ la[4] \notin ATOM
      BY <1>2, <1>7, <1>8, <2>1, <2>2, <3>1, Unfit4, Zenon
    <3>3. Overrun(la[2], la[3], la[4])
      BY <1>12, <2>4, <3>1, <3>2, NotTwice, Zenon
    <3>4. QED
      BY <3>2, <3>3, Zenon DEF Overruns
  <2>5. QED
    BY <2>2, <2>3, <2>4, Zenon DEF Overruns
<1>13. QED
  BY <1>9, <1>10, <1>11, <1>12, Zenon DEF Overruns

\* A numeric value is read where an element starts.
LEMMA NumberAt ==
  ASSUME NEW n, Settled(n), NEW alt, alt = Alternatives[n], alt.a = "number",
         Top.rule \in RuleNames, Top.phase \in {"open", "close"}
  PROVE  Top.rule = "atom" /\ Top.phase = "open" /\ Len(la) >= 1 /\ la[1] = "NV"
<1>1. Alternatives = Rules[Top.rule][Top.phase]
  BY DEF Alternatives
<1>2. n \in DOMAIN Rules[Top.rule][Top.phase] /\ alt = Rules[Top.rule][Top.phase][n]
  BY <1>1, Zenon DEF Settled
<1>3. AltOK(Top.rule, Top.phase, alt)
  BY <1>2, Table, Zenon
<1>4. "number" \in Leaves /\ "number" # "term" /\ "number" # "prose" /\ "number" # "ref"
      /\ "number" # "group" /\ "number" # "opt"
  BY DEF Leaves
<1>5. Top.rule = "atom" /\ Top.phase = "open"
  BY <1>3, <1>4, Zenon DEF AltOK
<1>6. \A k, p, r, a : Does(alt, k, p, r, a) => a = "number"
  BY DEF Does
<1>7. QED
  BY <1>4, <1>5, <1>6, AtomOpenDoes, Zenon

-----------------------------------------------------------------------------
(* A parse of a text that may still be completed.                          *)

\* The first tokens, whatever the matchers made of them.
Begins ==
  Consumed = 0 =>
    /\ Len(la) >= 1 => \/ la[1] = Kind(1) /\ la[1] \notin Matched
                       \/ la[1] = "NR" /\ Kind(1) = "NUM"
                       \/ la[1] = "TX" /\ Kind(1) \in Matched
    /\ Len(la) >= 2 => la[2] = Kind(2) \/ Kind(2) \in Matched
    /\ At("prod", "open") => Len(la) >= 1

\* A leaf has just been read, or is all that the element has.
LeafRead == At("seq", "close") \/ At("elem", "close") \/ (At("atom", "close") /\ Top.grp = "")

\* What the rules have seen of the tokens to come: a name or prose is taken for
\* an element only if no `=' follows, unless a count is before it.
Sees ==
  /\ At("alts", "open") \/ At("seq", "open")
       => Kind(Consumed) \in {"DEF", "DEFA", "LP", "OB", "ALT"}
  /\ At("elem", "open") => ElementNext(la)
  /\ At("atom", "open") /\ la[1] \in {"TX", "PV"} /\ (~(Len(la) >= 2) \/ HeaderNext(la))
       => Kind(Consumed) \in Counts
  /\ LeafRead /\ ~(Len(la) >= 1) /\ Kind(Consumed) \in {"TX", "PV"}
       => Kind(Consumed - 1) \in Counts
  /\ At("prod", "close") => la[1] # "ALT"
  /\ At("abnf", "close") => la[1] \in {"ZZ", "RP", "CB"}

\* The tokens are the lexemes, the first two aside, and what was passed over
\* is told by them.
Sharp ==
  /\ Begins
  /\ Consumed # 0 => Consumed >= 2 /\ Exact
  /\ Sees

\* A parse that goes well and looks at a token that has its place.
Fine == Good /\ ~Holed /\ ~Stuck /\ Sharp

\* The parser is either still right or looks at a text beyond completion.
DeadInv ==
  /\ status = "run" => Dead(input) \/ Fine
  /\ status \in {"error", "numeric"} => Dead(input)
  /\ status = "done" => Dead(input) \/ Exact

-----------------------------------------------------------------------------
(* Texts in which a lexeme is wrong.                                       *)

LEMMA SameSets == Starters = ATOM
BY DEF Starters, ATOM

LEMMA OverrunIsWrong ==
  ASSUME NEW w, NEW i \in Int, NEW x, Overrun(x, KindAt(w, i - 1), KindAt(w, i)),
         x = "STAR" => KindAt(w, i - 2) = "STAR"
  PROVE  Wrong(w, i)
<1>1. KindAt(w, i - 1) \in Counts
  BY DEF Overrun
<1>2. CASE KindAt(w, i) \notin Counts \union ATOM
  BY <1>1, <1>2, SameSets, Zenon DEF Wrong
<1>3. CASE KindAt(w, i) = KindAt(w, i - 1)
  BY <1>1, <1>3, Zenon DEF Wrong, Repeats
<1>4. CASE x = "STAR" /\ KindAt(w, i - 1) = "NUM" /\ KindAt(w, i) = "STAR"
  <2>1. KindAt(w, i) \in Counts
    BY <1>4 DEF Counts
  <2>2. QED
    BY <1>4, <2>1, Zenon DEF Wrong, Repeats
<1>5. QED
  BY <1>2, <1>3, <1>4, Zenon DEF Overrun

\* Tokens that no alternative of elem takes together.
LEMMA OverrunsIsDead ==
  ASSUME NEW w \in Seq(Lexemes), NEW c \in Nat, NEW t, Len(t) \in Nat, c + Len(t) <= Len(w),
         \A k \in 1..Len(t) : t[k] = KindAt(w, c + k), Overruns(t)
  PROVE  Dead(w)
<1>0. Len(w) \in Nat
  BY LenProperties
<1>1. ASSUME NEW x, x # "STAR", Len(t) >= 2, Overrun(x, t[1], t[2])
      PROVE  Dead(w)
  <2>1. PICK i \in 1..Len(w) : i = c + 2
    BY <1>0, <1>1
  <2>2. 1 \in 1..Len(t) /\ 2 \in 1..Len(t) /\ i \in Int /\ c + 1 = i - 1 /\ c + 2 = i
    BY <1>1, <2>1
  <2>3. t[1] = KindAt(w, i - 1) /\ t[2] = KindAt(w, i)
    BY <2>2, Zenon
  <2>4. Overrun(x, KindAt(w, i - 1), KindAt(w, i))
    BY <1>1, <2>3, Zenon
  <2>5. QED
    BY <1>1, <2>2, <2>4, OverrunIsWrong, WrongIsDead, Zenon
<1>2. ASSUME NEW k \in {3, 4}, Len(t) >= k, Overrun(t[k - 2], t[k - 1], t[k])
      PROVE  Dead(w)
  <2>1. PICK i \in 1..Len(w) : i = c + k
    BY <1>0, <1>2
  <2>2. /\ k - 2 \in 1..Len(t) /\ k - 1 \in 1..Len(t) /\ k \in 1..Len(t) /\ i \in Int
        /\ c + (k - 2) = i - 2 /\ c + (k - 1) = i - 1 /\ c + k = i
    BY <1>2, <2>1
  <2>3. t[k - 2] = KindAt(w, i - 2) /\ t[k - 1] = KindAt(w, i - 1) /\ t[k] = KindAt(w, i)
    BY <2>2, Zenon
  <2>4. QED
    BY <1>2, <2>2, <2>3, OverrunIsWrong, WrongIsDead, Zenon
<1>3. ASSUME Len(t) >= 3, Overrun(t[1], t[2], t[3])
      PROVE  Dead(w)
  <2>1. 3 \in {3, 4} /\ 3 - 2 = 1 /\ 3 - 1 = 2
    OBVIOUS
  <2>2. QED
    BY <1>2, <1>3, <2>1, Zenon
<1>4. ASSUME Len(t) >= 4, Overrun(t[2], t[3], t[4])
      PROVE  Dead(w)
  <2>1. 4 \in {3, 4} /\ 4 - 2 = 2 /\ 4 - 1 = 3
    OBVIOUS
  <2>2. QED
    BY <1>2, <1>4, <2>1, Zenon
<1>5. "" # "STAR"
  OBVIOUS
<1>6. QED
  BY <1>1, <1>3, <1>4, <1>5, Zenon DEF Overruns

\* An `=' that does not define a name, or one whose name a count is before.
LEMMA DefineIsDead ==
  ASSUME NEW w \in Seq(Lexemes), NEW c \in 1..Len(w), c + 1 \in 1..Len(w),
         KindAt(w, c + 1) \in Defines, IsHeader(w, c) => KindAt(w, c - 1) \in Counts
  PROVE  Dead(w)
<1>0. Len(w) \in Nat
  BY LenProperties
<1>1. PICK i \in 1..Len(w) : i = c + 1 /\ i - 1 = c
  BY <1>0
<1>2. CASE IsHeader(w, c)
  BY <1>2, WrongIsDead, Zenon DEF Wrong
<1>3. CASE ~IsHeader(w, c)
  <2>1. Wrong(w, i)
    BY <1>1, <1>3, Zenon DEF Wrong
  <2>2. QED
    BY <2>1, WrongIsDead, Zenon
<1>4. QED
  BY <1>2, <1>3

\* A closing bracket where none is open.
LEMMA CloserIsDead ==
  ASSUME NEW w \in Seq(Lexemes), NEW c \in Nat, NEW s, Sounded(w, c, s), Depth(w, c) = 0,
         c + 1 \in 1..Len(w), KindAt(w, c + 1) \in {"RP", "CB"}
  PROVE  Dead(w)
<1>0. Len(w) \in Nat
  BY LenProperties
<1>1. PICK i \in 1..Len(w) : i = c + 1 /\ i - 1 = c
  BY <1>0
<1>2. Depth(w, c + 1) < 0
  <2>1. Depth(w, c + 1) = Depth(w, c) + TurnOf(KindAt(w, c + 1))
    BY DepthStep
  <2>2. TurnOf(KindAt(w, c + 1)) = -1
    BY DEF TurnOf
  <2>3. QED
    BY <2>1, <2>2
<1>3. \A k \in 1..c : Depth(w, k) >= 0
  BY Zenon DEF Sounded, SoundAt
<1>4. Wrong(w, i)
  BY <1>1, <1>2, <1>3, Zenon DEF Wrong
<1>5. QED
  BY <1>4, WrongIsDead, Zenon

-----------------------------------------------------------------------------
(* A step of a parse that goes well, up to now, and does not get stuck.    *)

\* A parse that goes well and may take the alternative n.
Well(n) == Live(n) /\ ~Stuck /\ Sharp

LEMMA WellFacts ==
  ASSUME NEW n, Well(n)
  PROVE  /\ Live(n) /\ Runs(n) /\ Held /\ status = "run" /\ Good /\ Shape /\ Waiting
         /\ NoBad /\ Proper(input) /\ Begins /\ Sees /\ ~Stuck
         /\ Consumed # 0 => Consumed >= 2 /\ Exact
         /\ Consumed = 0 => At("abnf", "open") \/ At("prod", "open")
BY LiveFacts, Zenon DEF Well, Sharp, Live

\* Behind a lexeme that is no name, and behind a name with a count, a token
\* that no alternative takes.
LEMMA NeverIsDead ==
  ASSUME NEW w \in Seq(Lexemes), NEW c \in 1..Len(w), c + 1 \in 1..Len(w),
         KindAt(w, c + 1) \in Never, IsHeader(w, c) => KindAt(w, c - 1) \in Counts
  PROVE  Dead(w)
<1>1. KindAt(w, c + 1) # "NR"
  <2>1. c + 1 \in DOMAIN w
    BY LenProperties
  <2>2. w[c + 1] \in Lexemes /\ w[c + 1].kind = KindAt(w, c + 1)
    BY <2>1, KindsAt
  <2>3. QED
    BY <2>2 DEF Lexemes
<1>2. KindAt(w, c + 1) \in Defines
  BY <1>1 DEF Never, Defines
<1>3. QED
  BY <1>2, DefineIsDead, Zenon

LEMMA AfterFirst ==
  ASSUME NEW c \in Nat, NEW k \in Nat, NEW l \in Nat, NEW size \in Nat, size = c + k + l
  PROVE  /\ c >= 2 => c + k >= 2 /\ c + k \in Nat /\ c + k # 0 /\ c # 0
         /\ c >= 2 /\ l >= 1 => c + k \in 1..size /\ c + k + 1 \in 1..size /\ 1 \in 1..l
OBVIOUS

\* Where the tokens that are left stand.
LEMMA LeftAt ==
  ASSUME NEW n, Well(n), NEW alt, alt = Alternatives[n], Acts(alt), Consumed # 0
  PROVE  /\ Consumed' = Consumed + Takes(alt) /\ input' = input
         /\ Takes(alt) \in Nat /\ Consumed \in Nat /\ Consumed >= 2
         /\ Consumed' >= 2 /\ Consumed' # 0 /\ Exact /\ Exact'
         /\ Len(la') >= 1 =>
              /\ Consumed' \in 1..Len(input) /\ Consumed' + 1 \in 1..Len(input)
              /\ la'[1] = KindAt(input, Consumed' + 1)
<1>1. Runs(n) /\ Held /\ status = "run" /\ Consumed >= 2 /\ Exact
  BY WellFacts
<1>2. Fires(alt)
  BY ActsFires
<1>3. /\ Takes(alt) \in Nat /\ Takes(alt) <= Len(la)
      /\ input' = input /\ Len(la') = Len(la) - Takes(alt)
      /\ Consumed' = Consumed + Takes(alt)
  BY <1>1, <1>2, Firing
<1>4. /\ Len(la) \in Nat /\ Len(input) \in Nat /\ Consumed \in Nat
      /\ Consumed + Len(la) = Len(input)
  BY <1>1, Sizes, NewPlace
<1>5. Len(la') \in Nat /\ Len(input) = Consumed + Takes(alt) + Len(la')
  BY <1>3, <1>4
<1>6. Exact'
  BY <1>1, <1>2, ExactFires
<1>7. /\ Consumed + Takes(alt) >= 2 /\ Consumed + Takes(alt) # 0
      /\ Len(la') >= 1 =>
           /\ Consumed + Takes(alt) \in 1..Len(input)
           /\ Consumed + Takes(alt) + 1 \in 1..Len(input)
           /\ 1 \in 1..Len(la')
  BY <1>1, <1>3, <1>4, <1>5, AfterFirst
<1>8. Len(la') >= 1 => la'[1] = KindAt(input, Consumed' + 1)
  BY <1>3, <1>6, <1>7, Zenon DEF Exact, Kind
<1>9. QED
  BY <1>1, <1>3, <1>4, <1>6, <1>7, <1>8

\* The parse does not come to a token that no alternative takes.
LEMMA NotStuckNext ==
  ASSUME NEW n, Well(n), NEW alt, alt = Alternatives[n], Acts(alt), Consumed # 0,
         Top'.rule = "atom" /\ Top'.phase = "open" => la'[1] \in ATOM,
         \/ Takes(alt) = 0
         \/ IsHeader(input, Consumed') => KindAt(input, Consumed' - 1) \in Counts
  PROVE  Dead(input) \/ ~Stuck'
<1> SUFFICES ASSUME Stuck'
             PROVE  Dead(input)
  OBVIOUS
<1>1. Len(la') >= 1 /\ la'[1] \in Never
  BY Zenon DEF Stuck, At
<1>2. CASE Takes(alt) = 0
  <2>1. Runs(n) /\ ~Stuck
    BY WellFacts
  <2>2. Fires(alt)
    BY ActsFires
  <2>3. Len(la') = Len(la) /\ (Len(la) >= 1 => la'[1] = la[1])
    BY <1>2, <2>1, <2>2, SameTokens, Zenon
  <2>4. Len(la) >= 1 /\ la[1] \in Never
    BY <1>1, <2>3, Zenon
  <2>5. QED
    BY <2>1, <2>4, Zenon DEF Stuck
<1>3. CASE IsHeader(input, Consumed') => KindAt(input, Consumed' - 1) \in Counts
  <2>1. input \in Seq(Lexemes)
    BY WellFacts, Sizes
  <2>2. /\ Consumed' \in 1..Len(input) /\ Consumed' + 1 \in 1..Len(input)
        /\ la'[1] = KindAt(input, Consumed' + 1)
    BY <1>1, LeftAt
  <2>3. QED
    BY <1>1, <1>3, <2>1, <2>2, NeverIsDead, Zenon
<1>4. QED
  BY <1>2, <1>3

\* The lexeme before the next ones is not the name of a production.
LEMMA NoName ==
  ASSUME NEW w, NEW c \in Nat, c >= 2, KindAt(w, c) \notin {"TX", "PV"}
  PROVE  ~IsHeader(w, c)
<1>1. c # 1
  OBVIOUS
<1>2. QED
  BY <1>1, Zenon DEF IsHeader

LEMMA SameNext ==
  ASSUME NEW t, NEW u, Len(t) \in Nat, Len(u) = Len(t), \A k \in 1..Len(t) : u[k] = t[k]
  PROVE  /\ HeaderNext(u) => HeaderNext(t)
         /\ ElementNext(t) => ElementNext(u)
<1>1. /\ Len(t) >= 1 => 1 \in 1..Len(t)
      /\ Len(t) >= 2 => 1 \in 1..Len(t) /\ 2 \in 1..Len(t)
  OBVIOUS
<1>2. HeaderNext(u) => HeaderNext(t)
  BY <1>1, Zenon DEF HeaderNext
<1>3. QED
  BY <1>1, <1>2, Zenon DEF ElementNext

\* What each rule sees when it comes to run.
LEMMA SeesNothing ==
  ASSUME \/ Top'.rule = "prod" /\ Top'.phase = "open"
         \/ Top'.rule = "alts" /\ Top'.phase = "close"
         \/ Top'.rule = "atom" /\ Top'.phase = "close" /\ Top'.grp # ""
         \/ Top'.rule = "prod" /\ Top'.phase = "close" /\ la'[1] # "ALT"
         \/ Top'.rule = "abnf" /\ Top'.phase = "close" /\ la'[1] \in {"ZZ", "RP", "CB"}
  PROVE  Sees'
BY DEF Sees, At, LeafRead

LEMMA SeesOpen ==
  ASSUME \/ /\ Top'.rule \in {"alts", "seq"} /\ Top'.phase = "open"
            /\ KindAt(input', Consumed') \in {"DEF", "DEFA", "LP", "OB", "ALT"}
         \/ Top'.rule = "elem" /\ Top'.phase = "open" /\ ElementNext(la')
  PROVE  Sees'
BY DEF Sees, At, LeafRead, Kind

LEMMA SeesAtom ==
  ASSUME Top'.rule = "atom" /\ Top'.phase = "open",
         \/ KindAt(input', Consumed') \in Counts
         \/ la'[1] \in {"TX", "PV"} => Len(la') >= 2 /\ ~HeaderNext(la')
  PROVE  Sees'
BY DEF Sees, At, LeafRead, Kind

LEMMA SeesLeaf ==
  ASSUME Top'.rule \in {"atom", "seq", "elem"} /\ Top'.phase = "close",
         \/ Len(la') >= 1
         \/ KindAt(input', Consumed') \notin {"TX", "PV"}
         \/ KindAt(input', Consumed' - 1) \in Counts
  PROVE  Sees'
BY DEF Sees, At, LeafRead, Kind

\* What is left to show of the state after a step.
Follows == ~Stuck /\ Sees

\* No token is taken: the next lexeme is the next still.
LEMMA QuietFacts ==
  ASSUME NEW n, Well(n), NEW alt, alt = Alternatives[n], Acts(alt), Consumed # 0,
         Takes(alt) = 0
  PROVE  /\ Consumed' = Consumed /\ input' = input /\ Len(la') = Len(la) /\ Len(la) \in Nat
         /\ Len(la) >= 1 => Len(la') >= 1 /\ la'[1] = la[1]
         /\ HeaderNext(la') => HeaderNext(la)
         /\ ElementNext(la) => ElementNext(la')
<1>1. Runs(n) /\ Held /\ status = "run"
  BY WellFacts
<1>2. Fires(alt)
  BY ActsFires
<1>3. Len(la) \in Nat
  BY <1>1, Sizes
<1>4. /\ Consumed' = Consumed /\ input' = input /\ Len(la') = Len(la)
      /\ \A j \in 1..Len(la) : la'[j] = la[j]
      /\ Len(la) >= 1 => Len(la') >= 1 /\ la'[1] = la[1]
  BY <1>1, <1>2, SameTokens, Zenon
<1>5. /\ HeaderNext(la') => HeaderNext(la)
      /\ ElementNext(la) => ElementNext(la')
  BY <1>3, <1>4, SameNext, Zenon
<1>6. QED
  BY <1>3, <1>4, <1>5

\* A step that leaves the lookahead alone.
LEMMA QuietFollows ==
  ASSUME NEW n, Well(n), NEW alt, alt = Alternatives[n], Acts(alt), Consumed # 0,
         Takes(alt) = 0, Sees',
         \/ Top'.rule # "atom" \/ Top'.phase # "open"
         \/ la'[1] \in ATOM
  PROVE  Dead(input) \/ Follows'
BY NotStuckNext, Zenon DEF Follows

LEMMA NotOne ==
  ASSUME NEW m \in Nat \ {0}, m # 1
  PROVE  m > 1
OBVIOUS

\* Only abnf has no frame below it.
LEMMA FrameBelow ==
  ASSUME Held, status = "run"
  PROVE  /\ Len(stack) \in Nat \ {0} /\ Top.rule = LevelRule(Len(stack))
         /\ Top.rule # "abnf" => Len(stack) > 1 /\ Len(stack) # 1
         /\ Top.rule = "prod" => LevelRule(Len(stack) - 1) = "abnf"
<1>1. Len(stack) \in Nat \ {0} /\ Top.rule = LevelRule(Len(stack))
  BY Sizes
<1>2. Len(stack) = 1 => Top.rule = "abnf"
  BY <1>1 DEF LevelRule
<1>3. Top.rule # "abnf" => Len(stack) > 1 /\ Len(stack) # 1
  BY <1>1, <1>2, NotOne, Zenon
<1>4. Top.rule = "prod" => LevelRule(Len(stack) - 1) = "abnf"
  BY <1>1, <1>3, LevelParents
<1>5. QED
  BY <1>1, <1>3, <1>4

LEMMA HeadPlace ==
  ASSUME Held, status = "run", Len(la) >= 1
  PROVE  Len(la) \in Nat /\ 1 \in 1..Len(la)
BY Sizes

\* The steps, rule by rule.
LEMMA ProdOpenFollows ==
  ASSUME NEW n, Well(n), NEW alt, alt = Alternatives[n], Acts(alt), At("prod", "open")
  PROVE  /\ Dead(input) \/ Follows'
         /\ Consumed' >= 2 /\ Exact'
<1>1. /\ Live(n) /\ Runs(n) /\ Held /\ status = "run" /\ Waiting
  BY WellFacts
<1>2. Fires(alt) /\ Settled(n)
  BY <1>1, ActsFires, Firing
<1>3. Does(alt, 2, "alts", "", "define") \/ Does(alt, 2, "alts", "", "extend")
  BY <1>2, ProdOpenDoes, Zenon DEF At
<1>4. HeaderNext(la)
  BY <1>2, ProdOpenDoes, Zenon DEF At
<1>5. PushRule(alt) /\ Takes(alt) = 2 /\ alt.p = "alts"
  BY <1>3, ActsPush, Named, Zenon
<1>6. Top'.rule = "alts" /\ Top'.phase = "open"
  BY <1>1, <1>5, AfterPush
<1>7. KindAt(input, Consumed + 2) \in Defines /\ (Consumed = 0 => Len(la) = 2)
  BY <1>1, <1>4, HeaderComes
<1>8. /\ input' = input /\ Len(la') = Len(la) - Takes(alt) /\ Consumed' = Consumed + Takes(alt)
  BY <1>1, <1>2, Firing
<1>9. KindAt(input', Consumed') \in Defines
  BY <1>5, <1>7, <1>8, Zenon
<1>10. Sees'
  <2>1. KindAt(input', Consumed') \in {"DEF", "DEFA", "LP", "OB", "ALT"}
    BY <1>9 DEF Defines
  <2>2. QED
    BY <1>6, <2>1, SeesOpen
<1>11. Top'.rule # "atom"
  BY <1>6
<1>12. CASE Consumed = 0
  <2>1. Len(la') = 0 /\ Consumed' = 2
    BY <1>5, <1>7, <1>8, <1>12
  <2>2. Exact'
    BY <2>1 DEF Exact
  <2>3. ~Stuck'
    BY <2>1 DEF Stuck
  <2>4. QED
    BY <1>10, <2>1, <2>2, <2>3 DEF Follows
<1>13. CASE Consumed # 0
  <2>1. Consumed' >= 2 /\ Consumed' \in Nat /\ Exact'
    <3>1. Consumed' >= 2 /\ Exact'
      BY <1>13, LeftAt
    <3>2. Takes(alt) \in Nat /\ Consumed \in Nat
      BY <1>13, LeftAt
    <3>3. QED
      BY <1>8, <3>1, <3>2
  <2>2. ~IsHeader(input, Consumed')
    <3>1. KindAt(input, Consumed') \notin {"TX", "PV"}
      BY <1>8, <1>9 DEF Defines
    <3>2. QED
      BY <2>1, <3>1, NoName
  <2>3. Dead(input) \/ ~Stuck'
    BY <1>11, <1>13, <2>2, NotStuckNext, Zenon
  <2>4. QED
    BY <1>10, <2>1, <2>3 DEF Follows
<1>14. QED
  BY <1>12, <1>13

LEMMA ProdCloseFollows ==
  ASSUME NEW n, Well(n), NEW alt, alt = Alternatives[n], Acts(alt), At("prod", "close")
  PROVE  Dead(input) \/ Follows'
<1>0. "prod" # "abnf" /\ "alts" # "abnf"
  OBVIOUS
<1>1. /\ Live(n) /\ Runs(n) /\ Held /\ status = "run" /\ Waiting /\ Shape /\ Sees
      /\ Consumed # 0
  BY WellFacts DEF At
<1>2. Fires(alt) /\ Settled(n)
  BY <1>1, ActsFires, Firing
<1>3. Does(alt, 0, "", "prod", "") \/ Does(alt, 0, "", "", "")
  BY <1>2, ProdCloseDoes, Zenon DEF At
<1>4. Stopped(la) /\ la[1] # "ALT" /\ Len(la) >= 1
  BY <1>1, Zenon DEF Shape, Sees, Stopped
<1>5. Takes(alt) = 0
  BY <1>3, Zenon DEF Does
<1>6. CASE Does(alt, 0, "", "prod", "")
  <2>1. ReplaceRule(alt)
    BY <1>6, ActsReplace, Named, Zenon DEF At
  <2>2. Top'.rule = "prod" /\ Top'.phase = "open"
    BY <1>1, <2>1, AfterReplace
  <2>3. Sees'
    BY <2>2, SeesNothing
  <2>4. Top'.rule # "atom"
    BY <2>2
  <2>5. QED
    BY <1>1, <1>5, <2>3, <2>4, QuietFollows, Zenon
<1>7. CASE Does(alt, 0, "", "", "")
  <2>1. Len(stack) \in Nat \ {0} /\ Len(stack) # 1 /\ LevelRule(Len(stack) - 1) = "abnf"
    BY <1>1, FrameBelow, <1>0, Zenon DEF At
  <2>2. PopRule(alt)
    BY <1>7, <2>1, ActsEnd, Zenon DEF At
  <2>3. Top'.rule = LevelRule(Len(stack) - 1) /\ Top'.phase = "close"
    BY <1>1, <2>2, AfterPop
  <2>4. Top'.rule = "abnf"
    BY <2>1, <2>3, Zenon
  <2>5. la[1] \in {"ZZ", "RP", "CB"}
    <3>1. alt.r = ""
      BY <1>7, Zenon DEF Does
    <3>2. la[1] \in {"ALT", "ZZ", "RP", "CB"}
      BY <1>2, <1>4, <3>1, ProdCloseSees, Zenon DEF At
    <3>3. QED
      BY <1>4, <3>2
  <2>6. la'[1] = la[1]
    BY <1>1, <1>4, <1>5, QuietFacts, Zenon
  <2>7. Sees'
    BY <2>3, <2>4, <2>5, <2>6, SeesNothing
  <2>8. Top'.rule # "atom"
    BY <2>4
  <2>9. QED
    BY <1>1, <1>5, <2>7, <2>8, QuietFollows, Zenon
<1>8. QED
  BY <1>3, <1>6, <1>7

LEMMA AltsOpenFollows ==
  ASSUME NEW n, Well(n), NEW alt, alt = Alternatives[n], Acts(alt), At("alts", "open")
  PROVE  Dead(input) \/ Follows'
<1>1. /\ Live(n) /\ Runs(n) /\ Held /\ status = "run" /\ Waiting /\ Shape /\ Sees
      /\ Consumed # 0
  BY WellFacts DEF At
<1>2. Fires(alt) /\ Settled(n)
  BY <1>1, ActsFires, Firing
<1>3. Does(alt, 0, "seq", "", "")
  BY <1>2, AltsOpenDoes, Zenon DEF At
<1>4. PushRule(alt) /\ Takes(alt) = 0 /\ alt.p = "seq"
  BY <1>3, ActsPush, Named, Zenon
<1>5. Top'.rule = "seq" /\ Top'.phase = "open"
  BY <1>1, <1>4, AfterPush
<1>6. KindAt(input, Consumed) \in {"DEF", "DEFA", "LP", "OB", "ALT"}
  BY <1>1 DEF Sees, Kind
<1>7. Sees'
  <2>1. KindAt(input', Consumed') \in {"DEF", "DEFA", "LP", "OB", "ALT"}
    BY <1>1, <1>4, <1>6, QuietFacts, Zenon
  <2>2. QED
    BY <1>5, <2>1, SeesOpen
<1>8. Top'.rule # "atom"
  BY <1>5
<1>9. QED
  BY <1>1, <1>4, <1>7, <1>8, QuietFollows, Zenon

LEMMA AltsCloseFollows ==
  ASSUME NEW n, Well(n), NEW alt, alt = Alternatives[n], Acts(alt), At("alts", "close")
  PROVE  Dead(input) \/ Follows'
<1>0. "prod" # "abnf" /\ "alts" # "abnf"
  OBVIOUS
<1>1. /\ Live(n) /\ Runs(n) /\ Held /\ status = "run" /\ Waiting /\ Shape /\ Sees
      /\ Consumed # 0
  BY WellFacts DEF At
<1>2. Fires(alt) /\ Settled(n)
  BY <1>1, ActsFires, Firing
<1>3. /\ Len(la) >= 1
      /\ \/ Does(alt, 1, "seq", "", "") /\ la[1] = "ALT"
         \/ Does(alt, 0, "", "", "") /\ la[1] # "ALT"
  BY <1>2, AltsCloseDoes, Zenon DEF At
<1>4. CASE Does(alt, 1, "seq", "", "") /\ la[1] = "ALT"
  <2>1. PushRule(alt) /\ Takes(alt) = 1 /\ alt.p = "seq"
    BY <1>4, ActsPush, Named, Zenon
  <2>2. Top'.rule = "seq" /\ Top'.phase = "open"
    BY <1>1, <2>1, AfterPush
  <2>3. /\ Consumed' = Consumed + 1 /\ input' = input /\ Consumed \in Nat /\ Consumed' >= 2
        /\ Exact
    BY <1>1, <2>1, LeftAt
  <2>4. KindAt(input, Consumed') = "ALT"
    <3>1. Len(la) \in Nat /\ 1 \in 1..Len(la)
      BY <1>1, <1>3, HeadPlace, Zenon
    <3>2. QED
      BY <1>4, <2>3, <3>1, NextKind, Zenon
  <2>5. Sees'
    BY <2>2, <2>3, <2>4, SeesOpen
  <2>6. ~IsHeader(input, Consumed')
    <3>1. Consumed' \in Nat /\ KindAt(input, Consumed') \notin {"TX", "PV"}
      BY <2>3, <2>4
    <3>2. QED
      BY <2>3, <3>1, NoName
  <2>7. Top'.rule # "atom"
    BY <2>2
  <2>8. Dead(input) \/ ~Stuck'
    BY <1>1, <2>6, <2>7, NotStuckNext, Zenon
  <2>9. QED
    BY <2>5, <2>8, Zenon DEF Follows
<1>5. CASE Does(alt, 0, "", "", "") /\ la[1] # "ALT"
  <2>0. Takes(alt) = 0
    BY <1>5, Zenon DEF Does
  <2>1. /\ Len(stack) \in Nat \ {0} /\ Len(stack) > 1 /\ Len(stack) # 1
        /\ LevelRule(Len(stack)) = "alts"
    BY <1>0, <1>1, FrameBelow, Zenon DEF At
  <2>2. PopRule(alt)
    BY <1>5, <2>1, ActsEnd, Zenon DEF At
  <2>3. /\ Top'.rule = LevelRule(Len(stack) - 1) /\ Top'.phase = "close"
        /\ Top'.rule = "atom" => Top'.grp # ""
    BY <1>1, <2>2, AfterPop
  <2>4. Top'.rule = "prod" \/ Top'.rule = "atom"
    BY <2>1, <2>3, LevelParents
  <2>5. la'[1] # "ALT"
    BY <1>1, <1>3, <1>5, <2>0, QuietFacts, Zenon
  <2>6. Sees'
    BY <2>3, <2>4, <2>5, SeesNothing
  <2>7. Top'.phase # "open"
    BY <2>3
  <2>8. QED
    BY <1>1, <2>0, <2>6, <2>7, QuietFollows, Zenon
<1>6. QED
  BY <1>3, <1>4, <1>5

LEMMA SeqFollows ==
  ASSUME NEW n, Well(n), NEW alt, alt = Alternatives[n], Acts(alt), Top.rule = "seq"
  PROVE  Dead(input) \/ Follows'
<1>0. "seq" # "abnf" /\ "seq" # "prod" /\ "open" # "close"
  OBVIOUS
<1>1. /\ Live(n) /\ Runs(n) /\ Held /\ status = "run" /\ Waiting /\ Shape /\ Sees
      /\ Consumed # 0 /\ NoBad /\ ~Stuck
  BY <1>0, WellFacts, Zenon DEF At
<1>2. Fires(alt) /\ Settled(n)
  BY <1>1, ActsFires, Firing
<1>3. Top.phase = "open" \/ Top.phase = "close"
  BY <1>1, Sizes
<1>4. /\ Len(la) >= 1
      /\ Does(alt, 0, "elem", "", "") \/ Does(alt, 0, "", "", "")
  BY <1>2, <1>3, SeqOpenDoes, SeqCloseDoes, Zenon
<1>5. Takes(alt) = 0
  BY <1>4, Zenon DEF Does
<1>6. Len(la') >= 1
  BY <1>1, <1>4, <1>5, QuietFacts, Zenon
<1>7. CASE Does(alt, 0, "elem", "", "")
  <2>1. PushRule(alt) /\ alt.p = "elem"
    BY <1>7, ActsPush, Named, Zenon
  <2>2. Top'.rule = "elem" /\ Top'.phase = "open"
    BY <1>1, <2>1, AfterPush
  <2>3. la[1] \notin Never \union {"BD"}
    <3>1. la[1] \notin Never
      BY <1>1, <1>4, Zenon DEF Stuck
    <3>2. la[1] # "BD"
      BY <1>1, <1>4, HeadPlace, Zenon DEF NoBad
    <3>3. QED
      BY <3>1, <3>2, Zenon
  <2>4. ElementNext(la)
    BY <1>2, <1>3, <2>1, <2>3, SeqOpenSees, SeqCloseSees, Zenon
  <2>5. ElementNext(la')
    BY <1>1, <1>5, <2>4, QuietFacts, Zenon
  <2>6. Sees'
    BY <2>2, <2>5, SeesOpen
  <2>7. Top'.rule # "atom"
    BY <2>2
  <2>8. QED
    BY <1>1, <1>5, <2>6, <2>7, QuietFollows, Zenon
<1>8. CASE Does(alt, 0, "", "", "") /\ Top.phase = "open"
  <2>1. EndOpen(alt)
    BY <1>8, ActsOpen, Zenon
  <2>2. Top'.rule = "seq" /\ Top'.phase = "close"
    BY <1>1, <2>1, AfterOpen
  <2>3. Sees'
    BY <1>6, <2>2, SeesLeaf
  <2>4. Top'.rule # "atom"
    BY <2>2
  <2>5. QED
    BY <1>1, <1>5, <2>3, <2>4, QuietFollows, Zenon
<1>9. CASE Does(alt, 0, "", "", "") /\ Top.phase = "close"
  <2>1. Len(stack) \in Nat \ {0} /\ Len(stack) > 1 /\ Len(stack) # 1 /\ LevelRule(Len(stack)) = "seq"
    BY <1>0, <1>1, FrameBelow, Zenon
  <2>2. PopRule(alt)
    BY <1>9, <2>1, ActsEnd, Zenon
  <2>3. Top'.rule = LevelRule(Len(stack) - 1) /\ Top'.phase = "close"
    BY <1>1, <2>2, AfterPop
  <2>4. Top'.rule = "alts"
    BY <2>1, <2>3, LevelParents, Zenon
  <2>5. Sees'
    BY <2>3, <2>4, SeesNothing
  <2>6. Top'.rule # "atom"
    BY <2>4
  <2>7. QED
    BY <1>1, <1>5, <2>5, <2>6, QuietFollows, Zenon
<1>10. QED
  BY <1>3, <1>4, <1>7, <1>8, <1>9, Zenon

\* Behind a repetition prefix.
LEMMA CountsFollow ==
  ASSUME NEW n, Well(n), NEW alt, alt = Alternatives[n], Acts(alt), Consumed # 0,
         NEW k \in {1, 2, 3}, Takes(alt) = k, Len(la) >= k + 1, la[k] \in Counts,
         la[k + 1] \in ATOM, Top'.rule = "atom", Top'.phase = "open"
  PROVE  Dead(input) \/ Follows'
<1>1. Runs(n) /\ Held /\ status = "run" /\ Exact
  BY WellFacts
<1>2. Fires(alt)
  BY ActsFires
<1>3. /\ Len(la') = Len(la) - Takes(alt)
      /\ \A j \in 1..Len(la') : la'[j] = la[j + Takes(alt)]
  BY <1>1, <1>2, Firing
<1>4. Len(la) \in Nat
  BY <1>1, Sizes
<1>5. Len(la') \in Nat /\ Len(la') >= 1 /\ 1 \in 1..Len(la') /\ k \in 1..Len(la) /\ 1 + k = k + 1
  BY <1>3, <1>4
<1>6. la'[1] \in ATOM
  BY <1>3, <1>5, Zenon
<1>7. /\ Consumed' = Consumed + k /\ Consumed' >= 2 /\ Consumed \in Nat /\ input' = input
  BY LeftAt
<1>8. KindAt(input, Consumed') \in Counts
  BY <1>1, <1>4, <1>5, <1>7, NextKind, Zenon
<1>9. ~IsHeader(input, Consumed')
  <2>1. KindAt(input, Consumed') \notin {"TX", "PV"}
    BY <1>8 DEF Counts
  <2>2. Consumed' \in Nat
    BY <1>7
  <2>3. QED
    BY <1>7, <2>1, <2>2, NoName
<1>10. Sees'
  BY <1>7, <1>8, SeesAtom
<1>11. QED
  BY <1>6, <1>9, <1>10, NotStuckNext, Zenon DEF Follows

LEMMA ElemOpenFollows ==
  ASSUME NEW n, Well(n), NEW alt, alt = Alternatives[n], Acts(alt), At("elem", "open")
  PROVE  Dead(input) \/ Follows'
<1>0. "elem" # "abnf" /\ "elem" # "prod" /\ "open" # "close" /\ "NUM" \in Counts /\ "STAR" \in Counts
      /\ 1 + 1 = 2 /\ 2 + 1 = 3 /\ 3 + 1 = 4 /\ 1 \in {1, 2, 3} /\ 2 \in {1, 2, 3} /\ 3 \in {1, 2, 3}
  BY DEF Counts
<1>1. /\ Live(n) /\ Runs(n) /\ Held /\ status = "run" /\ Waiting /\ Shape /\ Sees
      /\ Consumed # 0 /\ Exact
  BY <1>0, WellFacts, Zenon DEF At
<1>2. Fires(alt) /\ Settled(n)
  BY <1>1, ActsFires, Firing
<1>3. ElementNext(la) /\ Len(la) >= 1
  BY <1>1, Zenon DEF Sees, ElementNext
<1>4. /\ input \in Seq(Lexemes) /\ Consumed \in Nat /\ Len(la) \in Nat
      /\ Consumed + Len(la) <= Len(input)
  BY <1>1, Sizes, NewPlace
<1>5. \A k, a : Does(alt, k, "atom", "", a) =>
        PushRule(alt) /\ Takes(alt) = k /\ alt.p = "atom"
  BY ActsPush, Named, Zenon
<1>6. ASSUME PushRule(alt), alt.p = "atom"
      PROVE  Top'.rule = "atom" /\ Top'.phase = "open"
  BY <1>1, <1>6, AfterPush
<1>7. ASSUME Takes(alt) = 0, PushRule(alt), alt.p = "atom"
      PROVE  Dead(input) \/ Follows'
  <2>1. CASE la[1] \in Counts
    <3>1. Overruns(la)
      BY <1>2, <1>3, <1>7, <2>1, ElemOpenSees, Zenon DEF At
    <3>2. \A k \in 1..Len(la) : la[k] = KindAt(input, Consumed + k)
      BY <1>1, Zenon DEF Exact, Kind
    <3>3. QED
      BY <1>4, <3>1, <3>2, OverrunsIsDead, Zenon
  <2>2. CASE la[1] \notin Counts
    <3>1. la[1] \in ATOM
      BY <1>3, <2>2, Zenon DEF ElementNext
    <3>2. la'[1] = la[1] /\ ElementNext(la')
      BY <1>1, <1>3, <1>7, QuietFacts, Zenon
    <3>3. Sees'
      <4>1. la'[1] \in {"TX", "PV"} => Len(la') >= 2 /\ ~HeaderNext(la')
        BY <3>2, Zenon DEF ElementNext
      <4>2. QED
        BY <1>6, <1>7, <4>1, SeesAtom
    <3>4. QED
      BY <1>1, <1>7, <3>1, <3>2, <3>3, QuietFollows, Zenon
  <2>3. QED
    BY <2>1, <2>2
<1>8. ASSUME NEW k \in {1, 2, 3}, Takes(alt) = k, Len(la) >= k + 1, la[k] \in Counts,
             la[k + 1] \in ATOM, PushRule(alt), alt.p = "atom"
      PROVE  Dead(input) \/ Follows'
  BY <1>1, <1>6, <1>8, CountsFollow, Zenon
<1>9. \/ Does(alt, 0, "atom", "", "")
      \/ /\ Does(alt, 1, "atom", "", "n") /\ Len(la) >= 2
         /\ la[1] = "NUM" /\ la[2] \in ATOM
      \/ /\ Does(alt, 1, "atom", "", "*") /\ Len(la) >= 2
         /\ la[1] = "STAR" /\ la[2] \in ATOM
      \/ /\ Does(alt, 2, "atom", "", "m*") /\ Len(la) >= 3
         /\ la[1] = "NUM" /\ la[2] = "STAR" /\ la[3] \in ATOM
      \/ /\ Does(alt, 2, "atom", "", "*n") /\ Len(la) >= 3
         /\ la[1] = "STAR" /\ la[2] = "NUM" /\ la[3] \in ATOM
      \/ /\ Does(alt, 3, "atom", "", "m*n") /\ Len(la) >= 4
         /\ la[1] = "NUM" /\ la[2] = "STAR" /\ la[3] = "NUM" /\ la[4] \in ATOM
  BY <1>2, ElemOpenDoes, Zenon DEF At
<1>10. QED
  BY <1>0, <1>5, <1>7, <1>8, <1>9, Zenon

LEMMA ElemCloseFollows ==
  ASSUME NEW n, Well(n), NEW alt, alt = Alternatives[n], Acts(alt), At("elem", "close")
  PROVE  Dead(input) \/ Follows'
<1>0. "elem" # "abnf" /\ "elem" # "prod" /\ "open" # "close"
  OBVIOUS
<1>1. /\ Live(n) /\ Runs(n) /\ Held /\ status = "run" /\ Waiting /\ Shape /\ Sees
      /\ Consumed # 0
  BY <1>0, WellFacts, Zenon DEF At
<1>2. Fires(alt) /\ Settled(n)
  BY <1>1, ActsFires, Firing
<1>3. Does(alt, 0, "", "", "append")
  BY <1>2, ElemCloseDoes, Zenon DEF At
<1>4. Len(stack) \in Nat \ {0} /\ Len(stack) > 1 /\ Len(stack) # 1 /\ LevelRule(Len(stack)) = "elem"
  BY <1>0, <1>1, FrameBelow, Zenon DEF At
<1>5. PopRule(alt) /\ Takes(alt) = 0
  BY <1>3, <1>4, ActsEnd, Zenon DEF At
<1>6. Top'.rule = LevelRule(Len(stack) - 1) /\ Top'.phase = "close"
  BY <1>1, <1>5, AfterPop
<1>7. Top'.rule = "seq"
  BY <1>4, <1>6, LevelParents, Zenon
<1>8. \/ Len(la) >= 1
      \/ Kind(Consumed) \notin {"TX", "PV"}
      \/ Kind(Consumed - 1) \in Counts
  BY <1>1, Zenon DEF Sees, LeafRead, At
<1>9. Len(la') >= 1 \/ KindAt(input', Consumed') \notin {"TX", "PV"}
      \/ KindAt(input', Consumed' - 1) \in Counts
  BY <1>1, <1>5, <1>8, QuietFacts, Zenon DEF Kind
<1>10. Sees'
  BY <1>6, <1>7, <1>9, SeesLeaf
<1>11. Top'.rule # "atom"
  BY <1>7
<1>12. QED
  BY <1>1, <1>5, <1>10, <1>11, QuietFollows, Zenon

LEMMA AtomCloseFollows ==
  ASSUME NEW n, Well(n), NEW alt, alt = Alternatives[n], Acts(alt), At("atom", "close")
  PROVE  Dead(input) \/ Follows'
<1>0. "atom" # "abnf" /\ "atom" # "prod" /\ "open" # "close" /\ "elem" # "atom"
  OBVIOUS
<1>1. /\ Live(n) /\ Runs(n) /\ Held /\ status = "run" /\ Waiting /\ Shape /\ Sees
      /\ Consumed # 0
  BY <1>0, WellFacts, Zenon DEF At
<1>2. Fires(alt) /\ Settled(n)
  BY <1>1, ActsFires, Firing
<1>3. \/ /\ Does(alt, 1, "", "", "close") /\ Len(la) >= 1
         /\ la[1] = "RP" \/ la[1] = "CB"
      \/ Does(alt, 0, "", "", "") /\ Len(la) >= 1
  BY <1>2, AtomCloseDoes, Zenon DEF At
<1>4. Len(stack) \in Nat \ {0} /\ Len(stack) > 1 /\ Len(stack) # 1 /\ LevelRule(Len(stack)) = "atom"
  BY <1>0, <1>1, FrameBelow, Zenon DEF At
<1>5. \A k, a : Does(alt, k, "", "", a) => PopRule(alt) /\ Takes(alt) = k
  BY <1>4, ActsEnd, Zenon DEF At
<1>6. PopRule(alt)
  BY <1>3, <1>5, Zenon
<1>7. Top'.rule = LevelRule(Len(stack) - 1) /\ Top'.phase = "close"
  BY <1>1, <1>6, AfterPop
<1>8. Top'.rule = "elem"
  BY <1>4, <1>7, LevelParents, Zenon
<1>9. ASSUME Takes(alt) = 0, Len(la) >= 1
      PROVE  Dead(input) \/ Follows'
  <2>1. Len(la') >= 1
    BY <1>1, <1>9, QuietFacts, Zenon
  <2>2. Sees'
    BY <1>7, <1>8, <2>1, SeesLeaf
  <2>3. QED
    BY <1>0, <1>1, <1>8, <1>9, <2>2, QuietFollows, Zenon
<1>10. ASSUME Takes(alt) = 1, Len(la) >= 1, la[1] = "RP" \/ la[1] = "CB"
       PROVE  Dead(input) \/ Follows'
  <2>1. /\ Consumed' = Consumed + 1 /\ input' = input /\ Consumed \in Nat /\ Consumed' >= 2
        /\ Exact
    BY <1>1, <1>10, LeftAt
  <2>2. KindAt(input, Consumed') = la[1]
    BY <1>1, <1>10, <2>1, HeadPlace, NextKind, Zenon
  <2>3. KindAt(input, Consumed') \notin {"TX", "PV"}
    BY <1>10, <2>2
  <2>4. ~IsHeader(input, Consumed')
    <3>1. Consumed' \in Nat
      BY <2>1
    <3>2. QED
      BY <2>1, <2>3, <3>1, NoName
  <2>5. Sees'
    BY <1>7, <1>8, <2>1, <2>3, SeesLeaf
  <2>6. QED
    BY <1>0, <1>1, <1>8, <2>4, <2>5, NotStuckNext, Zenon DEF Follows
<1>11. QED
  BY <1>3, <1>5, <1>9, <1>10, Zenon

LEMMA Onward ==
  ASSUME NEW c \in Nat, NEW d \in Nat, d = c + 1, d >= 2
  PROVE  d - 1 = c /\ d # 1 /\ d + 1 = c + 2
OBVIOUS

\* A leaf of one token, and the token behind it.
LEMMA LeafFollows ==
  ASSUME NEW n, Well(n), NEW alt, alt = Alternatives[n], Acts(alt), EndOpen(alt),
         At("atom", "open"), Takes(alt) = 1, Len(la) >= 1
  PROVE  Dead(input) \/ Follows'
<1>1. /\ Live(n) /\ Runs(n) /\ Held /\ status = "run" /\ Waiting /\ Sees
      /\ Consumed # 0
  BY WellFacts DEF At
<1>2. Top'.rule = "atom" /\ Top'.phase = "close" /\ Top'.phase # "open"
  BY <1>1, AfterOpen DEF At
<1>3. Fires(alt)
  BY ActsFires
<1>4. Len(la') = Len(la) - 1
  BY <1>1, <1>3, Firing
<1>5. /\ Consumed' = Consumed + 1 /\ input' = input /\ Consumed \in Nat /\ Consumed' >= 2
      /\ Exact
  BY <1>1, LeftAt
<1>6. Consumed' \in Nat
  BY <1>5
<1>7. Consumed' - 1 = Consumed /\ Consumed' # 1 /\ Consumed' + 1 = Consumed + 2
  BY <1>5, <1>6, Onward
<1>8. Len(la) \in Nat
  BY <1>1, Sizes
<1>9. KindAt(input, Consumed') = la[1]
  BY <1>1, <1>5, HeadPlace, NextKind, Zenon
<1>10. /\ la[1] \in {"TX", "PV"}
       /\ ~(Len(la) >= 2) \/ HeaderNext(la)
       => KindAt(input', Consumed' - 1) \in Counts
  BY <1>1, <1>5, <1>7, Zenon DEF Sees, Kind
<1>11. Sees'
  <2>1. Len(la) >= 2 => Len(la') >= 1
    BY <1>4, <1>8
  <2>2. \/ Len(la') >= 1
        \/ KindAt(input', Consumed') \notin {"TX", "PV"}
        \/ KindAt(input', Consumed' - 1) \in Counts
    BY <1>5, <1>9, <1>10, <2>1, Zenon
  <2>3. QED
    BY <1>2, <2>2, SeesLeaf
<1>12. IsHeader(input, Consumed') => KindAt(input, Consumed' - 1) \in Counts
  <2> SUFFICES ASSUME IsHeader(input, Consumed')
               PROVE  KindAt(input, Consumed' - 1) \in Counts
    OBVIOUS
  <2>1. \/ la[1] = "TX" /\ KindAt(input, Consumed + 2) \in Defines
        \/ la[1] = "PV" /\ KindAt(input, Consumed + 2) = "DEF"
    BY <1>7, <1>9, Zenon DEF IsHeader
  <2>2. la[1] \in {"TX", "PV"}
    BY <2>1
  <2>3. Len(la) >= 2 => HeaderNext(la)
    <3>1. ASSUME Len(la) >= 2
          PROVE  KindAt(input, Consumed + 2) = la[2]
      <4>1. 2 \in 1..Len(la)
        BY <1>8, <3>1
      <4>2. QED
        BY <1>5, <1>8, <4>1, NextKind, Zenon
    <3>2. QED
      BY <2>1, <3>1, Zenon DEF HeaderNext
  <2>4. QED
    BY <1>5, <1>10, <2>2, <2>3, Zenon
<1>13. QED
  BY <1>1, <1>2, <1>11, <1>12, NotStuckNext, Zenon DEF Follows

\* `%s' or `%i' and its string.
LEMMA StringFollows ==
  ASSUME NEW n, Well(n), NEW alt, alt = Alternatives[n], Acts(alt), EndOpen(alt),
         At("atom", "open"), Takes(alt) = 2, Len(la) >= 2, la[2] = "ST"
  PROVE  Dead(input) \/ Follows'
<1>1. /\ Live(n) /\ Runs(n) /\ Held /\ status = "run" /\ Waiting /\ Sees
      /\ Consumed # 0
  BY WellFacts DEF At
<1>2. Top'.rule = "atom" /\ Top'.phase = "close" /\ Top'.phase # "open"
  BY <1>1, AfterOpen DEF At
<1>3. /\ Consumed' = Consumed + 2 /\ input' = input /\ Consumed \in Nat /\ Consumed' >= 2
      /\ Exact
  BY <1>1, LeftAt
<1>4. Len(la) \in Nat
  BY <1>1, Sizes
<1>5. 2 \in 1..Len(la)
  BY <1>4
<1>6. KindAt(input, Consumed') = "ST"
  BY <1>3, <1>4, <1>5, NextKind, Zenon
<1>7. KindAt(input, Consumed') \notin {"TX", "PV"} /\ Consumed' \in Nat
  BY <1>3, <1>6
<1>8. ~IsHeader(input, Consumed')
  BY <1>3, <1>7, NoName
<1>9. Sees'
  BY <1>2, <1>3, <1>7, SeesLeaf
<1>10. QED
  BY <1>1, <1>2, <1>8, <1>9, NotStuckNext, Zenon DEF Follows

LEMMA BracketFollows ==
  ASSUME NEW n, Well(n), NEW alt, alt = Alternatives[n], Acts(alt), PushRule(alt),
         alt.p = "alts", At("atom", "open"), Takes(alt) = 1, Len(la) >= 1,
         la[1] = "LP" \/ la[1] = "OB"
  PROVE  Dead(input) \/ Follows'
<1>1. /\ Live(n) /\ Runs(n) /\ Held /\ status = "run" /\ Waiting /\ Sees
      /\ Consumed # 0
  BY WellFacts DEF At
<1>2. Top'.rule = "alts" /\ Top'.phase = "open" /\ Top'.rule # "atom"
  BY <1>1, AfterPush
<1>3. /\ Consumed' = Consumed + 1 /\ input' = input /\ Consumed \in Nat /\ Consumed' >= 2
      /\ Exact
  BY <1>1, LeftAt
<1>4. KindAt(input, Consumed') = la[1]
  BY <1>1, <1>3, HeadPlace, NextKind, Zenon
<1>5. /\ KindAt(input, Consumed') \notin {"TX", "PV"} /\ Consumed' \in Nat
      /\ KindAt(input, Consumed') \in {"DEF", "DEFA", "LP", "OB", "ALT"}
  BY <1>3, <1>4
<1>6. ~IsHeader(input, Consumed')
  BY <1>3, <1>5, NoName
<1>7. Sees'
  BY <1>2, <1>3, <1>5, SeesOpen
<1>8. QED
  BY <1>1, <1>2, <1>6, <1>7, NotStuckNext, Zenon DEF Follows

LEMMA AtomOpenFollows ==
  ASSUME NEW n, Well(n), NEW alt, alt = Alternatives[n], Acts(alt), At("atom", "open")
  PROVE  Dead(input) \/ Follows'
<1>1. Runs(n)
  BY WellFacts
<1>2. Fires(alt) /\ Settled(n)
  BY <1>1, ActsFires, Firing
<1>3. \A k, a : Does(alt, k, "", "", a) => EndOpen(alt) /\ Takes(alt) = k
  BY ActsOpen, Zenon DEF At
<1>4. \A k, a : Does(alt, k, "alts", "", a) =>
        PushRule(alt) /\ Takes(alt) = k /\ alt.p = "alts"
  BY BracketPushed, Zenon
<1>5. /\ Len(la) >= 1
      /\ \/ Does(alt, 1, "", "", "term") \/ Does(alt, 1, "", "", "number")
         \/ Does(alt, 1, "", "", "prose") \/ Does(alt, 1, "", "", "ref")
         \/ Does(alt, 2, "", "", "term") /\ Len(la) >= 2 /\ la[2] = "ST"
         \/ Does(alt, 1, "alts", "", "group") /\ la[1] = "LP"
         \/ Does(alt, 1, "alts", "", "opt") /\ la[1] = "OB"
  BY <1>2, AtomOpenDoes, Zenon DEF At
<1>6. QED
  BY <1>3, <1>4, <1>5, LeafFollows, StringFollows, BracketFollows, Zenon

\* From the empty text on.
LEMMA AbnfOpenFollows ==
  ASSUME NEW n, Well(n), NEW alt, alt = Alternatives[n], Acts(alt), At("abnf", "open")
  PROVE  \/ Dead(input)
         \/ Follows' /\ Begins' /\ Consumed' = 0
<1>1. /\ Live(n) /\ Runs(n) /\ Held /\ status = "run" /\ Waiting /\ Shape /\ Begins /\ ~Stuck
  BY WellFacts
<1>2. Fires(alt) /\ Settled(n)
  BY <1>1, ActsFires, Firing
<1>3. Consumed = 0
  BY <1>1, Zenon DEF Shape
<1>4. Len(la) >= 1
  BY <1>2, AbnfOpenSees, Zenon DEF At
<1>5. Does(alt, 0, "prod", "", "") \/ (Does(alt, 1, "", "", "") /\ la[1] = "ZZ")
  <2>1. Does(alt, 1, "", "", "") => alt.p = ""
    BY Zenon DEF Does
  <2>2. QED
    BY <1>2, <2>1, AbnfOpenDoes, Zenon DEF At
<1>6. CASE la[1] = "ZZ"
  <2>1. Kind(1) = "ZZ"
    <3>1. "ZZ" # "NR" /\ "ZZ" # "TX"
      OBVIOUS
    <3>2. QED
      BY <1>1, <1>3, <1>4, <1>6, <3>1, Zenon DEF Begins
  <2>2. Wrong(input, 1)
    <3>1. "ZZ" \notin {"TX", "PV", "NV"}
      OBVIOUS
    <3>2. QED
      BY <2>1, <3>1, Zenon DEF Wrong, Kind
  <2>3. input \in Seq(Lexemes) /\ 1 \in 1..Len(input)
    <3>1. input \in Seq(Lexemes) /\ Len(input) \in Nat /\ Len(la) <= Len(input) /\ Len(la) \in Nat
      BY <1>1, Sizes
    <3>2. QED
      BY <1>4, <3>1
  <2>4. QED
    BY <2>2, <2>3, WrongIsDead, Zenon
<1>7. CASE Does(alt, 0, "prod", "", "")
  <2>1. PushRule(alt) /\ alt.p = "prod" /\ Takes(alt) = 0
    BY <1>7, ActsPush, Named, Zenon
  <2>2. Top'.rule = "prod" /\ Top'.phase = "open"
    BY <1>1, <2>1, AfterPush
  <2>3. /\ Consumed' = Consumed /\ input' = input /\ Len(la') = Len(la) /\ Len(la') \in Nat
        /\ \A j \in 1..Len(la) : la'[j] = la[j]
        /\ Len(la') >= 1 /\ la'[1] = la[1]
    BY <1>1, <1>2, <1>4, <2>1, SameTokens, Zenon
  <2>4. Len(la) >= 2 => la'[2] = la[2]
    <3>1. Len(la) >= 2 => 2 \in 1..Len(la)
      BY <2>3
    <3>2. QED
      BY <2>3, <3>1, Zenon
  <2>5. Begins'
    BY <1>1, <1>3, <2>3, <2>4, Zenon DEF Begins, Kind
  <2>6. ~Stuck'
    <3>1. la[1] \notin Never /\ Top'.rule # "atom"
      BY <1>1, <1>4, <2>2, Zenon DEF Stuck
    <3>2. QED
      BY <2>3, <3>1, Zenon DEF Stuck, At
  <2>7. Sees'
    BY <2>2, SeesNothing
  <2>8. QED
    BY <1>3, <2>3, <2>5, <2>6, <2>7, Zenon DEF Follows
<1>8. QED
  BY <1>5, <1>6, <1>7

\* Whatever alternative a parse that goes well takes.
LEMMA ActsSharp ==
  ASSUME NEW n, Well(n), NEW alt, alt = Alternatives[n], Acts(alt), ~At("abnf", "close")
  PROVE  Dead(input) \/ (~Stuck' /\ Sharp')
<1>1. /\ Runs(n) /\ Held /\ status = "run" /\ (Consumed = 0 => At("abnf", "open") \/ At("prod", "open"))
  BY WellFacts
<1>2. Top.rule \in RuleNames /\ Top.phase \in {"open", "close"}
  BY <1>1, Sizes
<1>3. CASE At("abnf", "open")
  BY <1>3, AbnfOpenFollows, Zenon DEF Follows, Sharp
<1>4. CASE ~At("abnf", "open")
  <2>1. Dead(input) \/ Follows'
    <3>1. \/ At("abnf", "open") \/ At("abnf", "close") \/ At("prod", "open") \/ At("prod", "close")
          \/ At("alts", "open") \/ At("alts", "close") \/ Top.rule = "seq"
          \/ At("elem", "open") \/ At("elem", "close") \/ At("atom", "open") \/ At("atom", "close")
      BY <1>2 DEF At, RuleNames
    <3>2. QED
      BY <1>4, <3>1, ProdOpenFollows, ProdCloseFollows, AltsOpenFollows, AltsCloseFollows,
         SeqFollows, ElemOpenFollows, ElemCloseFollows, AtomOpenFollows, AtomCloseFollows, Zenon
  <2>2. Consumed' >= 2 /\ Exact'
    BY <1>1, <1>4, ProdOpenFollows, LeftAt, Zenon
  <2>3. Consumed' # 0
    <3>1. Consumed' \in Int
      <4>1. Runs(n) /\ Fires(alt)
        BY <1>1, ActsFires
      <4>2. Consumed' = Consumed + Takes(alt) /\ Takes(alt) \in Nat /\ Consumed \in Nat
        BY <1>1, <4>1, Firing, Sizes
      <4>3. QED
        BY <4>2
    <3>2. QED
      BY <2>2, <3>1
  <2>4. QED
    BY <2>1, <2>2, <2>3, Zenon DEF Follows, Sharp, Begins
<1>5. QED
  BY <1>3, <1>4

LEMMA FineIsWell ==
  ASSUME NEW n, Runs(n), NoBad, Proper(input), Fine
  PROVE  Live(n) /\ Well(n)
BY Zenon DEF Fine, Live, Well

\* A parse that goes well goes on well, if its text may still be completed.
LEMMA ActsFine ==
  ASSUME NEW n, Runs(n), NoBad, Proper(input), Fine, NEW alt, alt = Alternatives[n],
         Acts(alt), ~At("abnf", "close")
  PROVE  Dead(input) \/ Fine'
<1>1. Live(n) /\ Well(n) /\ Held /\ status = "run"
  BY FineIsWell DEF Runs
<1>2. ~Accept(alt)
  BY <1>1, AcceptsAtEnd, Zenon
<1>3. status' = "run"
  BY <1>1, <1>2, GoesOn, Zenon
<1>4. Dead(input) \/ (~Stuck' /\ Sharp')
  BY <1>1, ActsSharp, Zenon
<1>5. Stuck' \/ Empty' \/ (Holed' /\ SomeDoomed(input')) \/ (~Holed' /\ Good')
  <2>1. Reading'
    BY <1>1, GoodReads, Zenon
  <2>2. QED
    BY <1>3, <2>1, Zenon DEF Reading
<1>6. Sharp' => ~Empty'
  <2>1. Consumed' = 1 => Consumed' # 0 /\ ~(Consumed' >= 2)
    OBVIOUS
  <2>2. QED
    BY <2>1, Zenon DEF Sharp, Empty
<1>7. SomeDoomed(input') => Dead(input)
  <2>1. input' = input
    BY <1>1, ActsFires, Firing
  <2>2. input \in Seq(Lexemes)
    BY <1>1, Sizes
  <2>3. QED
    BY <2>1, <2>2, DoomedIsDead, Zenon
<1>8. QED
  BY <1>4, <1>5, <1>6, <1>7, Zenon DEF Fine

\* The text is taken with all its tokens read as they were meant.
LEMMA EndsExact ==
  ASSUME NEW n, Runs(n), NoBad, Proper(input), Fine, NEW alt, alt = Alternatives[n],
         Acts(alt), At("abnf", "close")
  PROVE  status' = "done" /\ Exact'
<1>1. Live(n) /\ Well(n) /\ Held /\ status = "run"
  BY FineIsWell DEF Runs
<1>2. Top.rule = "abnf" /\ Top.phase = "close"
  BY DEF At
<1>3. Settled(n)
  BY <1>1, ActsFires, Firing, Zenon
<1>4. Does(alt, 1, "", "", "")
  BY <1>2, <1>3, AbnfCloseDoes, Zenon
<1>5. Len(stack) \in Nat \ {0} /\ Top.rule = LevelRule(Len(stack))
  BY <1>1, Sizes
<1>6. Len(stack) = 1
  BY <1>2, <1>5, LevelOne
<1>7. Accept(alt)
  BY <1>2, <1>4, <1>5, <1>6, ActsEnd, Zenon
<1>8. Consumed # 0
  BY <1>1, WellFacts DEF At
<1>9. Exact'
  BY <1>1, <1>8, LeftAt
<1>10. QED
  BY <1>7, <1>9 DEF Accept

-----------------------------------------------------------------------------
(* A parse that is given up.                                               *)

\* Where no alternative is a candidate.
LEMMA NoneFits ==
  ASSUME Candidates = {}, NEW m \in DOMAIN Alternatives
  PROVE  ~Fits(Alternatives[m])
BY DEF Candidates

\* An alternative without tokens and condition always matches.
LEMMA FitsAlways ==
  ASSUME NEW alt, NEW b, NEW p, NEW r, NEW c, NEW a, Is0(alt, b, p, r, c, a), c = ""
  PROVE  Fits(alt)
<1>1. DOMAIN alt.s = {} /\ alt.c = ""
  BY Zenon DEF Is0, Act
<1>2. QED
  BY <1>1 DEF Fits

LEMMA FallsBack ==
  ASSUME Candidates = {}
  PROVE  \A m : m \in DOMAIN Alternatives =>
           ~\E b, p, r, a : Is0(Alternatives[m], b, p, r, "", a)
BY NoneFits, FitsAlways, Zenon

\* Only three rules have no alternative to fall back on.
LEMMA RejectsAt ==
  ASSUME Candidates = {}, Top.rule \in RuleNames, Top.phase \in {"open", "close"}
  PROVE  At("abnf", "close") \/ At("prod", "open") \/ At("atom", "open")
<1>0. 1 \in 1..1 /\ 2 \in 1..2 /\ 4 \in 1..4 /\ 6 \in 1..6 /\ 8 \in 1..8
  OBVIOUS
<1>1. ~(Top.rule = "abnf" /\ Top.phase = "open")
  BY <1>0, AbnfOpen, FallsBack, Zenon
<1>2. ~(Top.rule = "prod" /\ Top.phase = "close")
  BY <1>0, ProdClose, FallsBack, Zenon
<1>3. ~(Top.rule = "alts" /\ Top.phase = "open") /\ ~(Top.rule = "alts" /\ Top.phase = "close")
  BY <1>0, AltsOpen, AltsClose, FallsBack, Zenon
<1>4. ~(Top.rule = "seq" /\ Top.phase = "open") /\ ~(Top.rule = "seq" /\ Top.phase = "close")
  BY <1>0, SeqOpen, SeqClose, FallsBack, Zenon
<1>5. ~(Top.rule = "elem" /\ Top.phase = "open") /\ ~(Top.rule = "elem" /\ Top.phase = "close")
  BY <1>0, ElemOpen, ElemClose, FallsBack, Zenon
<1>6. ~(Top.rule = "atom" /\ Top.phase = "close")
  BY <1>0, AtomClose, FallsBack, Zenon
<1>7. QED
  BY <1>1, <1>2, <1>3, <1>4, <1>5, <1>6 DEF At, RuleNames

LEMMA AbnfRejects ==
  ASSUME Held, status = "run", NoBad, Proper(input), Fine, Candidates = {}, At("abnf", "close")
  PROVE  Dead(input)
<1>1. /\ Len(la) \in Nat /\ Consumed \in Nat /\ Consumed # 0 /\ input \in Seq(Lexemes)
      /\ Len(stack) \in Nat \ {0} /\ Top.rule = LevelRule(Len(stack))
  BY Sizes DEF Fine, Good, Shape, At
<1>2. Len(la) >= 1 /\ la[1] \in {"ZZ", "RP", "CB"} /\ Exact
  BY <1>1, Zenon DEF Fine, Sharp, Good, Shape, Sees
<1>3. la[1] # "ZZ"
  <2>1. DOMAIN Alternatives = 1..1 /\ Is1(Alternatives[1], {"ZZ"}, 0, "", "", "", "")
    BY AbnfClose, Zenon DEF At
  <2>2. 1 \in DOMAIN Alternatives
    <3>1. 1 \in 1..1
      OBVIOUS
    <3>2. QED
      BY <2>1, <3>1, Zenon
  <2>3. la[1] \notin {"ZZ"}
    BY <1>1, <2>1, <2>2, NoneFits, Unfit1, Zenon
  <2>4. QED
    BY <2>3
<1>4. /\ 1 \in 1..Len(la) /\ KindAt(input, Consumed + 1) = la[1]
      /\ Consumed + 1 \in 1..Len(input)
  <2>1. 1 \in 1..Len(la)
    BY <1>1, <1>2
  <2>2. Consumed + Len(la) = Len(input) /\ Len(input) \in Nat
    BY NewPlace
  <2>3. Consumed + 1 \in 1..Len(input)
    BY <1>1, <1>2, <2>2
  <2>4. QED
    BY <1>1, <1>2, <2>1, <2>3, NextKind, Zenon
<1>5. Depth(input, Consumed) = 0
  <2>1. Len(stack) = 1 /\ ~InBracket(Top)
    BY <1>1, LevelOne DEF At, InBracket
  <2>2. Unclosed = 0
    BY <2>1 DEF Unclosed, Level
  <2>3. QED
    BY <2>2 DEF Fine, Good, Nest
<1>6. Sounded(input, Consumed, stack)
  BY Zenon DEF Fine, Good
<1>7. la[1] \in {"RP", "CB"}
  BY <1>2, <1>3
<1>8. QED
  BY <1>1, <1>4, <1>5, <1>6, <1>7, CloserIsDead, Zenon

LEMMA ProdRejects ==
  ASSUME Held, status = "run", NoBad, Proper(input), Fine, Candidates = {}, At("prod", "open")
  PROVE  Dead(input)
<1>1. /\ Len(la) \in Nat /\ Len(input) \in Nat /\ Consumed \in Nat /\ input \in Seq(Lexemes)
      /\ Consumed + Len(la) = Len(input)
  BY Sizes, NewPlace
<1>2. /\ DOMAIN Alternatives = 1..3
      /\ Is2(Alternatives[1], {"TX"}, {"DEF"}, 0, "alts", "", "", "define")
      /\ Is2(Alternatives[2], {"PV"}, {"DEF"}, 0, "alts", "", "", "define")
      /\ Is2(Alternatives[3], {"TX"}, {"DEFA"}, 0, "alts", "", "", "extend")
  BY ProdOpen, Zenon DEF At
<1>3. ~Fits(Alternatives[1]) /\ ~Fits(Alternatives[2]) /\ ~Fits(Alternatives[3])
  <2>1. \A m \in {1, 2, 3} : m \in DOMAIN Alternatives
    <3>1. \A m \in {1, 2, 3} : m \in 1..3
      OBVIOUS
    <3>2. QED
      BY <1>2, <3>1, Zenon
  <2>2. QED
    BY <2>1, NoneFits
<1>4. /\ Len(la) >= 1
      /\ la[1] \in {"TX"} => Len(la) >= 2 /\ la[2] \notin {"DEF"} /\ la[2] \notin {"DEFA"}
      /\ la[1] \in {"PV"} => Len(la) >= 2 /\ la[2] \notin {"DEF"}
  BY <1>1, <1>2, <1>3, Unfit2, Zenon
<1>5. ~HeaderNext(la)
  BY <1>4 DEF HeaderNext, Defines
<1>6. Consumed = 0
  BY <1>5, Zenon DEF Fine, Good, Shape
<1>7. /\ \/ la[1] = Kind(1) /\ la[1] \notin Matched
         \/ la[1] = "NR" /\ Kind(1) = "NUM"
         \/ la[1] = "TX" /\ Kind(1) \in Matched
      /\ Len(la) >= 2 => la[2] = Kind(2) \/ Kind(2) \in Matched
  BY <1>4, <1>6, Zenon DEF Fine, Sharp, Begins
<1>8. Len(la) >= 1 => 1 \in 1..Len(input)
  BY <1>1
<1>9. Len(la) >= 2 => 2 \in 1..Len(input)
  BY <1>1
<1>10. CASE la[1] = "TX"
  <2>1. Len(la) >= 2 /\ la[2] \notin Defines
    BY <1>4, <1>10 DEF Defines
  <2>2. Kind(2) \notin Defines
    BY <1>7, <2>1 DEF Matched, Defines
  <2>3. Wrong(input, 2)
    BY <2>2, Zenon DEF Wrong, Kind
  <2>4. QED
    BY <1>1, <1>9, <2>1, <2>3, WrongIsDead, Zenon
<1>11. CASE la[1] # "TX"
  <2>1. Kind(1) \notin {"TX", "PV", "NV"}
    BY <1>7, <1>11 DEF Matched
  <2>2. Wrong(input, 1)
    BY <2>1, Zenon DEF Wrong, Kind
  <2>3. QED
    BY <1>1, <1>4, <1>8, <2>2, WrongIsDead, Zenon
<1>12. QED
  BY <1>10, <1>11

\* The token an atom begins with is one of its alternatives'.
LEMMA AtomMatches ==
  ASSUME Held, status = "run", NoBad, Proper(input), Fine, At("atom", "open")
  PROVE  Candidates # {}
<1> SUFFICES ASSUME Candidates = {}
             PROVE  FALSE
  OBVIOUS
<1>1. /\ Len(la) \in Nat /\ Len(input) \in Nat /\ Consumed \in Nat /\ input \in Seq(Lexemes)
      /\ Consumed + Len(la) = Len(input)
  BY Sizes, NewPlace
<1>2. /\ DOMAIN Alternatives = 1..7
      /\ Is2(Alternatives[1], {"SS", "SI"}, {"ST"}, 0, "", "", "", "term")
      /\ Is1(Alternatives[2], {"ST"}, 0, "", "", "", "term")
      /\ Is1(Alternatives[3], {"NV"}, 0, "", "", "", "number")
      /\ Is1(Alternatives[4], {"PV"}, 0, "", "", "", "prose")
      /\ Is1(Alternatives[5], {"TX"}, 0, "", "", "", "ref")
      /\ Is1(Alternatives[6], {"LP"}, 0, "alts", "", "", "group")
      /\ Is1(Alternatives[7], {"OB"}, 0, "alts", "", "", "opt")
  BY AtomOpen, Zenon DEF At
<1>3. /\ ~Fits(Alternatives[1]) /\ ~Fits(Alternatives[2]) /\ ~Fits(Alternatives[3])
      /\ ~Fits(Alternatives[4]) /\ ~Fits(Alternatives[5]) /\ ~Fits(Alternatives[6])
      /\ ~Fits(Alternatives[7])
  <2>1. \A m \in {1, 2, 3, 4, 5, 6, 7} : m \in DOMAIN Alternatives
    <3>1. \A m \in {1, 2, 3, 4, 5, 6, 7} : m \in 1..7
      OBVIOUS
    <3>2. QED
      BY <1>2, <3>1, Zenon
  <2>2. QED
    BY <2>1, NoneFits
<1>4. /\ Len(la) >= 1
      /\ la[1] \notin {"ST"} /\ la[1] \notin {"NV"} /\ la[1] \notin {"PV"} /\ la[1] \notin {"TX"}
      /\ la[1] \notin {"LP"} /\ la[1] \notin {"OB"}
  BY <1>1, <1>2, <1>3, Unfit1, Zenon
<1>5. la[1] \in {"SS", "SI"} => Len(la) >= 2 /\ la[2] \notin {"ST"}
  BY <1>1, <1>2, <1>3, Unfit2, Zenon
<1>6. la[1] \in ATOM
  BY <1>4, Zenon DEF Fine, Stuck
<1>7. la[1] \in {"SS", "SI"}
  BY <1>4, <1>6 DEF ATOM
<1>8. Consumed # 0 /\ Exact
  BY DEF Fine, Sharp, Good, Shape, At
<1>9. Len(la) >= 2 =>
        /\ 1 \in 1..Len(la) /\ 2 \in 1..Len(la) /\ Consumed + 1 \in 1..Len(input)
        /\ Consumed + 1 < Len(input) /\ Consumed + 1 + 1 = Consumed + 2
  BY <1>1
<1>10. KindAt(input, Consumed + 1) = la[1] /\ KindAt(input, Consumed + 2) = la[2]
  BY <1>1, <1>5, <1>7, <1>8, <1>9, NextKind, Zenon
<1>11. DOMAIN input = 1..Len(input)
  BY <1>1, LenProperties
<1>12. KindAt(input, Consumed + 2) = "ST"
  BY <1>5, <1>7, <1>9, <1>10, <1>11, Zenon DEF Proper
<1>13. QED
  BY <1>5, <1>7, <1>10, <1>12

\* A parse that goes well is given up only in a text beyond completion.
LEMMA RejectsDead ==
  ASSUME Held, status = "run", NoBad, Proper(input), Fine, Candidates = {}
  PROVE  Dead(input)
<1>1. Top.rule \in RuleNames /\ Top.phase \in {"open", "close"}
  BY Sizes
<1>2. QED
  BY <1>1, RejectsAt, AbnfRejects, ProdRejects, AtomMatches, Zenon

\* A numeric value that throws is one that no text in the language holds.
LEMMA ThrowsDead ==
  ASSUME NEW n, Runs(n), NoBad, Proper(input), Fine, NEW alt, alt = Alternatives[n],
         ThrowNumeric(alt)
  PROVE  Dead(input)
<1>1. /\ Held /\ status = "run" /\ alt.a = "number" /\ input[Consumed + 1].val = Fault
      /\ Len(la) >= Len(alt.s)
  BY Zenon DEF Runs, ThrowNumeric, IsFault
<1>2. Settled(n)
  BY <1>1, Zenon DEF Settled, Runs, Held
<1>3. Top.rule \in RuleNames /\ Top.phase \in {"open", "close"}
  BY <1>1, Sizes
<1>4. Top.rule = "atom" /\ Top.phase = "open" /\ Len(la) >= 1 /\ la[1] = "NV"
  BY <1>1, <1>2, <1>3, NumberAt, Zenon
<1>5. Consumed # 0 /\ Exact
  BY <1>4 DEF Fine, Sharp, Good, Shape, At
<1>6. /\ Len(la) \in Nat /\ Len(input) \in Nat /\ Consumed \in Nat /\ input \in Seq(Lexemes)
      /\ Consumed + Len(la) = Len(input)
  BY <1>1, Sizes, NewPlace
<1>7. 1 \in 1..Len(la) /\ Consumed + 1 \in 1..Len(input) /\ Consumed + 1 # 1
  BY <1>4, <1>5, <1>6
<1>8. KindAt(input, Consumed + 1) = "NV"
  BY <1>4, <1>5, <1>6, <1>7, NextKind, Zenon
<1>9. Fault # 0
  BY DEF Fault
<1>10. Wrong(input, Consumed + 1)
  BY <1>1, <1>7, <1>8, <1>9, Zenon DEF Wrong
<1>11. QED
  BY <1>6, <1>7, <1>10, WrongIsDead, Zenon

-----------------------------------------------------------------------------
(* One more lexeme of a parse that goes well.                              *)

\* The text with one more lexeme.
LEMMA AddsText ==
  ASSUME Held, status = "run", NEW x, NEW kind, Adds(x, kind)
  PROVE  /\ input \in Seq(Lexemes) /\ x \in Lexemes /\ input' = Append(input, x)
         /\ input' \in Seq(Lexemes) /\ Len(input') = Len(input) + 1 /\ Len(input) \in Nat
         /\ KindAt(input', Len(input) + 1) = x.kind
         /\ \A i \in Int : i # Len(input) + 1 => KindAt(input', i) = KindAt(input, i)
         /\ Longer(input', input) /\ x.kind # "NR"
<1>1. /\ input \in Seq(Lexemes) /\ x \in Lexemes /\ input' = Append(input, x)
      /\ Len(input) \in Nat
  BY Sizes, TextLexemes DEF Adds, NextLexemes
<1>2. /\ input' \in Seq(Lexemes) /\ Len(input') = Len(input) + 1
      /\ \A i \in Int : KindAt(input', i) = IF i = Len(input) + 1 THEN x.kind ELSE KindAt(input, i)
      /\ \A i \in DOMAIN input : input'[i] = input[i]
  <2>1. input' \in Seq(Lexemes) /\ Len(input') = Len(input) + 1
    BY <1>1
  <2>2. \A i \in Int : KindAt(input', i) = IF i = Len(input) + 1 THEN x.kind ELSE KindAt(input, i)
    BY <1>1, KindOfLonger, Zenon
  <2>3. DOMAIN input = 1..Len(input)
    BY <1>1, LenProperties
  <2>4. \A i \in DOMAIN input : input'[i] = input[i]
    BY <1>1, <2>3, AppendProperties
  <2>5. QED
    BY <2>1, <2>2, <2>4
<1>3. Len(input) + 1 \in Int /\ Len(input) <= Len(input) + 1
  BY <1>1
<1>4. Longer(input', input)
  <2>1. DOMAIN input = 1..Len(input)
    BY <1>1, LenProperties
  <2>2. QED
    BY <1>2, <1>3, <2>1, Zenon DEF Longer
<1>5. x.kind # "NR"
  BY <1>1 DEF Lexemes
<1>6. QED
  BY <1>1, <1>2, <1>3, <1>4, <1>5, Zenon

\* At the start of a text no matcher is offered.
LEMMA AbnfOffers ==
  ASSUME At("abnf", "open"), NEW y \in Offered(1)
  PROVE  y = "ZZ"
<1>1. PICK m \in DOMAIN Alternatives : 1 <= Len(Alternatives[m].s) /\ y \in Alternatives[m].s[1]
  BY DEF Offered
<1>2. /\ DOMAIN Alternatives = 1..2
      /\ Is1(Alternatives[1], {"ZZ"}, 0, "", "", "", "")
      /\ Is0(Alternatives[2], 0, "prod", "", "", "")
  BY AbnfOpen, Zenon DEF At
<1>3. ~(1 <= 0)
  OBVIOUS
<1>4. m = 1 \/ m = 2
  BY <1>1, <1>2, UpToFour, Zenon
<1>5. y \in {"ZZ"}
  BY <1>1, <1>2, <1>3, <1>4, Zenon DEF Is0, Is1
<1>6. QED
  BY <1>5

\* Where no token has been lexed, and the last lexeme is a name.
LEMMA LexesName ==
  ASSUME Held, status = "run", Fine, Consumed # 0, ~(Len(la) >= 1), Kind(Consumed) \in {"TX", "PV"}
  PROVE  Kind(Consumed - 1) \in Counts
<1>1. Top.rule \in RuleNames /\ Top.phase \in {"open", "close"}
  BY Sizes
<1>2. Shape /\ Sees
  BY Zenon DEF Fine, Good, Sharp
<1>3. /\ ~At("abnf", "open") /\ ~At("abnf", "close") /\ ~At("prod", "open") /\ ~At("prod", "close")
      /\ ~At("alts", "close") /\ ~At("elem", "open") /\ ~At("atom", "open")
      /\ ~(At("atom", "close") /\ Top.grp # "")
  <2>1. ~Stopped(la)
    BY Zenon DEF Stopped
  <2>2. ~HeaderNext(la)
    <3>1. Len(la) \in Nat
      BY Sizes
    <3>2. ~(Len(la) >= 2)
      BY <3>1
    <3>3. QED
      BY <3>2, Zenon DEF HeaderNext
  <2>3. QED
    BY <1>2, <2>1, <2>2, Zenon DEF Shape
<1>4. ~At("alts", "open") /\ ~At("seq", "open")
  BY <1>2 DEF Sees
<1>5. LeafRead
  BY <1>1, <1>3, <1>4 DEF LeafRead, At, RuleNames
<1>6. QED
  BY <1>2, <1>5, Zenon DEF Sees

\* An `=' that is read where no rule has asked for it.
LEMMA LexDefine ==
  ASSUME Held, status = "run", Fine, NEW x, NEW kind, Adds(x, kind),
         ~(Consumed < Len(input)), x.kind \in Defines
  PROVE  Dead(input')
<1>1. /\ input' \in Seq(Lexemes) /\ Len(input') = Len(input) + 1 /\ Len(input) \in Nat
      /\ KindAt(input', Len(input) + 1) = x.kind
      /\ \A i \in Int : i # Len(input) + 1 => KindAt(input', i) = KindAt(input, i)
  BY AddsText
<1>2. Consumed \in Nat /\ Consumed <= Len(input) /\ Consumed = Len(input)
  <2>1. Consumed \in Nat /\ Consumed <= Len(input)
    BY Sizes
  <2>2. Len(input) <= Consumed /\ Consumed \in Int /\ Len(input) \in Int
    BY <1>1, <2>1
  <2>3. QED
    BY <2>1, <2>2, Same, Zenon
<1>3. ~(Len(la) >= 1)
  BY NewPlace, Zenon
<1>4. CASE Consumed = 0
  <2>1. KindAt(input', 1) = x.kind /\ 1 \in 1..Len(input')
    <3>1. Len(input) + 1 = 1 /\ 1 \in 1..Len(input')
      BY <1>1, <1>2, <1>4
    <3>2. QED
      BY <1>1, <3>1, Zenon
  <2>2. KindAt(input', 1) \notin {"TX", "PV", "NV"}
    BY <2>1 DEF Defines
  <2>3. Wrong(input', 1)
    BY <2>2, Zenon DEF Wrong
  <2>4. QED
    BY <1>1, <2>1, <2>3, WrongIsDead, Zenon
<1>5. CASE Consumed # 0
  <2>1. PICK c \in Nat : c = Consumed /\ c = Len(input)
    BY <1>2
  <2>2. Consumed >= 2
    BY <1>5, Zenon DEF Fine, Sharp
  <2>3. /\ c \in 1..Len(input') /\ c + 1 \in 1..Len(input') /\ c \in Int /\ c - 1 \in Int
        /\ c # Len(input) + 1 /\ c - 1 # Len(input) + 1 /\ c # 1
    BY <1>1, <2>1, <2>2
  <2>4. KindAt(input', c) = Kind(Consumed) /\ KindAt(input', c - 1) = Kind(Consumed - 1)
    BY <1>1, <2>1, <2>3, Zenon DEF Kind
  <2>5. KindAt(input', c + 1) \in Defines
    BY <1>1, <2>1, Zenon
  <2>6. IsHeader(input', c) => KindAt(input', c - 1) \in Counts
    <3>1. IsHeader(input', c) => KindAt(input', c) = "TX" \/ KindAt(input', c) = "PV"
      BY <2>3, Zenon DEF IsHeader
    <3>2. IsHeader(input', c) => Kind(Consumed) \in {"TX", "PV"}
      BY <2>4, <3>1
    <3>3. QED
      BY <1>3, <1>5, <2>4, <3>2, LexesName, Zenon
  <2>7. QED
    BY <1>1, <2>3, <2>5, <2>6, DefineIsDead, Zenon
<1>6. QED
  BY <1>4, <1>5

LEMMA TwoCases ==
  ASSUME NEW size \in Nat
  PROVE  /\ ~(size >= 1) => size = 0 /\ size + 1 = 1 /\ ~(size + 1 >= 2)
         /\ size >= 1 => 1 \in 1..size
         /\ size >= 2 => 1 \in 1..size /\ 2 \in 1..size
         /\ size >= 1 /\ ~(size >= 2) => size = 1 /\ size + 1 = 2
         /\ size + 1 >= 1 /\ (size >= 1 => size + 1 >= 2)
OBVIOUS

\* The first lexemes.
LEMMA LexBegins ==
  ASSUME Held, status = "run", Fine, NEW x, NEW kind, Adds(x, kind), Consumed = 0
  PROVE  Begins'
<1>1. /\ Len(la) \in Nat /\ Len(la') = Len(la) + 1 /\ la'[Len(la) + 1] = kind
      /\ \A k \in 1..Len(la) : la'[k] = la[k]
      /\ kind = Lexed(x.kind, Offered(Len(la) + 1))
  BY Sizes, Zenon DEF Adds
<1>2. Begins /\ Shape /\ (At("abnf", "open") \/ At("prod", "open"))
  BY Zenon DEF Fine, Sharp, Good, Shape
<1>3. /\ \A k \in 1..Len(la) : KindAt(input', Consumed + k) = Kind(Consumed + k)
      /\ KindAt(input', Consumed + (Len(la) + 1)) = x.kind
  BY KindsAdded
<1>4. \A k \in Nat : Consumed + k = k
  OBVIOUS
<1>5. /\ ~(Len(la) >= 1) => Len(la) = 0 /\ Len(la) + 1 = 1 /\ ~(Len(la) + 1 >= 2)
      /\ Len(la) >= 1 => 1 \in 1..Len(la)
      /\ Len(la) >= 2 => 1 \in 1..Len(la) /\ 2 \in 1..Len(la)
      /\ Len(la) >= 1 /\ ~(Len(la) >= 2) => Len(la) = 1 /\ Len(la) + 1 = 2
      /\ Len(la) + 1 >= 1 /\ (Len(la) >= 1 => Len(la) + 1 >= 2)
      /\ 1 \in Nat /\ 2 \in Nat
  BY <1>1, TwoCases
<1>6. \/ kind = x.kind
      \/ x.kind \in Matched /\ kind = IF x.kind = "NUM" THEN "NR" ELSE "TX"
  BY TokenAdded, Zenon
<1>7. \/ la'[1] = KindAt(input', 1) /\ la'[1] \notin Matched
      \/ la'[1] = "NR" /\ KindAt(input', 1) = "NUM"
      \/ la'[1] = "TX" /\ KindAt(input', 1) \in Matched
  <2>1. CASE Len(la) >= 1
    <3>1. la'[1] = la[1] /\ KindAt(input', 1) = Kind(1)
      BY <1>1, <1>3, <1>4, <1>5, <2>1, Zenon
    <3>2. QED
      BY <1>2, <2>1, <3>1, Zenon DEF Begins
  <2>2. CASE ~(Len(la) >= 1)
    <3>1. la'[1] = kind /\ KindAt(input', 1) = x.kind /\ kind = Lexed(x.kind, Offered(1))
      BY <1>1, <1>3, <1>4, <1>5, <2>2, Zenon
    <3>2. At("abnf", "open")
      BY <1>2, <2>2, Zenon DEF Begins
    <3>3. CASE x.kind \in Matched
      <4>1. "ZZ" \notin Matched
        BY DEF Matched
      <4>2. x.kind \notin Offered(1)
        BY <3>2, <3>3, <4>1, AbnfOffers, Zenon
      <4>3. kind = IF x.kind = "NUM" THEN "NR" ELSE "TX"
        BY <3>1, <3>3, <4>2, Zenon DEF Lexed
      <4>4. QED
        BY <3>1, <3>3, <4>3
    <3>4. CASE x.kind \notin Matched
      BY <1>6, <3>1, <3>4, Zenon
    <3>5. QED
      BY <3>3, <3>4
  <2>3. QED
    BY <2>1, <2>2
<1>8. Len(la') >= 2 => la'[2] = KindAt(input', 2) \/ KindAt(input', 2) \in Matched
  <2>1. CASE Len(la) >= 2
    <3>1. la'[2] = la[2] /\ KindAt(input', 2) = Kind(2)
      BY <1>1, <1>3, <1>4, <1>5, <2>1, Zenon
    <3>2. QED
      BY <1>2, <2>1, <3>1, Zenon DEF Begins
  <2>2. CASE Len(la) >= 1 /\ ~(Len(la) >= 2)
    <3>1. la'[2] = kind /\ KindAt(input', 2) = x.kind
      BY <1>1, <1>3, <1>4, <1>5, <2>2, Zenon
    <3>2. QED
      BY <1>6, <3>1, Zenon
  <2>3. CASE ~(Len(la) >= 1)
    BY <1>1, <1>5, <2>3, Zenon
  <2>4. QED
    BY <2>1, <2>2, <2>3
<1>9. Len(la') >= 1
  BY <1>1, <1>5, Zenon
<1>10. QED
  BY <1>7, <1>8, <1>9, Zenon DEF Begins, Kind

\* Every further lexeme is read as the token it is.
LEMMA LexExact ==
  ASSUME NEW n, Runs(n), NoBad, Proper(input), Fine, NEW alt, alt = Alternatives[n], Lex(alt),
         NEW x, NEW kind, Adds(x, kind), Consumed # 0
  PROVE  Dead(input') \/ (Exact' /\ Consumed' >= 2)
<1>1. Live(n) /\ Held /\ status = "run"
  BY FineIsWell DEF Runs
<1>2. Exact /\ Consumed >= 2
  BY Zenon DEF Fine, Sharp
<1>3. /\ x \in NextLexemes /\ kind = Lexed(x.kind, Offered(Len(la) + 1))
      /\ Len(la') = Len(la) + 1 /\ la'[Len(la) + 1] = kind
      /\ \A k \in 1..Len(la) : la'[k] = la[k]
      /\ Consumed' = Consumed
  BY Zenon DEF Adds
<1>4. \/ kind = x.kind
      \/ /\ Len(la) = 3 /\ kind = "NR"
         /\ la[1] = "NUM" /\ la[2] = "STAR" /\ la[3] = "NUM"
  BY <1>1, <1>3, LexTokens, Zenon
<1>5. /\ \A k \in 1..Len(la) : KindAt(input', Consumed + k) = Kind(Consumed + k)
      /\ KindAt(input', Consumed + (Len(la) + 1)) = x.kind
  BY <1>1, KindsAdded
<1>6. /\ Len(la) \in Nat /\ Consumed + (Len(la) + 1) = Len(input) + 1 /\ Consumed \in Nat
      /\ \A k \in 1..(Len(la) + 1) : k \in 1..Len(la) \/ k = Len(la) + 1
  BY <1>1, NewPlace, Sizes
<1>7. \/ kind = x.kind
      \/ x.kind \in Matched /\ kind = IF x.kind = "NUM" THEN "NR" ELSE "TX"
  BY TokenAdded, Zenon
<1>8. CASE kind = x.kind
  <2>1. \A k \in 1..(Len(la) + 1) : la'[k] = KindAt(input', Consumed + k)
    BY <1>2, <1>3, <1>5, <1>6, <1>8, Zenon DEF Exact
  <2>2. QED
    BY <1>2, <1>3, <2>1, Zenon DEF Exact, Kind
<1>9. CASE Len(la) = 3 /\ kind = "NR" /\ kind # x.kind /\ la[3] = "NUM"
  <2>1. x.kind = "NUM"
    <3>1. "NR" # "TX"
      OBVIOUS
    <3>2. /\ kind # x.kind /\ kind = "NR"
          /\ kind = x.kind \/ kind = IF x.kind = "NUM" THEN "NR" ELSE "TX"
      BY <1>7, <1>9, Zenon
    <3>3. QED
      BY <3>1, <3>2
  <2>2. /\ input' \in Seq(Lexemes) /\ Len(input') = Len(input) + 1 /\ Len(input) \in Nat
    BY <1>1, AddsText
  <2>3. PICK i \in 1..Len(input') : i = Consumed + 4 /\ i - 1 = Consumed + 3
    BY <1>6, <1>9, <2>2
  <2>4. 3 \in 1..Len(la) /\ Len(la) + 1 = 4
    BY <1>9
  <2>5. KindAt(input', i) = "NUM" /\ KindAt(input', i - 1) = "NUM"
    BY <1>2, <1>5, <1>9, <2>1, <2>3, <2>4, Zenon DEF Exact
  <2>6. "NUM" \in Counts
    BY DEF Counts
  <2>7. Wrong(input', i)
    BY <2>5, <2>6, Zenon DEF Wrong, Repeats
  <2>8. QED
    BY <2>2, <2>7, WrongIsDead, Zenon
<1>10. QED
  BY <1>4, <1>8, <1>9

\* What the rules have seen they still see.
LEMMA LexSees ==
  ASSUME Held, status = "run", Fine, NEW x, NEW kind, Adds(x, kind)
  PROVE  Sees'
<1>1. /\ Len(la) \in Nat /\ Len(la') = Len(la) + 1 /\ Consumed' = Consumed /\ stack' = stack
      /\ \A k \in 1..Len(la) : la'[k] = la[k]
  BY Sizes, Zenon DEF Adds
<1>2. Sees /\ Shape
  BY Zenon DEF Fine, Sharp, Good
<1>3. Top' = Top
  BY <1>1 DEF Top
<1>4. KindAt(input', Consumed') = Kind(Consumed)
  <2>1. Consumed \in Nat /\ Consumed <= Len(input) /\ Len(input) \in Nat
    BY Sizes
  <2>2. Consumed \in Int /\ Consumed # Len(input) + 1
    BY <2>1
  <2>3. QED
    BY <1>1, <2>2, AddsText, Zenon DEF Kind
<1>5. /\ Len(la) >= 1 => la'[1] = la[1]
      /\ Len(la') >= 1
      /\ Len(la) >= 1 => Len(la') >= 2
      /\ Len(la) >= 2 => la'[2] = la[2]
  BY <1>1
<1>6. Len(la) >= 2 /\ HeaderNext(la') => HeaderNext(la)
  <2>1. Len(la) >= 2 => Len(la) >= 1
    BY <1>1
  <2>2. QED
    BY <1>5, <2>1, Zenon DEF HeaderNext
<1>7. At("alts", "open") \/ At("seq", "open")
        => KindAt(input', Consumed') \in {"DEF", "DEFA", "LP", "OB", "ALT"}
  BY <1>2, <1>4, Zenon DEF Sees
<1>8. At("elem", "open") => ElementNext(la')
  <2>1. ElementNext(la) => ElementNext(la')
    BY <1>5, <1>6, Zenon DEF ElementNext
  <2>2. QED
    BY <1>2, <2>1, Zenon DEF Sees
<1>9. At("atom", "open") /\ la'[1] \in {"TX", "PV"} /\ (~(Len(la') >= 2) \/ HeaderNext(la'))
        => KindAt(input', Consumed') \in Counts
  <2>1. At("atom", "open") => Len(la) >= 1
    BY <1>2, Zenon DEF Shape
  <2>2. QED
    BY <1>2, <1>4, <1>5, <1>6, <2>1, Zenon DEF Sees
<1>10. At("prod", "close") => la'[1] # "ALT"
  <2>1. At("prod", "close") => Len(la) >= 1
    BY <1>2, Zenon DEF Shape, Stopped
  <2>2. QED
    BY <1>2, <1>5, <2>1, Zenon DEF Sees
<1>11. At("abnf", "close") => la'[1] \in {"ZZ", "RP", "CB"}
  BY <1>2, <1>5, Zenon DEF Sees, Shape
<1>12. QED
  BY <1>3, <1>5, <1>7, <1>8, <1>9, <1>10, <1>11, Zenon DEF Sees, At, Kind

-----------------------------------------------------------------------------
(* The next lexeme.                                                        *)

\* The first token after what has been consumed is one that may come there.
LEMMA LexNotStuck ==
  ASSUME NEW n, Runs(n), NoBad, Proper(input), Fine, NEW alt, alt = Alternatives[n], Lex(alt),
         NEW x, NEW kind, Adds(x, kind), Consumed < Len(input) \/ x.kind \notin Defines
  PROVE  Dead(input') \/ ~Stuck'
<1>1. /\ Held /\ status = "run" /\ Shape /\ ~Stuck
  BY Zenon DEF Runs, Fine, Good
<1>2. /\ Len(la) \in Nat /\ Len(la') = Len(la) + 1 /\ la'[Len(la) + 1] = kind
      /\ \A k \in 1..Len(la) : la'[k] = la[k]
      /\ stack' = stack /\ Consumed' = Consumed
      /\ kind = Lexed(x.kind, Offered(Len(la) + 1))
  BY <1>1, Sizes, Zenon DEF Adds
<1>3. Top' = Top
  BY <1>2 DEF Top
<1>4. CASE Len(la) >= 1
  <2>1. la'[1] = la[1]
    BY <1>2, <1>4
  <2>2. QED
    BY <1>1, <1>3, <1>4, <2>1, Zenon DEF Stuck, At
<1>5. CASE ~(Len(la) >= 1)
  <2>1. Len(la) + 1 = 1
    BY <1>2, <1>5
  <2>2. la'[1] = kind
    BY <1>2, <2>1, Zenon
  <2>3. ~(Top'.rule = "atom" /\ Top'.phase = "open")
    BY <1>1, <1>3, <1>5, Zenon DEF Shape, At
  <2>4. x.kind \notin Defines
    <3>1. ~(Consumed < Len(input))
      <4>1. /\ Len(la) \in Nat /\ Len(input) \in Nat /\ Consumed + Len(la) = Len(input)
            /\ Consumed \in 0..Len(input)
        BY <1>1, NewPlace, Zenon
      <4>2. QED
        BY <1>5, <4>1
    <3>2. QED
      BY <3>1
  <2>5. kind = x.kind \/ (x.kind \in Matched /\ kind = IF x.kind = "NUM" THEN "NR" ELSE "TX")
    BY TokenAdded, Zenon
  <2>6. /\ input' \in Seq(Lexemes) /\ Len(input') = Len(input) + 1 /\ Len(input) \in Nat
        /\ KindAt(input', Len(input) + 1) = x.kind /\ x.kind # "NR"
    BY <1>1, AddsText
  <2>7. CASE kind = "NR"
    <3>1. x.kind = "NUM"
      BY <2>5, <2>6, <2>7
    <3>2. CASE Consumed = 0
      <4>1. Len(input) + 1 = 1
        <5>1. Consumed + (Len(la) + 1) = Len(input) + 1
          BY <1>1, NewPlace, Zenon
        <5>2. QED
          BY <2>1, <3>2, <5>1
      <4>2. KindAt(input', 1) = "NUM" /\ 1 \in 1..Len(input')
        BY <2>6, <3>1, <4>1
      <4>3. KindAt(input', 1) \notin {"TX", "PV", "NV"}
        BY <4>2
      <4>4. Wrong(input', 1)
        BY <4>3, Zenon DEF Wrong
      <4>5. QED
        BY <2>6, <4>2, <4>4, WrongIsDead, Zenon
    <3>3. CASE Consumed # 0
      <4>1. SUFFICES ASSUME Exact'
                     PROVE  FALSE
        BY <3>3, LexExact, Zenon
      <4>2. KindAt(input', Consumed + (Len(la) + 1)) = x.kind
        BY <1>1, KindsAdded, Zenon
      <4>3. Len(la') = 1 /\ 1 \in 1..1
        BY <1>2, <2>1
      <4>4. la'[1] = KindAt(input', Consumed' + 1)
        BY <4>1, <4>3, Zenon DEF Exact, Kind
      <4>5. kind = x.kind
        BY <1>2, <2>1, <2>2, <4>2, <4>4, Zenon
      <4>6. QED
        BY <2>6, <2>7, <4>5, Zenon
    <3>4. QED
      BY <3>2, <3>3
  <2>8. CASE kind # "NR"
    <3>1. kind \notin Never
      BY <2>4, <2>5, <2>8 DEF Never, Defines
    <3>2. QED
      BY <2>2, <2>3, <3>1, Zenon DEF Stuck, At
  <2>9. QED
    BY <2>7, <2>8
<1>6. QED
  BY <1>4, <1>5

\* A lexeme keeps a parse that goes well, or the text is beyond completion.
LEMMA LexFine ==
  ASSUME NEW n, Runs(n), NoBad, Proper(input), Fine, NEW alt, alt = Alternatives[n], Lex(alt)
  PROVE  Dead(input') \/ (status' = "run" /\ Fine')
<1>1. Live(n) /\ Held /\ status = "run"
  BY FineIsWell DEF Runs
<1>2. PICK x, kind : Adds(x, kind) /\ status' = IF kind = "BD" THEN "error" ELSE "run"
  BY LexFacts, Zenon DEF Adds
<1>3. /\ input' \in Seq(Lexemes) /\ Len(input') = Len(input) + 1 /\ Len(input) \in Nat
      /\ KindAt(input', Len(input) + 1) = x.kind
  BY <1>1, <1>2, AddsText
<1>4. CASE kind = "BD"
  <2>1. x.kind = "BD"
    <3>1. kind = x.kind \/ kind = "NR" \/ kind = "TX"
      BY <1>2, KindAdded, Zenon
    <3>2. QED
      BY <1>4, <3>1
  <2>2. PICK i \in 1..Len(input') : i = Len(input) + 1
    BY <1>3
  <2>3. Wrong(input', i)
    BY <1>3, <2>1, <2>2, Zenon DEF Wrong
  <2>4. QED
    BY <1>3, <2>3, WrongIsDead, Zenon
<1>5. CASE ~(Consumed < Len(input)) /\ x.kind \in Defines
  BY <1>1, <1>2, <1>5, LexDefine, Zenon
<1>6. CASE kind # "BD" /\ (Consumed < Len(input) \/ x.kind \notin Defines)
  <2>1. status' = "run"
    BY <1>2, <1>6
  <2>2. Good'
    BY <1>1, <1>2, <1>6, LexGood, Zenon
  <2>3. ~Holed'
    <3>1. stack' = stack /\ heap' = heap
      BY <1>2, Zenon DEF Adds
    <3>2. Top' = Top
      BY <3>1 DEF Top
    <3>3. QED
      BY <3>1, <3>2, Zenon DEF Fine, Holed, HasHole, Pending, At
  <2>4. Sees'
    BY <1>1, <1>2, LexSees, Zenon
  <2>5. Consumed' = Consumed
    BY <1>2, Zenon DEF Adds
  <2>6. Dead(input') \/ Sharp'
    <3>1. CASE Consumed = 0
      BY <1>1, <1>2, <2>4, <2>5, <3>1, LexBegins, Zenon DEF Sharp
    <3>2. CASE Consumed # 0
      <4>1. Begins'
        BY <2>5, <3>2, Zenon DEF Begins
      <4>2. QED
        BY <1>2, <2>4, <3>2, <4>1, LexExact, Zenon DEF Sharp
    <3>3. QED
      BY <3>1, <3>2
  <2>7. Dead(input') \/ ~Stuck'
    BY <1>2, <1>6, LexNotStuck, Zenon
  <2>8. QED
    BY <2>1, <2>2, <2>3, <2>6, <2>7, Zenon DEF Fine
<1>7. QED
  BY <1>4, <1>5, <1>6

-----------------------------------------------------------------------------
(* The invariant.                                                          *)

\* The invariant holds of the empty text, which no lexeme has made wrong.
LEMMA DeadStarts ==
  ASSUME Init
  PROVE  DeadInv
<1>1. /\ input = <<>> /\ la = <<>> /\ status = "run" /\ heap = << <<>> >>
      /\ Top.rule = "abnf" /\ Top.phase = "open"
  BY DEF Init, Top
<1>2. Len(la) = 0 /\ Len(input) = 0 /\ Consumed = 0
  BY <1>1 DEF Consumed
<1>3. ~(Len(la) >= 1) /\ ~(Len(la) >= 2)
  BY <1>2
<1>4. /\ At("abnf", "open") /\ ~At("abnf", "close") /\ ~At("prod", "open")
      /\ ~At("prod", "close") /\ ~At("alts", "open") /\ ~At("seq", "open")
      /\ ~At("seq", "close") /\ ~At("elem", "open") /\ ~At("elem", "close")
      /\ ~At("atom", "open") /\ ~At("atom", "close")
  BY <1>1 DEF At
<1>5. ~Stuck /\ ~Empty
  BY <1>3, <1>4, Zenon DEF Stuck, Empty
<1>6. ~Holed
  <2>1. ~HasHole
    BY <1>1 DEF HasHole
  <2>2. QED
    BY <1>4, <2>1, Zenon DEF Holed, Pending
<1>7. Good
  BY <1>1, <1>5, <1>6, ParseStarts, Zenon DEF ParseInv, Reading
<1>8. Sharp
  BY <1>2, <1>3, <1>4, Zenon DEF Sharp, Begins, Sees, LeafRead
<1>9. Fine
  BY <1>5, <1>6, <1>7, <1>8, Zenon DEF Fine
<1>10. status \notin {"error", "numeric"} /\ status # "done"
  BY <1>1
<1>11. QED
  BY <1>9, <1>10, Zenon DEF DeadInv

\* A text that is beyond completion stays so.
LEMMA DeadByLex ==
  ASSUME NEW n, Runs(n), NEW alt, alt = Alternatives[n], Lex(alt), Dead(input)
  PROVE  Dead(input')
<1>1. Held /\ status = "run"
  BY DEF Runs
<1>2. PICK x, kind : Adds(x, kind)
  BY LexFacts, Zenon DEF Adds
<1>3. Longer(input', input) /\ Len(input') = Len(input) + 1 /\ Len(input) \in Nat
  BY <1>1, <1>2, AddsText, Zenon
<1>4. Len(input') \in Nat
  BY <1>3
<1>5. QED
  BY <1>3, <1>4, DeadStays, Zenon

LEMMA ActsText ==
  ASSUME NEW alt, Acts(alt)
  PROVE  input' = input
<1>1. Fires(alt)
  BY DEF Acts, PushRule, EndOpen, ReplaceRule, PopRule, Accept, Ends
<1>2. QED
  BY <1>1 DEF Fires

\* It is kept by every step.
LEMMA DeadKeeps ==
  ASSUME Held, ParseInv, DeadInv, [Next]_vars
  PROVE  DeadInv'
<1>1. CASE UNCHANGED vars
  <2>1. UNCHANGED <<input, la, stack, heap, status>>
    BY <1>1 DEF vars
  <2>2. Top' = Top /\ Consumed' = Consumed /\ Unclosed' = Unclosed
    BY <2>1 DEF Top, Consumed, Unclosed
  <2>3. Fine' = Fine
    <3>1. Good' = Good
      BY <2>1, <2>2, Zenon DEF Good, Accurate, Shape, Nest, Waiting, Kind, At
    <3>2. Sharp' = Sharp
      BY <2>1, <2>2, Zenon DEF Sharp, Begins, Sees, LeafRead, Exact, Kind, At
    <3>3. Holed' = Holed /\ Stuck' = Stuck
      BY <2>1, <2>2, Zenon DEF Holed, HasHole, Pending, Stuck, At
    <3>4. QED
      BY <3>1, <3>2, <3>3, Zenon DEF Fine
  <2>4. Exact' = Exact
    BY <2>1, <2>2, Zenon DEF Exact, Kind
  <2>5. QED
    BY <2>1, <2>3, <2>4, Zenon DEF DeadInv
<1>2. ASSUME status = "run", NEW n \in DOMAIN Alternatives, First(n), Step(Alternatives[n])
      PROVE  DeadInv'
  <2>1. Runs(n) /\ NoBad /\ Proper(input) /\ (Dead(input) \/ Fine)
    BY <1>2, Zenon DEF Runs, ParseInv, DeadInv
  <2>2. SUFFICES Dead(input') \/ (status' = "run" /\ Fine') \/ (status' = "done" /\ Exact')
    <3>1. "run" \notin {"error", "numeric"} /\ "run" # "done"
          /\ "done" \notin {"error", "numeric"}
      OBVIOUS
    <3>2. QED
      BY <3>1, Zenon DEF DeadInv
  <2>3. CASE Lex(Alternatives[n])
    BY <2>1, <2>3, LexFine, DeadByLex, Zenon
  <2>4. CASE Acts(Alternatives[n])
    <3>1. input' = input
      BY <2>4, ActsText, Zenon
    <3>2. SUFFICES ASSUME ~Dead(input), Fine
                   PROVE  (status' = "run" /\ Fine') \/ (status' = "done" /\ Exact')
      BY <2>1, <3>1, Zenon
    <3>3. CASE At("abnf", "close")
      BY <2>1, <2>4, <3>2, <3>3, EndsExact, Zenon
    <3>4. CASE ~At("abnf", "close")
      <4>1. Fine'
        BY <2>1, <2>4, <3>2, <3>4, ActsFine, Zenon
      <4>2. status' = "run"
        <5>1. Held /\ status = "run"
          BY <2>1 DEF Runs
        <5>2. ~Accept(Alternatives[n])
          BY <2>1, <3>4, <5>1, AcceptsAtEnd, Zenon
        <5>3. QED
          BY <2>4, <5>1, <5>2, GoesOn, Zenon
      <4>3. QED
        BY <4>1, <4>2
    <3>5. QED
      BY <3>3, <3>4
  <2>5. CASE ThrowNumeric(Alternatives[n])
    <3>1. input' = input
      BY <2>5 DEF ThrowNumeric
    <3>2. QED
      BY <2>1, <2>5, <3>1, ThrowsDead, Zenon
  <2>6. QED
    BY <1>2, <2>3, <2>4, <2>5, Zenon DEF Step, Acts
<1>3. CASE Reject
  <2>1. /\ status = "run" /\ Candidates = {} /\ status' = "error" /\ input' = input
    BY <1>3 DEF Reject
  <2>2. Dead(input)
    BY <2>1, RejectsDead, Zenon DEF ParseInv, DeadInv
  <2>3. QED
    BY <2>1, <2>2, Zenon DEF DeadInv
<1>4. CASE Ended
  BY <1>1, <1>4 DEF Ended
<1>5. QED
  BY <1>1, <1>2, <1>3, <1>4 DEF Next

\* DeadInv, which Held and ParseInv make inductive, holds of every parse.
LEMMA DeadIsFound == Spec => [](Held /\ ParseInv /\ DeadInv)
<1>1. Spec => [](Held /\ ParseInv)
  BY ParseIsSound
<1>2. Init => DeadInv
  BY DeadStarts
<1>3. Held /\ ParseInv /\ DeadInv /\ [Next]_vars => DeadInv'
  BY DeadKeeps
<1>4. QED
  BY <1>1, <1>2, <1>3, PTL DEF Spec

\* The parser gives up, by an error or by a numeric value that throws, only on
\* a text that no continuation brings into the language.
THEOREM OnlyDeadTextsAreRejected == Spec => []RejectsOnlyDeadTexts
<1>1. ASSUME Held, ParseInv, DeadInv
      PROVE  RejectsOnlyDeadTexts
  <2>1. input \in Seq(Lexemes) /\ Proper(input)
    BY <1>1, TextIs, Zenon DEF Held, ParseInv
  <2>2. QED
    BY <1>1, <2>1, DeadIsNotCompletable, Zenon DEF DeadInv, RejectsOnlyDeadTexts
<1>2. QED
  BY <1>1, DeadIsFound, PTL

\* In a text that can still be completed every lexeme but the first reaches
\* the rules as the token it is.
THEOREM TokensAreAsMeant == Spec => []LexedAsMeant
<1>1. ASSUME Held, ParseInv, DeadInv
      PROVE  LexedAsMeant
  <2>1. SUFFICES ASSUME NEW k \in DOMAIN la, Consumed + k > 1, la[k] # input[Consumed + k].kind
                 PROVE  ~Completable(input)
    BY DEF LexedAsMeant
  <2>2. input \in Seq(Lexemes) /\ Proper(input)
    BY <1>1, TextIs, Zenon DEF Held, ParseInv
  <2>3. SUFFICES Dead(input)
    BY <2>2, DeadIsNotCompletable, Zenon
  <2>4. /\ Len(la) \in Nat /\ Len(input) \in Nat /\ Len(la) <= Len(input)
        /\ Consumed = Len(input) - Len(la) /\ la \in Seq(Kinds)
    BY <1>1, Sizes DEF Consumed, Held, TypeOK
  <2>5. k \in 1..Len(la) /\ DOMAIN input = 1..Len(input)
    BY <2>2, <2>4, LenProperties
  <2>6. Kind(Consumed + k) = input[Consumed + k].kind
    <3>1. Consumed + k \in DOMAIN input
      BY <2>4, <2>5
    <3>2. QED
      BY <3>1 DEF Kind, KindAt
  <2>7. ~Exact
    BY <2>1, <2>5, <2>6, Zenon DEF Exact
  <2>8. status \in {"run", "done", "error", "numeric"}
    BY <1>1 DEF Held, TypeOK
  <2>9. SUFFICES ASSUME Fine
                 PROVE  Dead(input)
    BY <1>1, <2>7, <2>8 DEF DeadInv
  <2>10. Consumed = 0 /\ Begins /\ Accurate
    BY <2>7, <2>9, Zenon DEF Fine, Sharp, Good
  <2>11. k = 2 /\ Len(la) >= 2 /\ 2 \in 1..Len(input)
    <3>1. Len(la) <= 2
      BY <2>10, Zenon DEF Accurate
    <3>2. QED
      BY <2>1, <2>4, <2>5, <2>10, <3>1
  <2>12. Kind(2) \in Matched
    <3>1. Consumed + 2 = 2
      BY <2>10
    <3>2. la[2] # Kind(2)
      BY <2>1, <2>6, <2>11, <3>1, Zenon
    <3>3. QED
      BY <2>10, <2>11, <3>2, Zenon DEF Begins
  <2>13. Wrong(input, 2)
    <3>1. Kind(2) \notin Defines
      BY <2>12 DEF Matched, Defines
    <3>2. QED
      BY <3>1, Zenon DEF Wrong, Kind
  <2>14. QED
    BY <2>2, <2>11, <2>13, WrongIsDead, Zenon
<1>2. QED
  BY <1>1, DeadIsFound, PTL
=============================================================================
