----------------------------- MODULE MetaParser -----------------------------
(***************************************************************************)
(* The ABNF meta-parser of ts/src/converter.ts: the table abnfRules, run   *)
(* by the rule engine of @tabnas/parser over the lexemes of an ABNF text.  *)
(*                                                                         *)
(* The engine is a stack of rule instances (frames).  A frame is in its    *)
(* open or its close phase and takes the first alternative of its rule     *)
(* whose tokens are the next ones.  An alternative may give tokens back    *)
(* (b), push a child rule (p) or replace the frame (r); without either the *)
(* open phase goes on to the close phase and the close phase pops.         *)
(* Results travel by reference: a child frame starts with its parent's     *)
(* node, so an array is an index into `heap'.                              *)
(*                                                                         *)
(* Lexing is driven by the grammar: the matchers of #NUM, #NV, #SS, #SI    *)
(* and #PV are tried at lookahead position k only when an alternative of   *)
(* the current rule and phase names them there.  Lexemes are read on       *)
(* demand, so `input' is at once the environment's choice and its history. *)
(***************************************************************************)
EXTENDS Integers, Sequences, FiniteSets

CONSTANTS
  Alphabet,     (* the lexemes a text may hold: records [kind, val]        *)
  MaxLexemes    (* bound: the lexemes of a text, its end not counted       *)

VARIABLES
  input,        (* the lexemes read so far                                 *)
  la,           (* token kinds lexed and not yet consumed                  *)
  stack,        (* rule frames, the running one last                       *)
  heap,         (* the arrays allocated so far                             *)
  status        (* "run", "done", "error" (engine) or "numeric" (thrown)   *)

vars == <<input, la, stack, heap, status>>

Fixed   == {"DEF", "DEFA", "ALT", "STAR", "LP", "RP", "OB", "CB", "ST", "ZZ"}
Matched == {"NUM", "NV", "SS", "SI", "PV"}
Kinds   == Fixed \union Matched \union {"TX", "NR", "BD"}

\* A #NV has the value 0, or Fault when a code point is outside %x0-10FFFF.
Fault == 1

ASSUME ParserAssumption ==
  /\ Alphabet \subseteq [kind : (Kinds \ {"ZZ", "NR"}), val : Nat]
  /\ \A x \in Alphabet : x.kind = "NV" => x.val \in {0, Fault}
  /\ MaxLexemes \in Nat

-----------------------------------------------------------------------------
(* Nodes: references to arrays, elements, productions and `undefined'.     *)

Unbounded == -1

Node(kind, at, ref) == [kind |-> kind, at |-> at, ref |-> ref, min |-> 1, max |-> 1]

Arr(id)   == Node("arr", 0, id)
Undefined == Node("undefined", 0, 0)

-----------------------------------------------------------------------------
(* The alternatives.  s: the sets of token kinds matched in order;         *)
(* b: tokens given back; p, r: the rule pushed or put in place; c: the     *)
(* group kind the condition asks for; a: the name of the action.           *)

Alt(s, b, p, a) == [s |-> s, b |-> b, p |-> p, r |-> "", c |-> "", a |-> a]
Push(s, b, p, a) == Alt(s, b, p, a)
Leave(s, b)      == Alt(s, b, "", "")
Replace(s, b, r) == [Alt(s, b, "", "") EXCEPT !.r = r]
\* Mutants: a bracket's kind is not compared; its end yields no node.
Close_AnyKind(k, grp, a)  == Alt(<<{k}>>, 0, "", a)
Close_NoResult(k, grp, a) == [Alt(<<{k}>>, 0, "", "") EXCEPT !.c = grp]

Close(k, grp, a) == [Alt(<<{k}>>, 0, "", a) EXCEPT !.c = grp]

\* Mutant: prose is no element.
ATOM_NoProse == {"ST", "NV", "TX", "LP", "OB", "SS", "SI"}

ATOM == {"ST", "NV", "TX", "LP", "OB", "SS", "SI", "PV"}

AbnfRule ==
  [open  |-> <<Leave(<<{"ZZ"}>>, 0), Push(<<>>, 0, "prod", "")>>,
   close |-> <<Leave(<<{"ZZ"}>>, 0)>>]

ProdRule ==
  [open  |-> <<Push(<<{"TX"}, {"DEF"}>>,  0, "alts", "define"),
               Push(<<{"PV"}, {"DEF"}>>,  0, "alts", "define"),
               Push(<<{"TX"}, {"DEFA"}>>, 0, "alts", "extend")>>,
   close |-> <<Replace(<<{"TX"}, {"DEF"}>>,  2, "prod"),
               Replace(<<{"TX"}, {"DEFA"}>>, 2, "prod"),
               Replace(<<{"PV"}, {"DEF"}>>,  2, "prod"),
               Leave(<<>>, 1)>>]

\* Mutants: a `/' opens a nested alternation; a `/' is not consumed.
AltsRule_Nests ==
  [open  |-> <<Push(<<>>, 0, "seq", "")>>,
   close |-> <<Push(<<{"ALT"}>>, 0, "alts", ""), Leave(<<>>, 1)>>]

AltsRule ==
  [open  |-> <<Push(<<>>, 0, "seq", "")>>,
   close |-> <<Push(<<{"ALT"}>>, 0, "seq", ""), Leave(<<>>, 1)>>]

\* `name =', `name =/' and `<prose> =' begin the next production.
AtName      == Leave(<<{"TX"}, {"DEF"}>>, 2)
AtNameAgain == Leave(<<{"TX"}, {"DEFA"}>>, 2)
AtProse     == Leave(<<{"PV"}, {"DEF"}>>, 2)

\* Alternatives that are there for the tokens they name in second position.
\* Mutants: they name too little.
NameThenCount_Alone == Push(<<{"TX"}, {"STAR"}>>, 2, "elem", "")
NameThenAtom_Fixed  == Push(<<{"TX"}, {"ST", "TX", "LP", "OB"}>>, 2, "elem", "")

NameThenCount == Push(<<{"TX"}, {"NUM"}>>, 2, "elem", "")
NameThenAtom  == Push(<<{"TX"}, ATOM>>, 2, "elem", "")

AtSeqEnd == Leave(<<{"ALT", "ZZ", "RP", "CB"}>>, 1)
AtElem   == Push(<<ATOM \union {"STAR", "NUM"}>>, 1, "elem", "")

SeqRule ==
  [open  |-> <<AtName, AtNameAgain, NameThenCount, NameThenAtom, AtProse,
               AtSeqEnd, AtElem, Push(<<>>, 0, "elem", "")>>,
   close |-> <<AtName, AtNameAgain, AtProse, NameThenCount, NameThenAtom,
               AtSeqEnd, AtElem, Leave(<<>>, 1)>>]

ElemRule ==
  [open  |-> <<Push(<<{"NUM"}, {"STAR"}, {"NUM"}, ATOM>>, 1, "atom", "m*n"),
               Push(<<{"NUM"}, {"STAR"}, ATOM>>,          1, "atom", "m*"),
               Push(<<{"STAR"}, {"NUM"}, ATOM>>,          1, "atom", "*n"),
               Push(<<{"STAR"}, ATOM>>,                   1, "atom", "*"),
               Push(<<{"NUM"}, ATOM>>,                    1, "atom", "n"),
               Push(<<>>,                                 0, "atom", "")>>,
   close |-> <<Alt(<<>>, 0, "", "append")>>]

AtomRule ==
  [open  |-> <<Alt(<<{"SS", "SI"}, {"ST"}>>, 0, "", "term"),
               Alt(<<{"ST"}>>, 0, "", "term"),
               Alt(<<{"NV"}>>, 0, "", "number"),
               Alt(<<{"PV"}>>, 0, "", "prose"),
               Alt(<<{"TX"}>>, 0, "", "ref"),
               Push(<<{"LP"}>>, 0, "alts", "group"),
               Push(<<{"OB"}>>, 0, "alts", "opt")>>,
   close |-> <<Close("RP", "group", "close"), Close("CB", "opt", "close"),
               Leave(<<ATOM \union {"NUM", "STAR", "RP", "CB", "ALT", "DEF", "ZZ"}>>, 1),
               Leave(<<>>, 1)>>]

RuleNames == {"abnf", "prod", "alts", "seq", "elem", "atom"}

Rules == [abnf |-> AbnfRule, prod |-> ProdRule, alts |-> AltsRule,
          seq  |-> SeqRule,  elem |-> ElemRule, atom |-> AtomRule]

-----------------------------------------------------------------------------
(* Matching.                                                               *)

Top == stack[Len(stack)]

Alternatives == Rules[Top.rule][Top.phase]

\* Nothing lexed so far rules the alternative out.
Fits(alt) ==
  /\ \A k \in DOMAIN alt.s : k <= Len(la) => la[k] \in alt.s[k]
  /\ alt.c # "" => Top.grp = alt.c

Candidates == {n \in DOMAIN Alternatives : Fits(Alternatives[n])}

\* The engine tries the alternatives in order: n is the one it settles on, or
\* the one for which it lexes a further token.
First(n) == n \in Candidates /\ \A m \in Candidates : n <= m

\* The token kinds the lexer is asked to try at lookahead position k.
Offered(k) ==
  UNION {alt.s[k] : alt \in {Alternatives[n] : n \in
    {m \in DOMAIN Alternatives : k <= Len(Alternatives[m].s)}}}

\* A matcher that is not offered leaves its text to the default matchers.
Lexed(kind, offered) ==
  IF kind \notin Matched \/ kind \in offered THEN kind
  ELSE IF kind = "NUM" THEN "NR" ELSE "TX"

Consumed == Len(input) - Len(la)

Rest(alt) ==
  LET taken == IF Len(alt.s) > alt.b THEN Len(alt.s) - alt.b ELSE 0
  IN  SubSeq(la, taken + 1, Len(la))

-----------------------------------------------------------------------------
(* Frames and the rules' bo and bc hooks.                                  *)

\* Mutant: seq appends to the array of its alts.
Owners_SharedSeq == {"abnf", "alts"}

Owners == {"abnf", "alts", "seq"}   (* the rules whose bo makes an array   *)

NewFrame(rule, inherited) ==
  [rule |-> rule, phase |-> "open", grp |-> "", at |-> 0, incr |-> FALSE,
   min |-> 1, max |-> 1, child |-> Undefined,
   node |-> IF rule \in Owners THEN Arr(Len(heap) + 1)
            ELSE IF rule = "atom" THEN Undefined ELSE inherited]

\* The heap once the new frame's bo has run.
HeapAfterBo(rule) == IF rule \in Owners THEN Append(heap, <<>>) ELSE heap

Appended(array, item) == [heap EXCEPT ![array.ref] = Append(@, item)]

\* Mutant: `=/' makes a plain production.
HeapAfterBc_Plain(f) ==
  IF f.child.kind = "undefined" THEN heap
  ELSE IF f.rule = "prod" THEN Appended(f.node, Node("production", f.at, f.child.ref))
  ELSE IF f.rule = "alts" THEN Appended(f.node, f.child)
  ELSE heap

\* The heap once the bc of frame f has run: f's child has just returned.
HeapAfterBc(f) ==
  IF f.child.kind = "undefined" THEN heap
  ELSE IF f.rule = "prod"
       THEN Appended(f.node, Node(IF f.incr THEN "incremental" ELSE "production",
                                  f.at, f.child.ref))
  ELSE IF f.rule = "alts" THEN Appended(f.node, f.child)
  ELSE heap

Num(k) == input[Consumed + k].val

\* The frame after the action of the alternative it takes.
Acted(f, act) ==
  LET here == Consumed + 1
      Leaf(kind)  == [f EXCEPT !.node = Node(kind, here, 0)]
      Times(m, n) == [f EXCEPT !.min = m, !.max = n]
  IN  CASE act = "define" -> [f EXCEPT !.at = here, !.incr = FALSE]
        [] act = "extend" -> [f EXCEPT !.at = here, !.incr = TRUE]
        [] act = "m*n"    -> Times(Num(1), Num(3))
        [] act = "m*"     -> Times(Num(1), Unbounded)
        [] act = "*n"     -> Times(0, Num(2))
        [] act = "*"      -> Times(0, Unbounded)
        [] act = "n"      -> Times(Num(1), Num(1))
        [] act \in {"group", "opt"} -> [f EXCEPT !.grp = act, !.at = here]
        [] act = "close"  -> [f EXCEPT !.node = Node(f.grp, f.at, f.child.ref)]
        [] act \in {"term", "number", "prose", "ref"} -> Leaf(act)
        [] OTHER          -> f

Below(k) == SubSeq(stack, 1, Len(stack) - k)

-----------------------------------------------------------------------------
Init ==
  /\ input = <<>> /\ la = <<>> /\ status = "run"
  /\ heap = << <<>> >>
  /\ stack = <<[rule |-> "abnf", phase |-> "open", grp |-> "", at |-> 0,
                incr |-> FALSE, min |-> 1, max |-> 1, child |-> Undefined,
                node |-> Arr(1)]>>

\* What the text may hold next: `%s' and `%i' are only lexed before a quote.
End == [kind |-> "ZZ", val |-> 0]

NextLexemes ==
  LET last == IF input = <<>> THEN "" ELSE input[Len(input)].kind
  IN  IF last = "ZZ" THEN {End}
      ELSE IF last \in {"SS", "SI"} THEN {x \in Alphabet : x.kind = "ST"}
      ELSE {End} \union (IF Len(input) < MaxLexemes THEN Alphabet ELSE {})

\* The alternative being matched looks at a token that is not lexed yet.
Lex(alt) ==
  /\ Len(la) < Len(alt.s)
  /\ \E x \in NextLexemes :
       LET kind == Lexed(x.kind, Offered(Len(la) + 1))
       IN  /\ input' = Append(input, x)
           /\ la' = Append(la, kind)
           /\ status' = IF kind = "BD" THEN "error" ELSE "run"
  /\ UNCHANGED <<stack, heap>>

\* No alternative matches: the engine raises its error.
Reject ==
  /\ status = "run" /\ Candidates = {}
  /\ status' = "error"
  /\ UNCHANGED <<input, la, stack, heap>>

IsFault(alt) == alt.a = "number" /\ input[Consumed + 1].val = Fault

\* An out-of-range #NV throws from the alternative's action.
ThrowNumeric(alt) ==
  /\ Len(la) >= Len(alt.s) /\ IsFault(alt)
  /\ status' = "numeric"
  /\ UNCHANGED <<input, la, stack, heap>>

Fires(alt) ==
  /\ Len(la) >= Len(alt.s) /\ ~IsFault(alt)
  /\ la' = Rest(alt)
  /\ UNCHANGED input

\* A child is pushed, from the open phase or (alts, seq) from the close one.
PushRule(alt) ==
  /\ Fires(alt) /\ alt.p # ""
  /\ LET f == [Acted(Top, alt.a) EXCEPT !.phase = "close"]
     IN  stack' = Append(Append(Below(1), f), NewFrame(alt.p, f.node))
  /\ heap' = HeapAfterBo(alt.p)
  /\ UNCHANGED status

\* The open phase ends without a child: the close phase follows.
EndOpen(alt) ==
  /\ Fires(alt) /\ alt.p = "" /\ Top.phase = "open"
  /\ stack' = Append(Below(1), [Acted(Top, alt.a) EXCEPT !.phase = "close"])
  /\ UNCHANGED <<heap, status>>

\* Mutant: the replacement starts in the close phase.
ReplaceRule_Closing(alt) ==
  /\ Fires(alt) /\ alt.r # ""
  /\ stack' = Append(Below(1), [NewFrame(alt.r, Top.node) EXCEPT !.phase = "close"])
  /\ UNCHANGED <<heap, status>>

\* prod is replaced by the next prod.
ReplaceRule(alt) ==
  /\ Fires(alt) /\ alt.r # ""
  /\ stack' = Append(Below(1), NewFrame(alt.r, Top.node))
  /\ heap' = HeapAfterBo(alt.r)
  /\ UNCHANGED status

Ends(alt) == Fires(alt) /\ Top.phase = "close" /\ alt.p = "" /\ alt.r = ""

\* Mutant: the repetition bounds stay behind.
ElemAppends_Once == Appended(Top.node, Top.child)

\* elem appends what its atom returned, with its bounds, to the sequence.
ElemAppends ==
  Appended(Top.node, [Top.child EXCEPT !.min = Top.min, !.max = Top.max])

\* A frame ends and its parent's close phase begins with the parent's bc.
PopRule(alt) ==
  /\ Ends(alt) /\ Len(stack) > 1
  /\ LET parent == [stack[Len(stack) - 1] EXCEPT !.child = Acted(Top, alt.a).node]
     IN  /\ stack' = Append(Below(2), parent)
         /\ heap' = IF alt.a = "append" THEN ElemAppends ELSE HeapAfterBc(parent)
  /\ UNCHANGED status

\* abnf pops: the text is parsed and heap[1] holds its productions.
Accept(alt) ==
  /\ Ends(alt) /\ Len(stack) = 1
  /\ stack' = <<>> /\ status' = "done"
  /\ UNCHANGED heap

Step(alt) ==
  \/ Lex(alt) \/ ThrowNumeric(alt) \/ PushRule(alt) \/ EndOpen(alt)
  \/ ReplaceRule(alt) \/ PopRule(alt) \/ Accept(alt)

\* The parse has ended.
Ended == status # "run" /\ UNCHANGED vars

Next ==
  \/ status = "run" /\ \E n \in DOMAIN Alternatives : First(n) /\ Step(Alternatives[n])
  \/ Reject \/ Ended

Spec == Init /\ [][Next]_vars

\* The parser is one synchronous call, which goes on as long as it can.
FairSpec == Spec /\ WF_vars(Next)

-----------------------------------------------------------------------------
NodeKinds == {"arr", "undefined", "production", "incremental",
              "term", "number", "prose", "ref", "group", "opt"}
Nodes  == [kind : NodeKinds, at : Nat, ref : Nat, min : Int, max : Int]
Frames == [rule : RuleNames, phase : {"open", "close"}, grp : {"", "group", "opt"},
           at : Nat, incr : BOOLEAN, min : Int, max : Int, child : Nodes, node : Nodes]

\* The types of the parser's state: the lexemes, the lookahead, the engine's
\* rule frames and the arrays of the abnfRules actions.
TypeOK ==
  /\ input \in Seq(Alphabet \union {End})
  /\ la \in Seq(Kinds) /\ Len(la) <= Len(input)
  /\ stack \in Seq(Frames)
  /\ heap \in Seq(Seq(Nodes))
  /\ status \in {"run", "done", "error", "numeric"}
  /\ status = "run" => stack # <<>>

\* The rule at each level of the stack: below abnf and prod, the four levels
\* alts, seq, elem and atom over and over.
LevelRule(n) ==
  IF n = 1 THEN "abnf" ELSE IF n = 2 THEN "prod"
  ELSE CASE n % 4 = 3 -> "alts" [] n % 4 = 0 -> "seq"
         [] n % 4 = 1 -> "elem" [] n % 4 = 2 -> "atom"

\* A bracket costs four rule levels, and nothing else costs any
\* (rs/src/parser_abnf.rs 45-59): level by level the rules are always the
\* same, and an atom below the top of the stack is an open bracket.
FourLevelsPerBracket ==
  \A n \in DOMAIN stack :
    /\ stack[n].rule = LevelRule(n)
    /\ n < Len(stack) /\ stack[n].rule = "atom" => stack[n].grp # ""

\* Every append of the actions lands in the array it is meant for: prod and
\* elem append to the very array of the rule that pushed them, and alts and
\* seq to an array younger than every node below them on the stack.
NodesInPlace ==
  \A n \in DOMAIN stack :
    /\ stack[n].rule # "atom" =>
         stack[n].node.kind = "arr" /\ stack[n].node.ref \in DOMAIN heap
    /\ stack[n].rule \in {"prod", "elem"} => stack[n].node = stack[n - 1].node
    /\ stack[n].rule \in {"alts", "seq"} =>
         \A m \in 1..(n - 1) : stack[m].node.ref < stack[n].node.ref
=============================================================================
