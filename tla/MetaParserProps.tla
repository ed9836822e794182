-------------------------- MODULE MetaParserProps --------------------------
(***************************************************************************)
(* What the meta-parser promises, stated against MetaGrammar.              *)
(***************************************************************************)
EXTENDS MetaParser, MetaGrammar

(* Reading the result: productions from heap[1], and from a production or  *)
(* a bracket the array of its alternatives.                                *)

Root == heap[1]

ArrayAt(id) == IF id \in DOMAIN heap THEN heap[id] ELSE <<>>

ItemAt(seq, n) == IF n \in DOMAIN seq THEN seq[n] ELSE Undefined

\* The array of alternatives of each container of the text, 0 if it has none.
AlternativesOf ==
  LET w == input
      alternatives[c \in DOMAIN w] ==
        IF c \in Headers(w)
        THEN ItemAt(Root, Cardinality({h \in Headers(w) : h <= c})).ref
        ELSE IF c \in Opens(w)
        THEN LET parent == ArrayAt(alternatives[Container(w, c)])
                 seq == ArrayAt(ItemAt(parent, AlternativeOf(w, c)).ref)
                 here == {n \in DOMAIN seq : seq[n].at = c}
             IN  IF here = {} THEN 0 ELSE seq[CHOOSE n \in here : TRUE].ref
        ELSE 0
  IN  alternatives

Expected(w, i) ==
  [kind |-> NodeKind(w, i), at |-> i,
   min |-> Bounds(w, i)[1], max |-> Bounds(w, i)[2]]

Read(item) ==
  [kind |-> item.kind, at |-> item.at, min |-> item.min, max |-> item.max]

\* A hole: an element that came back undefined, anywhere in an array.
HasHole == \E id \in DOMAIN heap : \E n \in DOMAIN heap[id] :
             heap[id][n].kind = "undefined"

-----------------------------------------------------------------------------
\* In a text that can still be completed, every lexeme but the first reaches
\* the rules as the token it is: the alternatives that only widen the lexer's
\* choice (converter.ts 257-279) cover every place where a #NUM, #NV, #SS, #SI
\* or #PV may stand.  (The first lexeme is a name, read as a bareword.)
LexedAsMeant ==
  (\E k \in DOMAIN la : Consumed + k > 1 /\ la[k] # input[Consumed + k].kind)
    => ~Completable(input)

\* A text parsed without a hole has exactly the structure of its lexemes:
\* the productions, the alternatives of each container, and the elements of
\* each alternative with their kinds and repetition bounds, in text order,
\* none lost, doubled or moved to another rule's array.
ParsesToItsStructure ==
  status = "done" /\ Root # <<>> /\ ~HasHole =>
    LET w == input
        names == InOrder(Headers(w))
        incremental(h) == w[h + 1].kind = "DEFA"
    IN  /\ Len(Root) = Len(names)
        /\ \A n \in DOMAIN Root :
             /\ Root[n].at = names[n]
             /\ Root[n].kind = IF incremental(names[n]) THEN "incremental"
                               ELSE "production"
        /\ \A c \in Containers(w) :
             LET alts == ArrayAt(AlternativesOf[c])
             IN  /\ Len(alts) = Cardinality(Slashes(w, c)) + 1
                 /\ \A a \in DOMAIN alts :
                      LET seq == ArrayAt(alts[a].ref)
                      IN  [n \in DOMAIN seq |-> Read(seq[n])] =
                          [n \in DOMAIN Members(w, c, a) |->
                             Expected(w, Members(w, c, a)[n])]

\* A text is parsed without a hole only if it is in the language: a bracket
\* left open or closed by the other kind is never taken silently.
AcceptsOnlyWellFormed ==
  status = "done" /\ Root # <<>> /\ ~HasHole => WellFormed(input)

\* A hole is left by a bracket without its mate, and by nothing else.
HoleOnlyForBracket ==
  status = "done" /\ HasHole =>
    \E i \in Opens(input) :
      ~\E j \in Closes(input) : /\ Pairs(input, i, j) /\ Mates(input, i, j)
                                /\ ~\E h \in Headers(input) : i < h /\ h < j

\* The parser gives up only on what no continuation can save.
RejectsOnlyDeadTexts ==
  status \in {"error", "numeric"} => ~Completable(input)

\* Every parse ends.
Terminates == <>(status # "run")
=============================================================================
