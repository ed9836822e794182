---- MODULE MCConverter ----
EXTENDS ConverterProps

Production(name, incremental, refs, hole) ==
  [tag |-> "production", name |-> name, incremental |-> incremental, refs |-> refs, hole |-> hole]
Annotation(kind, members) == [tag |-> "comment", kind |-> kind, members |-> members]

(* Annotations: two rules, plain and incremental, and every kind of comment. *)
TextWords == {"a", "b", "c", "m", "n", "9", "DIGIT", "HEXDIG", "LWSP", "SP", "WSP"}
TwoNames == {"a", "b"}
Members == {"m", "n"}
PlainAndIncremental ==
  {Production("a", FALSE, {}, FALSE), Production("a", TRUE, {"b"}, FALSE),
   Production("b", FALSE, {"a"}, FALSE), Production("b", TRUE, {"c"}, FALSE)}
EveryComment ==
  {Annotation("other", <<>>), Annotation("array", <<>>), Annotation("array", <<"m">>),
   Annotation("object", <<"m", "n">>), Annotation("object", <<"m", "m">>),
   Annotation("object", <<"9">>)}

(* A process: calls whose grammars refer to core rules one, two and three  *)
(* references deep, define some of them, extend and leave holes.            *)
LocalNames == {"a", "WSP"}
Referring ==
  {Production("a", FALSE, {"LWSP"}, FALSE), Production("a", FALSE, {"HEXDIG", "a"}, FALSE),
   Production("WSP", FALSE, {"DIGIT"}, FALSE), Production("WSP", FALSE, {"SP"}, TRUE),
   Production("a", TRUE, {"WSP"}, FALSE), Production("a", TRUE, {}, TRUE)}
NoComments == {}
====
