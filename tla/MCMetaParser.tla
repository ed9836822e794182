---------------------------- MODULE MCMetaParser ----------------------------
EXTENDS MetaParserProps

L(kind) == [kind |-> kind, val |-> 0]
N(n) == [kind |-> "NUM", val |-> n]

EveryKind == {L("TX"), N(0), N(1), N(2), L("NV"), L("SS"), L("ST"), L("PV"),
              L("LP"), L("RP"), L("OB"), L("CB"), L("ALT"), L("DEF"), L("DEFA"), L("STAR"),
              L("BD"), [kind |-> "NV", val |-> Fault], L("SI")}
Repetitions == {L("TX"), N(0), N(1), L("STAR"), L("NV"), L("DEF")}
Brackets == {L("TX"), L("LP"), L("RP"), L("OB"), L("CB"), L("ALT"), L("DEF")}

(* The bounds: texts of up to five lexemes of any kind, with one number in  *)
(* them; of seven in repetitions; of eight in brackets.  A string and its   *)
(* prefix count as one.                                                     *)
Text(lexemes) ==
  LET counts(i) == lexemes[i] # End /\ (i = 1 \/ lexemes[i - 1].kind \notin {"SS", "SI"})
  IN {i \in DOMAIN lexemes : counts(i)}
Within(lexemes) ==
  LET text == Text(lexemes)
      kinds == {lexemes[i] : i \in text}
      length == Cardinality(text)
  IN \/ length <= 5 /\ kinds \intersect {N(0), N(1)} = {}
     \/ length <= 7 /\ kinds \subseteq Repetitions
     \/ length <= 8 /\ kinds \subseteq Brackets

MCNext == Next /\ Within(input')
MCSpec == Init /\ [][MCNext]_vars /\ WF_vars(MCNext)
=============================================================================
