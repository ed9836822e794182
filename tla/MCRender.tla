------------------------------ MODULE MCRender ------------------------------
(***************************************************************************)
(* What the render decides about a compiled spec, for TLC: how it reads    *)
(* the alternatives of a rule and the references between rules back, and   *)
(* which token sets it takes for classes.  One of them, chosen at the      *)
(* start, gets every input of its bounds.                                  *)
(***************************************************************************)
EXTENDS RenderSpans, TLC

CONSTANTS Elements, MaxElements, MaxAlternatives,               (* RenderAlts *)
  Names, Terminals, MaxSigns, MaxLength,                        (* RenderRefs *)
  t1, t2

VARIABLES
  part,
  written, spec, read                           (* RenderAlts and RenderRefs *)

rules == <<written, spec, read>>

InAlts == INSTANCE RenderAlts
InRefs == INSTANCE RenderRefs

(* Elements, as RenderAlts has them. *)
Tok(t) == [k |-> "tok", name |-> t]
Ref(n) == [k |-> "ref", name |-> n]
Group(alts) == [k |-> "group", alts |-> alts]
Over(k, el) == [k |-> k, of |-> el]
Rep(min, max, el) == [k |-> "rep", min |-> min, max |-> max, of |-> el]

MCElements == {
  Tok("x"), Ref(<<"s">>), Over("star", Tok("x")), Over("plus", Ref(<<"s">>)),
  Group(<< <<Tok("x")>>, <<Tok("y"), Ref(<<"s">>)>> >>),
  Group(<< <<Over("star", Tok("x")), Tok("y")>> >>),
  Over("opt", Group(<< <<Ref(<<"s">>), Tok("y")>> >>)),
  Rep(1, 3, Tok("x")), Rep(2, 0 - 1, Ref(<<"s">>)) }

MCNames == <<"a", "b", "c">>
MCTerminals == {t1, t2}
AnyTerminal == Permutations(MCTerminals)

MCHighest == <<1, 0, 0>>

MCInit ==
  /\ part \in {"alternatives", "references", "sets"}
  /\ IF part = "references" THEN InRefs!Init ELSE InAlts!Init
  /\ Init /\ (part # "sets" => ~negated)

MCNext ==
  /\ UNCHANGED part
  /\ \/ part = "alternatives" /\ InAlts!Next /\ UNCHANGED vars
     \/ part = "references" /\ InRefs!Next /\ UNCHANGED vars
     \/ part = "sets" /\ Next /\ UNCHANGED rules

MCSpec == MCInit /\ [][MCNext]_<<part, rules, vars>>

\* Alternatives read back compile to the spec they were read from: see
\* RenderAlts.
RoundTrip == part = "alternatives" => InAlts!RoundTrip

\* Every alternative is read back as often as it was written: see RenderAlts.
AlternativesKept == part = "alternatives" => InAlts!AlternativesKept

\* References written back compile to the spec they were read from: see
\* RenderRefs (abnf-unsub).
RefsRoundTrip == part = "references" => InRefs!RefsRoundTrip
=============================================================================
