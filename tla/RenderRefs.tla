----------------------------- MODULE RenderRefs -----------------------------
(***************************************************************************)
(* How the render writes references back (abnf-unsub of alchemy/render.alc,*)
(* embedded in ts/src/translate.ts).  The compiler substitutes a reference *)
(* that leads an alternative by the referenced rule's alternatives, each   *)
(* followed by what followed the reference; where such a run stands in a   *)
(* compiled rule, the render writes the reference again.  Nothing in the   *)
(* spec says where a run came from: rules that begin alike by chance look  *)
(* the same, runs overlap, and a rule's run may itself have been another's.*)
(*                                                                         *)
(* An alternative is a sequence of names and terminals; of the references  *)
(* only those that lead are told from terminals.  Left out: left recursion,*)
(* which the compiler rewrites first, and empty alternatives.              *)
(***************************************************************************)
EXTENDS Naturals, SequencesExt, FiniteSetsExt

CONSTANTS
  Names,        (* the rules, in the order they are defined                  *)
  Terminals,
  MaxSigns,     (* bound: elements and alternatives of a grammar             *)
  MaxLength     (* bound: elements of an alternative                         *)

VARIABLES
  written,      (* the rules as their author writes them, one after another  *)
  spec,         (* the compiled rules, by name                               *)
  read          (* the rules as the render writes them                       *)

vars == <<written, spec, read>>

Rules == ToSet(Names)

-----------------------------------------------------------------------------
(* The compiler.                                                             *)

(* A rule that is one reference stays one. *)
IsAlias(alts) == Len(alts) = 1 /\ Len(alts[1]) = 1 /\ alts[1][1] \in Rules

RECURSIVE Full(_, _)
Full(rules, name) ==
  FlattenSeq([i \in DOMAIN rules[name] |->
    LET alt == rules[name][i]
        led == IF Head(alt) \in Rules THEN Full(rules, Head(alt)) ELSE << <<Head(alt)>> >>
    IN [j \in DOMAIN led |-> led[j] \o Tail(alt)]])

Compile(rules) ==
  [name \in DOMAIN rules |->
     IF IsAlias(rules[name]) THEN rules[name] ELSE Full(rules, name)]

(* Which rules lead an alternative of a rule. *)
Leads(rules, name) == {Head(rules[name][i]) : i \in DOMAIN rules[name]} \intersect Rules

-----------------------------------------------------------------------------
(* The render.                                                               *)

Candidates(rules) == SelectSeq(Names, LAMBDA n : ~IsAlias(rules[n]))

NoRule == "none"
NoTail == <<"\n">>
PrefixTail(alt, prefix) ==
  IF IsPrefix(prefix, alt) THEN SubSeq(alt, Len(prefix) + 1, Len(alt)) ELSE NoTail

(* Slip, for the mutation runs: what follows may differ. *)
Matches_AnyTail(keys, alts, i) ==
  /\ i + Len(keys) - 1 <= Len(alts)
  /\ \A j \in DOMAIN keys : PrefixTail(alts[i + j - 1], keys[j]) # NoTail

(* Slip: a run reaches one alternative further. *)
Covers_Next(best, rules, j, i) ==
  best[j] # NoRule /\ j < i /\ i <= j + Len(rules[best[j]])

Covers(best, rules, j, i) ==
  best[j] # NoRule /\ j < i /\ i < j + Len(rules[best[j]])

(* Whether a candidate's alternatives, each followed by one same tail, stand *)
(* at position i.                                                            *)
Matches(keys, alts, i) ==
  /\ i + Len(keys) - 1 <= Len(alts)
  /\ LET tail == PrefixTail(alts[i], keys[1])
     IN tail # NoTail /\ \A j \in DOMAIN keys : PrefixTail(alts[i + j - 1], keys[j]) = tail

(* The candidate with the most alternatives, the first of several. *)
BestAt(rules, name, i) ==
  LET hits == SelectSeq(Candidates(rules),
                        LAMBDA c : c # name /\ Matches(rules[c], rules[name], i))
      most == SelectSeq(hits, LAMBDA c : \A d \in ToSet(hits) : Len(rules[d]) <= Len(rules[c]))
  IN IF most = <<>> THEN NoRule ELSE most[1]

(* A rule's alternatives with the references written back: a run counts      *)
(* where no other begins before it and reaches into it.                      *)
Unsub(rules, name) ==
  LET alts == rules[name]
      best == [i \in DOMAIN alts |-> BestAt(rules, name, i)]
      covers(j, i) == Covers(best, rules, j, i)
      accepted == {i \in DOMAIN alts : best[i] # NoRule /\ ~\E j \in DOMAIN alts : covers(j, i)}
      at(i) == IF i \in accepted
               THEN << <<best[i]>> \o PrefixTail(alts[i], rules[best[i]][1]) >>
               ELSE IF \E j \in accepted : covers(j, i) THEN <<>>
               ELSE <<alts[i]>>
      out == FlattenSeq([i \in DOMAIN alts |-> at(i)])
  IN IF IsAlias(out) THEN alts ELSE out

-----------------------------------------------------------------------------
Init == written = << << <<>> >> >> /\ spec = <<>> /\ read = <<>>

Signs == FoldLeft(LAMBDA n, alts : n + Len(alts) + Len(FlattenSeq(alts)), 0, written)
Current == Last(written)
Grow(alts) == written' = Append(Front(written), alts) /\ UNCHANGED <<spec, read>>
Writing == spec = <<>> /\ Signs < MaxSigns

(* A terminal; a reference that does not lead is as good as one.  A grammar  *)
(* whose references lead compiles to what one without them compiles to, so   *)
(* only rules that are one reference are written with any.                   *)
Write(el) ==
  /\ Writing /\ Len(Last(Current)) < MaxLength /\ ~IsAlias(Current)
  /\ el \in Rules => Current = << <<>> >> /\ el # Names[Len(written)]
  /\ Grow(Append(Front(Current), Append(Last(Current), el)))

Slash ==
  /\ Writing /\ Last(Current) # <<>> /\ ~IsAlias(Current)
  /\ Grow(Append(Current, <<>>))

NextRule ==
  /\ Writing /\ Last(Current) # <<>> /\ Len(written) < Len(Names)
  /\ written' = Append(written, << <<>> >>)
  /\ UNCHANGED <<spec, read>>

(* No rule leads to itself. *)
Orders(rules) ==
  \E rank \in [DOMAIN rules -> 1 .. Len(Names)] :
    \A n \in DOMAIN rules : \A m \in Leads(rules, n) : rank[m] < rank[n]

Compiled ==
  /\ spec = <<>> /\ Len(written) = Len(Names) /\ Last(Current) # <<>>
  /\ LET rules == [n \in Rules |-> written[CHOOSE i \in DOMAIN Names : Names[i] = n]]
     IN Orders(rules) /\ spec' = Compile(rules)
  /\ UNCHANGED <<written, read>>

Render ==
  /\ spec # <<>> /\ read = <<>>
  /\ read' = [n \in Rules |-> Unsub(spec, n)]
  /\ UNCHANGED <<written, spec>>

Next == Slash \/ NextRule \/ Compiled \/ Render \/ \E el \in Rules \union Terminals : Write(el)
Spec == Init /\ [][Next]_vars

-----------------------------------------------------------------------------
\* The references written back are the ones the compiler substitutes to the
\* rules they were read from: no alternative is lost or moved where runs
\* overlap or rules begin alike, no rule becomes a mere reference, and no
\* rule comes to lead to itself, though each rule is read on its own
\* (abnf-unsub).
RefsRoundTrip == read # <<>> => Orders(read) /\ Compile(read) = spec
=============================================================================
