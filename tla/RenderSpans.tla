---------------------------- MODULE RenderSpans -----------------------------
(***************************************************************************)
(* How the render decides whether a token set is the class its name gives  *)
(* (abnf-check-set of alchemy/render.alc, embedded in                      *)
(* ts/src/translate.ts).  The compiler lays a class over several tokens,   *)
(* each a class of its own; the render writes the class, so the tokens'    *)
(* ranges have to hold exactly the class's characters, or, for a negated   *)
(* class, exactly those it does not exclude.  Ranges are compared after    *)
(* they are sorted and merged, on code points kept as three bytes.         *)
(*                                                                         *)
(* Left out: digits, and what makes a token no class at all (its flags,    *)
(* its pattern).                                                           *)
(***************************************************************************)
EXTENDS Naturals, FiniteSets, SequencesExt

CONSTANTS
  MaxByte,     (* 255                                                        *)
  Highest,     (* the highest code point: <<16, 255, 255>>                   *)
  MaxMembers,  (* bound: of the class                                        *)
  MaxRanges    (* bound: of the class and its tokens together                *)

(* Every code point's bytes are within these. *)
ASSUME CodePointAssumption ==
  MaxByte \in Nat /\ Highest \in Nat \X (0..MaxByte) \X (0..MaxByte)

VARIABLES
  negated,     (* whether the class is                                       *)
  class,       (* the pieces of its pattern: a code point, and whether a     *)
               (* dash follows it                                            *)
  tokens,      (* the ranges of the tokens laid over it                      *)
  verdict      (* what the render says: "", "fits" or "refused"              *)

vars == <<negated, class, tokens, verdict>>

Span(lo, hi) == [lo |-> lo, hi |-> hi]

-----------------------------------------------------------------------------
(* Code points, by their bytes from the highest.                             *)

Lowest == <<0, 0, 0>>

Before(a, b) ==
  \E i \in 1..3 : a[i] < b[i] /\ \A j \in 1..(i - 1) : a[j] = b[j]

(* Slip, for the mutation runs: no carry past the middle byte. *)
NextOf_OneCarry(c) ==
  IF c[3] # MaxByte THEN <<c[1], c[2], c[3] + 1>> ELSE <<c[1], c[2] + 1, 0>>

NextOf(c) ==
  IF c[3] # MaxByte THEN <<c[1], c[2], c[3] + 1>>
  ELSE IF c[2] # MaxByte THEN <<c[1], c[2] + 1, 0>>
  ELSE <<c[1] + 1, 0, 0>>

-----------------------------------------------------------------------------
(* Ranges.                                                                   *)

(* The members of a set, each before those a relation puts after it.         *)
InOrder(S, before) ==
  [k \in 1..Cardinality(S) |->
     CHOOSE s \in S : Cardinality({r \in S : <<r, s>> \in before}) = k - 1]
Ascending(S) == InOrder(S, {p \in S \X S : p[1] < p[2]})

(* A piece followed by a dash is the low end of a range and the next its     *)
(* high end; another is a range of one.                                      *)
ClassSpans(pieces) ==
  LET ends(i) == i > 1 /\ pieces[i - 1].dash
      starts == Ascending({i \in DOMAIN pieces : ~ends(i)})
      span(i) == Span(pieces[i].cp, IF pieces[i].dash THEN pieces[i + 1].cp ELSE pieces[i].cp)
  IN [k \in DOMAIN starts |-> span(starts[k])]

(* By their low ends, those that begin alike as they came. *)
ByLow(spans) ==
  {p \in (DOMAIN spans) \X (DOMAIN spans) :
     \/ Before(spans[p[1]].lo, spans[p[2]].lo)
     \/ spans[p[1]].lo = spans[p[2]].lo /\ p[1] < p[2]}
Sorted(spans) ==
  LET order == InOrder(DOMAIN spans, ByLow(spans))
  IN [k \in DOMAIN spans |-> spans[order[k]]]

MaxOf(cps) == CHOOSE c \in cps : ~\E d \in cps : Before(c, d)

(* Slip: only the range before is looked at. *)
Merged_Neighbours(spans) ==
  LET sorted == Sorted(spans)
      apart(j, i) == Before(NextOf(sorted[j].hi), sorted[i].lo)
      starts == Ascending({i \in DOMAIN sorted : i = 1 \/ apart(i - 1, i)})
      last(k) == IF k < Len(starts) THEN starts[k + 1] - 1 ELSE Len(sorted)
  IN [k \in DOMAIN starts |->
        Span(sorted[starts[k]].lo, MaxOf({sorted[i].hi : i \in starts[k]..last(k)}))]

(* A merged range begins where every range sorted before ends earlier, and   *)
(* not just before.                                                          *)
Merged(spans) ==
  LET sorted == Sorted(spans)
      apart(j, i) == Before(NextOf(sorted[j].hi), sorted[i].lo)
      starts == Ascending({i \in DOMAIN sorted : \A j \in 1..(i - 1) : apart(j, i)})
      last(k) == IF k < Len(starts) THEN starts[k + 1] - 1 ELSE Len(sorted)
  IN [k \in DOMAIN starts |->
        Span(sorted[starts[k]].lo, MaxOf({sorted[i].hi : i \in starts[k]..last(k)}))]

Same(a, b) == Merged(a) = Merged(b)

(* Whether two lists of ranges hold every code point between them, once.     *)
Tile(a, b) ==
  LET all == Sorted(Merged(a) \o Merged(b))
  IN /\ all # <<>>
     /\ Head(all).lo = Lowest /\ Last(all).hi = Highest
     /\ \A i \in 1..(Len(all) - 1) : all[i + 1].lo = NextOf(all[i].hi)

Fits == IF negated THEN Tile(ClassSpans(class), tokens) ELSE Same(ClassSpans(class), tokens)

-----------------------------------------------------------------------------
CodePoints ==
  {c \in (0..Highest[1]) \X (0..MaxByte) \X (0..MaxByte) : ~Before(Highest, c)}
Ranges == {Span(r[1], r[2]) : r \in {q \in CodePoints \X CodePoints : ~Before(q[2], q[1])}}

Members == Cardinality({i \in DOMAIN class : ~class[i].dash})

Init == negated \in BOOLEAN /\ class = <<>> /\ tokens = <<>> /\ verdict = ""

Growing == verdict = "" /\ Members + Len(tokens) < MaxRanges

(* The class's pattern gains a character or a range. *)
AddMember(lo, hi) ==
  /\ class' = class \o IF lo = hi THEN <<[cp |-> lo, dash |-> FALSE]>>
                       ELSE <<[cp |-> lo, dash |-> TRUE], [cp |-> hi, dash |-> FALSE]>>
  /\ UNCHANGED <<negated, tokens, verdict>>

(* A token's class gains a range. *)
LayRange(span) ==
  /\ tokens' = Append(tokens, span)
  /\ UNCHANGED <<negated, class, verdict>>

CheckSet ==
  /\ verdict = "" /\ class # <<>>
  /\ verdict' = IF Fits THEN "fits" ELSE "refused"
  /\ UNCHANGED <<negated, class, tokens>>

Next ==
  \/ CheckSet
  \/ /\ Growing /\ tokens = <<>> /\ Members < MaxMembers
     /\ \E span \in Ranges : AddMember(span.lo, span.hi)
  \/ /\ Growing /\ class # <<>>
     /\ \E span \in Ranges : LayRange(span)
Spec == Init /\ [][Next]_vars

-----------------------------------------------------------------------------
Holds(spans, c) == \E i \in DOMAIN spans : ~Before(c, spans[i].lo) /\ ~Before(spans[i].hi, c)

\* A token set is taken for the class its name gives exactly when its tokens
\* match the characters the class matches, each of them and no other, however
\* the ranges overlap, meet, nest or are ordered, and across every carry of
\* their bytes (abnf-check-set, abnf-spans-merged, abnf-spans-tile).
SetsAreTheirClasses ==
  verdict # "" =>
    (verdict = "fits" <=>
       \A c \in CodePoints : Holds(tokens, c) <=> (Holds(ClassSpans(class), c) # negated))
=============================================================================
