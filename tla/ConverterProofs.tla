-------------------------- MODULE ConverterProofs --------------------------
(***************************************************************************)
(* Theorems about parseAbnf: the types of its state, that callers share    *)
(* nothing, and what it answers: the verdict on a text, and for a grammar  *)
(* its rules, their element lists, their value annotations and the core    *)
(* rules added.                                                            *)
(***************************************************************************)
EXTENDS ConverterProps, SequenceTheorems, FiniteSetTheorems, FunctionTheorems, TLAPS

-----------------------------------------------------------------------------
(* The least of some numbers, and what follows for the scan forward over   *)
(* the productions.                                                        *)
LEMMA LeastNumber ==
  ASSUME NEW S \in SUBSET Nat, S # {}
  PROVE  \E m \in S : \A n \in S : m <= n
<1>1. PICK m \in S : \A n \in S : ~ (<<n, m>> \in OpToRel(<, Nat))
  BY NatLessThanWellFounded, WFMin
<1>2. \A n, k \in Nat : n < k => <<n, k>> \in OpToRel(<, Nat)
  BY DEF OpToRel
<1>3. \A n \in S : n \in Nat /\ m \in Nat /\ ~ (n < m)
  BY <1>1, <1>2
<1>4. \A n \in S : m <= n
  BY <1>3
<1>5. QED
  BY <1>4

LEMMA AppendIs ==
  ASSUME NEW S, NEW s \in Seq(S), NEW e
  PROVE  /\ Len(Append(s, e)) = Len(s) + 1 /\ Append(s, e)[Len(s) + 1] = e
         /\ \A k \in 1 .. Len(s) : Append(s, e)[k] = s[k]
<1>1. s \in Seq(S \union {e}) /\ e \in S \union {e}
  BY SeqMonotonic
<1>2. QED
  BY <1>1, AppendProperties

IsForward(i, at) ==
  /\ \A j \in idx + 1 .. i : prods[j].sp < at
  /\ i < Len(prods) => prods[i + 1].sp >= at

LEMMA ForwardStops ==
  ASSUME Len(prods) \in Nat, idx \in 0 .. Len(prods), NEW at \in Nat,
         \A j \in 1 .. Len(prods) : prods[j].sp \in Nat
  PROVE  Forward(at) \in idx .. Len(prods) /\ IsForward(Forward(at), at)
<1> DEFINE S == {i \in idx .. Len(prods) : i < Len(prods) => prods[i + 1].sp >= at}
<1>1. S \in SUBSET Nat /\ Len(prods) \in S
  OBVIOUS
<1>2. PICK m \in S : \A n \in S : m <= n
  BY <1>1, LeastNumber
<1>3. \A j \in idx + 1 .. m : prods[j].sp < at
  <2> SUFFICES ASSUME NEW j \in idx + 1 .. m PROVE prods[j].sp < at
    OBVIOUS
  <2>1. /\ m \in idx .. Len(prods) /\ j \in Int /\ idx + 1 <= j /\ j <= m
        /\ \A n \in S : m <= n
    BY <1>2
  <2>2. j - 1 \in idx .. Len(prods) /\ j \in 1 .. Len(prods) /\ (j - 1) + 1 = j
    BY <2>1
  <2>3. j - 1 \notin S
    <3> HIDE DEF S
    <3>1. QED
      BY <2>1
  <2>4. QED
    BY <2>2, <2>3
<1>4. IsForward(m, at) /\ m \in idx .. Len(prods)
  BY <1>2, <1>3 DEF IsForward
<1>5. QED
  BY <1>4 DEF Forward, IsForward

-----------------------------------------------------------------------------
(* Types.                                                                  *)

\* A production is about a position of its own, the scan for annotations
\* has not gone past the last, and they define names of the text.
PlaceInv ==
  /\ Len(prods) <= Len(text) /\ (phase \in {"read", "annotate"} => idx <= Len(prods))
  /\ \A k \in 1 .. Len(prods) : prods[k].name \in Names

TypeInv == TypeOK /\ PlaceInv

LEMMA RecordsGrow ==
  ASSUME NEW A, NEW B, A \subseteq B, NEW C, NEW D, C \subseteq D, NEW S, NEW T, S \subseteq T,
         NEW N, NEW V
  PROVE  [obj: A, name: N, alts: C, sp: S, value: V, core: BOOLEAN]
           \subseteq [obj: B, name: N, alts: D, sp: T, value: V, core: BOOLEAN]
OBVIOUS

(* Types only grow: later objects, longer texts. *)
LEMMA RulesStay ==
  ASSUME NEW f \in Nat, NEW g \in Nat, f <= g, NEW S, NEW T, S \subseteq T
  PROVE  /\ RuleType(1 .. f, S) \subseteq RuleType(1 .. g, T)
         /\ Seq(RuleType(1 .. f, S)) \subseteq Seq(RuleType(1 .. g, T))
         /\ Seq(Seq(RuleType(1 .. f, S))) \subseteq Seq(Seq(RuleType(1 .. g, T)))
<1>1. RuleType(1 .. f, S) \subseteq RuleType(1 .. g, T)
  <2>1. 1 .. f \subseteq 1 .. g
    OBVIOUS
  <2> DEFINE A == LineType(1 .. f)
             B == LineType(1 .. g)
             OwnNames == Names \union RuleNames(CoreRules)
  <2>2. A \subseteq B
    BY <2>1 DEF LineType
  <2> HIDE DEF A, B
  <2>3. Seq(A) \subseteq Seq(B)
    BY <2>2, SeqMonotonic
  <2>4. /\ RuleType(1 .. f, S) =
             [obj: 1 .. f, name: OwnNames, alts: Seq(A), sp: S, value: Values, core: BOOLEAN]
        /\ RuleType(1 .. g, T) =
             [obj: 1 .. g, name: OwnNames, alts: Seq(B), sp: T, value: Values, core: BOOLEAN]
    BY DEF RuleType, A, B
  <2> HIDE DEF OwnNames
  <2>5. [obj: 1 .. f, name: OwnNames, alts: Seq(A), sp: S, value: Values, core: BOOLEAN]
          \subseteq [obj: 1 .. g, name: OwnNames, alts: Seq(B), sp: T, value: Values, core: BOOLEAN]
    BY <2>1, <2>3, RecordsGrow
  <2>6. QED
    BY <2>4, <2>5
<1>2. Seq(RuleType(1 .. f, S)) \subseteq Seq(RuleType(1 .. g, T))
  BY <1>1, SeqMonotonic
<1>3. QED
  BY <1>1, <1>2, SeqMonotonic

(* A comment the scan takes for an annotation says something as far as     *)
(* WellFormed goes.                                                        *)
LEMMA WellFormedIsMeaningful ==
  ASSUME NEW c \in Comment, c.kind # "other"
  PROVE  WellFormed(c) <=> Meaningful(c)
<1>1. c.members \in Seq(Words) /\ c.kind \in {"object", "array"}
  BY DEF Comment
<1>2. c.members = <<>> <=> Len(c.members) = 0
  BY <1>1, EmptySeq
<1>3. QED
  BY <1>1, <1>2 DEF WellFormed, Meaningful, ToSet, IsInjective

(* One line of a text, as the meta-parser pushes it. *)
LEMMA RuleOfLine ==
  ASSUME NEW p \in Productions, NEW sp, NEW f \in Nat \ {0}
  PROVE  Rule(f, p.name, <<[obj |-> f + 1, refs |-> p.refs, hole |-> p.hole]>>, sp, NoValue, FALSE)
           \in RuleType(1 .. f + 1, {sp})
<1>1. p \in Written
  BY ConverterAssumption
<1> DEFINE line == [obj |-> f + 1, refs |-> p.refs, hole |-> p.hole]
<1>2. <<line>> \in Seq(LineType(1 .. f + 1))
  <2>1. line \in LineType(1 .. f + 1)
    BY <1>1 DEF Written, LineType
  <2> HIDE DEF line
  <2>2. QED
    BY <2>1
<1> HIDE DEF line
<1>3. /\ p.name \in Names \union RuleNames(CoreRules)
      /\ NoValue \in Values /\ f \in 1 .. f + 1
  BY <1>1 DEF Written, Values
<1>4. Rule(f, p.name, <<line>>, sp, NoValue, FALSE) \in RuleType(1 .. f + 1, {sp})
  BY <1>2, <1>3 DEF Rule, RuleType
<1>5. QED
  BY <1>4 DEF line

LEMMA TypeInit == Init => TypeInv
<1> SUFFICES ASSUME Init PROVE TypeInv
  OBVIOUS
<1>1. /\ text \in Seq(Productions \union Comments) /\ Len(text) = 0
      /\ prods \in Seq(RuleType(1 .. fresh, DOMAIN text)) /\ Len(prods) = 0
      /\ merged \in Seq(RuleType(1 .. fresh, DOMAIN text)) /\ Len(merged) = 0
      /\ core \in Seq(RuleType(1 .. fresh, {0}))
      /\ cache \in Seq(RuleType(1 .. fresh, {0})) /\ Len(cache) = 0
      /\ grammars \in Seq(Seq(RuleType(1 .. fresh, 0 .. MaxItems)))
  BY EmptySeq DEF Init
<1>2. byName \in [Names -> 0 .. 0]
  BY DEF Init
<1>3. byName \in [Names -> 0 .. Len(merged)] /\ scanned \in 0 .. Len(cache)
  BY <1>1, <1>2 DEF Init
<1>4. TypeOK
  <2>1. Len(text) <= MaxItems /\ comment \in 1 .. Len(text) + 1 /\ idx \in 0 .. Len(text)
    BY <1>1, ConverterAssumption DEF Init
  <2>2. added \in BOOLEAN
    BY DEF Init
  <2>3. /\ phase \in {"idle", "read", "annotate", "merge", "holes", "core"}
        /\ fresh \in Nat \ {0} /\ marked \subseteq 1 .. fresh
        /\ calls \in 0 .. MaxCalls
    BY ConverterAssumption DEF Init
  <2>4. QED
    BY <1>1, <1>3, <2>1, <2>2, <2>3 DEF TypeOK
<1>5. PlaceInv
  BY <1>1 DEF Init, PlaceInv
<1>6. QED
  BY <1>4, <1>5 DEF TypeInv

(* What an object of a list of productions is. *)
ObjectsOf(r) == {r.obj} \union {a.obj : a \in ToSet(r.alts)}

LEMMA ObjectsAre == \A s : Objects(s) = UNION {ObjectsOf(s[k]) : k \in DOMAIN s}
BY DEF Objects, ObjectsOf, ToSet

LEMMA ObjectsWithin ==
  \A s, X : Objects(s) \subseteq X <=> \A k \in DOMAIN s : ObjectsOf(s[k]) \subseteq X
BY ObjectsAre

LEMMA ObjectsTyped ==
  ASSUME NEW O, NEW S, NEW s \in Seq(RuleType(O, S))
  PROVE  Objects(s) \subseteq O
<1>1. ASSUME NEW r \in RuleType(O, S) PROVE ObjectsOf(r) \subseteq O
  <2>1. r.obj \in O /\ r.alts \in Seq(LineType(O))
    BY <1>1 DEF RuleType
  <2>2. \A k \in DOMAIN r.alts : r.alts[k] \in LineType(O)
    BY <2>1, ElementOfSeq, LenProperties
  <2>3. QED
    BY <2>1, <2>2 DEF LineType, ObjectsOf, ToSet
<1>2. \A k \in DOMAIN s : s[k] \in RuleType(O, S)
  BY ElementOfSeq, LenProperties
<1>3. QED
  BY <1>1, <1>2, ObjectsAre

(* What holds of the types when some of the variables stay. *)
LEMMA TypeFacts ==
  ASSUME TypeOK
  PROVE  /\ fresh \in Nat \ {0} /\ Len(text) \in Nat /\ DOMAIN text = 1 .. Len(text)
         /\ Len(prods) \in Nat /\ Len(merged) \in Nat /\ Len(core) \in Nat /\ Len(cache) \in Nat
         /\ \A k \in 1 .. Len(prods) : prods[k] \in RuleType(1 .. fresh, 1 .. Len(text))
         /\ \A k \in 1 .. Len(merged) : merged[k] \in RuleType(1 .. fresh, 1 .. Len(text))
         /\ \A k \in 1 .. Len(cache) : cache[k] \in RuleType(1 .. fresh, {0})
         /\ \A k \in 1 .. Len(text) : text[k] \in Productions \union Comments
<1>1. /\ fresh \in Nat \ {0} /\ Len(text) \in Nat /\ DOMAIN text = 1 .. Len(text)
      /\ Len(prods) \in Nat /\ Len(merged) \in Nat /\ Len(core) \in Nat /\ Len(cache) \in Nat
  BY LenProperties DEF TypeOK
<1>2. /\ \A k \in 1 .. Len(prods) : prods[k] \in RuleType(1 .. fresh, DOMAIN text)
      /\ \A k \in 1 .. Len(merged) : merged[k] \in RuleType(1 .. fresh, DOMAIN text)
      /\ \A k \in 1 .. Len(cache) : cache[k] \in RuleType(1 .. fresh, {0})
      /\ \A k \in 1 .. Len(text) : text[k] \in Productions \union Comments
  BY ElementOfSeq DEF TypeOK
<1>3. QED
  BY <1>1, <1>2

LEMMA CallTyped ==
  ASSUME TypeInv, Call PROVE TypeInv'
<1>1. /\ text' \in Seq(Productions \union Comments) /\ Len(text') = 0
      /\ prods' \in Seq(RuleType(1 .. fresh, DOMAIN text)') /\ Len(prods') = 0
      /\ merged' \in Seq(RuleType(1 .. fresh, DOMAIN text)') /\ Len(merged') = 0
      /\ core' \in Seq(RuleType(1 .. fresh, {0}))
  BY EmptySeq DEF Call
<1>2. byName' \in [Names -> 0 .. Len(merged')]
  BY <1>1 DEF Call
<1>3. added' \in BOOLEAN
  BY DEF Call
<1>4. calls' \in 0 .. MaxCalls
  BY ConverterAssumption DEF Call, TypeInv, TypeOK
<1>5. comment' \in 1 .. Len(text') + 1 /\ idx' \in 0 .. Len(text') /\ Len(text') <= MaxItems
  BY <1>1, ConverterAssumption DEF Call
<1>6. scanned' \in 0 .. Len(cache')
  BY TypeFacts DEF Call, TypeInv
<1>7. TypeOK'
  BY <1>1, <1>2, <1>3, <1>4, <1>5, <1>6 DEF Call, TypeInv, TypeOK
<1>8. PlaceInv'
  BY <1>1 DEF Call, PlaceInv
<1>9. QED
  BY <1>7, <1>8 DEF TypeInv

LEMMA ReadProductionTyped ==
  ASSUME TypeInv, ReadProduction PROVE TypeInv'
<1> USE TypeFacts DEF TypeInv
<1>1. PICK p \in Productions :
        /\ text' = Append(text, p)
        /\ prods' = Append(prods,
             Rule(fresh, p.name, <<[obj |-> fresh + 1, refs |-> p.refs, hole |-> p.hole]>>,
                  Len(text) + 1, NoValue, FALSE))
  BY DEF ReadProduction
<1>2. /\ text' \in Seq(Productions \union Comments) /\ Len(text') = Len(text) + 1
      /\ Len(text') <= MaxItems /\ DOMAIN text' = 1 .. Len(text) + 1
  BY <1>1, AppendProperties, LenProperties, ConverterAssumption DEF ReadProduction, TypeOK
<1>3. fresh' = fresh + 2 /\ fresh' \in Nat \ {0}
  BY DEF ReadProduction
<1>4. \A S, T : S \subseteq T =>
        /\ Seq(RuleType(1 .. fresh, S)) \subseteq Seq(RuleType(1 .. fresh', T))
        /\ RuleType(1 .. fresh + 1, S) \subseteq RuleType(1 .. fresh', T)
        /\ Seq(Seq(RuleType(1 .. fresh, S))) \subseteq Seq(Seq(RuleType(1 .. fresh', T)))
  <2> SUFFICES ASSUME NEW S, NEW T, S \subseteq T
               PROVE  /\ Seq(RuleType(1 .. fresh, S)) \subseteq Seq(RuleType(1 .. fresh', T))
                      /\ RuleType(1 .. fresh + 1, S) \subseteq RuleType(1 .. fresh', T)
                      /\ Seq(Seq(RuleType(1 .. fresh, S))) \subseteq Seq(Seq(RuleType(1 .. fresh', T)))
    OBVIOUS
  <2>1. fresh \in Nat /\ fresh + 1 \in Nat /\ fresh' \in Nat /\ fresh <= fresh' /\ fresh + 1 <= fresh'
    BY <1>3
  <2> HIDE TypeFacts DEF TypeInv
  <2>2. QED
    BY <2>1, RulesStay
<1>5. DOMAIN text \subseteq DOMAIN text' /\ {Len(text) + 1} \subseteq DOMAIN text'
  BY <1>2
<1>6. prods' \in Seq(RuleType(1 .. fresh', DOMAIN text')) /\ Len(prods') = Len(prods) + 1
  <2>1. Rule(fresh, p.name, <<[obj |-> fresh + 1, refs |-> p.refs, hole |-> p.hole]>>,
             Len(text) + 1, NoValue, FALSE) \in RuleType(1 .. fresh', DOMAIN text')
    BY <1>4, <1>5, RuleOfLine
  <2>2. prods \in Seq(RuleType(1 .. fresh', DOMAIN text'))
    BY <1>4, <1>5 DEF TypeOK
  <2>3. QED
    BY <1>1, <2>1, <2>2, AppendProperties
<1>7. /\ merged' \in Seq(RuleType(1 .. fresh', DOMAIN text'))
      /\ core' \in Seq(RuleType(1 .. fresh', {0})) /\ cache' \in Seq(RuleType(1 .. fresh', {0}))
      /\ grammars' \in Seq(Seq(RuleType(1 .. fresh', 0 .. MaxItems)))
  BY <1>4, <1>5 DEF TypeOK, ReadProduction
<1>8. /\ comment' \in 1 .. Len(text') + 1 /\ idx' \in 0 .. Len(text')
      /\ marked' \subseteq 1 .. fresh'
  <2>1. comment' = comment /\ idx' = idx /\ marked' = marked
    BY DEF ReadProduction
  <2>2. /\ comment \in 1 .. Len(text) + 1 /\ idx \in 0 .. Len(text)
        /\ marked \subseteq 1 .. fresh /\ fresh \in Nat /\ Len(text) \in Nat
    BY DEF TypeOK
  <2> HIDE TypeFacts DEF TypeInv
  <2>3. 1 .. fresh \subseteq 1 .. fresh'
    BY <1>3, <2>2
  <2>4. QED
    BY <1>2, <2>1, <2>2, <2>3
<1>9. TypeOK'
  BY <1>2, <1>3, <1>6, <1>7, <1>8 DEF TypeOK, ReadProduction
<1>10. PlaceInv'
  <2>1. Rule(fresh, p.name, <<[obj |-> fresh + 1, refs |-> p.refs, hole |-> p.hole]>>,
             Len(text) + 1, NoValue, FALSE).name \in Names
    BY ConverterAssumption DEF Rule, Written
  <2>2. ASSUME NEW k \in 1 .. Len(prods') PROVE prods'[k].name \in Names
    <3> HIDE TypeFacts
    <3>1. prods \in Seq(RuleType(1 .. fresh, DOMAIN text)) /\ Len(prods) \in Nat
      BY TypeFacts DEF TypeOK
    <3>2. CASE k = Len(prods) + 1
      BY <1>1, <2>1, <3>1, <3>2, AppendIs
    <3>3. CASE k \in 1 .. Len(prods)
      <4>1. prods'[k] = prods[k]
        BY <1>1, <3>1, <3>3, AppendIs
      <4>2. QED
        BY <3>3, <4>1 DEF PlaceInv
    <3>4. QED
      BY <1>6, <2>2, <3>1, <3>2, <3>3
  <2>3. Len(prods') <= Len(text')
    BY <1>2, <1>6 DEF PlaceInv
  <2>4. idx' = idx /\ phase = "read" /\ Len(prods) <= Len(prods')
    BY <1>6 DEF ReadProduction
  <2>5. idx' <= Len(prods')
    BY <2>4, <1>6 DEF PlaceInv, TypeOK
  <2>6. QED
    BY <2>2, <2>3, <2>5 DEF PlaceInv
<1>11. QED
  BY <1>9, <1>10

LEMMA ReadCommentTyped ==
  ASSUME TypeInv, ReadComment PROVE TypeInv'
<1> USE TypeFacts DEF TypeInv, work
<1>1. PICK c \in Comments : text' = Append(text, c)
  BY DEF ReadComment
<1>2. /\ text' \in Seq(Productions \union Comments) /\ Len(text') = Len(text) + 1
      /\ Len(text') <= MaxItems /\ DOMAIN text' = 1 .. Len(text) + 1
  BY <1>1, AppendProperties, LenProperties, ConverterAssumption DEF ReadComment, TypeOK
<1>3. Seq(RuleType(1 .. fresh, DOMAIN text)) \subseteq Seq(RuleType(1 .. fresh, DOMAIN text'))
  <2>1. DOMAIN text \subseteq DOMAIN text' /\ fresh \in Nat /\ fresh <= fresh
    BY <1>2
  <2>2. QED
    BY <2>1, RulesStay
<1>4. comment' \in 1 .. Len(text') + 1 /\ idx' \in 0 .. Len(text')
  BY <1>2 DEF TypeOK, ReadComment
<1>5. TypeOK'
  BY <1>2, <1>3, <1>4 DEF TypeOK, ReadComment
<1>6. PlaceInv'
  BY <1>2 DEF PlaceInv, ReadComment
<1>7. QED
  BY <1>5, <1>6

LEMMA StageTyped ==
  ASSUME TypeInv, ParseError \/ ReadAll \/ AllAttached \/ RejectHoles \/ CallerWrites
  PROVE  TypeInv'
<1> USE DEF TypeInv, work, Refuse
<1>1. CASE ParseError
  BY <1>1 DEF ParseError, TypeOK, PlaceInv
<1>2. CASE ReadAll
  BY <1>2 DEF ReadAll, TypeOK, PlaceInv
<1>3. CASE AllAttached
  BY <1>3 DEF AllAttached, TypeOK, PlaceInv
<1>4. CASE RejectHoles
  BY <1>4 DEF RejectHoles, TypeOK, PlaceInv
<1>5. CASE CallerWrites
  <2>1. PICK i \in DOMAIN grammars : \E o \in Objects(grammars[i]) : marked' = marked \union {o}
    BY <1>5 DEF CallerWrites
  <2>2. grammars[i] \in Seq(RuleType(1 .. fresh, 0 .. MaxItems))
    BY ElementOfSeq, LenProperties DEF TypeOK
  <2>3. Objects(grammars[i]) \subseteq 1 .. fresh
    BY <2>2, ObjectsTyped
  <2>4. marked' \subseteq 1 .. fresh
    BY <2>1, <2>3 DEF TypeOK
  <2>5. QED
    BY <1>5, <2>4 DEF CallerWrites, TypeOK, PlaceInv
<1>6. QED
  BY <1>1, <1>2, <1>3, <1>4, <1>5

ValueIn(c) == [kind |-> c.kind, members |-> c.members]
Attached(r, c) == [r EXCEPT !.value = ValueIn(c)]

\* What one step of the scan for annotations does: passes over a comment,
\* refuses the text, or gives a production its value.
LEMMA AttachDoes ==
  ASSUME TypeInv, AttachAnnotation
  PROVE  /\ comment \in 1 .. Len(text) /\ comment' = comment + 1 /\ phase = "annotate"
         /\ \/ /\ ~ Claims(text[comment])
               /\ UNCHANGED <<phase, prods, idx, outcome>>
            \/ /\ Claims(text[comment])
               /\ idx' \in idx .. Len(prods) /\ IsForward(idx', comment)
               /\ \/ /\ idx' = 0 \/ ~ WellFormed(text[comment]) \/ prods[idx'].value # NoValue
                     /\ phase' = "idle" /\ outcome' = "annotation" /\ UNCHANGED prods
                  \/ /\ idx' # 0 /\ WellFormed(text[comment]) /\ prods[idx'].value = NoValue
                     /\ prods' = [prods EXCEPT ![idx'] = Attached(prods[idx'], text[comment])]
                     /\ UNCHANGED <<phase, outcome>>
<1> USE TypeFacts DEF TypeInv
<1>1. comment \in 1 .. Len(text) /\ comment' = comment + 1 /\ phase = "annotate"
  BY DEF AttachAnnotation, TypeOK
<1>2. Forward(comment) \in idx .. Len(prods) /\ IsForward(Forward(comment), comment)
  <2>1. \A j \in 1 .. Len(prods) : prods[j].sp \in Nat
    <3>1. /\ \A j \in 1 .. Len(prods) : prods[j] \in RuleType(1 .. fresh, 1 .. Len(text))
          /\ Len(text) \in Nat
      OBVIOUS
    <3> HIDE TypeFacts DEF TypeInv
    <3>2. QED
      BY <3>1 DEF RuleType
  <2>2. idx \in 0 .. Len(prods) /\ comment \in Nat
    BY <1>1 DEF PlaceInv, TypeOK
  <2>3. QED
    BY <2>1, <2>2, ForwardStops
<1>3. CASE ~ Claims(text[comment])
  BY <1>1, <1>3 DEF AttachAnnotation
<1>4. CASE Claims(text[comment])
  BY <1>1, <1>2, <1>4 DEF AttachAnnotation, Refuse, Attached, ValueIn
<1>5. QED
  BY <1>3, <1>4

LEMMA AttachedIs ==
  ASSUME TypeInv, AttachAnnotation, NEW k \in 1 .. Len(prods),
         prods' = [prods EXCEPT ![k] = Attached(prods[k], text[comment])],
         Claims(text[comment]), WellFormed(text[comment])
  PROVE  /\ Len(prods') = Len(prods)
         /\ prods' \in Seq(RuleType(1 .. fresh, DOMAIN text))
         /\ \A j \in 1 .. Len(prods) : prods'[j] = IF j = k THEN Attached(prods[k], text[comment]) ELSE prods[j]
<1> USE TypeFacts DEF TypeInv
<1>1. text[comment] \in Comments /\ text[comment] \in Comment
  <2>1. comment \in 1 .. Len(text) /\ text[comment].tag = "comment"
    BY AttachDoes DEF Claims
  <2>2. QED
    BY <2>1, ConverterAssumption DEF Written, Comment
<1>2. ValueIn(text[comment]) \in Values
  <2>1. Meaningful(text[comment]) /\ text[comment].kind # "other"
    BY <1>1, WellFormedIsMeaningful DEF Claims
  <2>2. QED
    BY <1>1, <2>1 DEF Values, ValueIn
<1>3. Attached(prods[k], text[comment]) \in RuleType(1 .. fresh, DOMAIN text)
  BY <1>2 DEF Attached, RuleType
<1>4. prods \in Seq(RuleType(1 .. fresh, DOMAIN text))
  BY DEF TypeOK
<1> HIDE TypeFacts
<1>5. QED
  BY <1>3, <1>4, ExceptSeq

LEMMA AttachTyped ==
  ASSUME TypeInv, AttachAnnotation PROVE TypeInv'
<1> USE TypeFacts
<1>1. /\ Len(prods') = Len(prods) /\ prods' \in Seq(RuleType(1 .. fresh, DOMAIN text))
      /\ phase' \in {"annotate", "idle"} /\ comment' \in 1 .. Len(text) + 1
      /\ idx' \in 0 .. Len(prods)
  <2>1. /\ comment \in 1 .. Len(text) /\ comment' = comment + 1 /\ phase = "annotate"
        /\ idx \in 0 .. Len(prods) /\ (idx' \in idx .. Len(prods) \/ idx' = idx)
        /\ phase' \in {phase, "idle"}
    <3>1. idx \in 0 .. Len(text) /\ (phase = "annotate" => idx <= Len(prods))
      BY DEF TypeInv, TypeOK, PlaceInv
    <3>2. QED
      BY <3>1, AttachDoes DEF TypeInv
  <2>2. CASE prods' = prods
    BY <2>1, <2>2 DEF TypeInv, TypeOK
  <2>3. CASE prods' # prods
    <3>1. idx' \in 1 .. Len(prods)
      BY <2>1, <2>3, AttachDoes DEF TypeInv
    <3>2. /\ prods' = [prods EXCEPT ![idx'] = Attached(prods[idx'], text[comment])]
          /\ Claims(text[comment]) /\ WellFormed(text[comment])
      BY <2>3, AttachDoes
    <3>3. Len(prods') = Len(prods) /\ prods' \in Seq(RuleType(1 .. fresh, DOMAIN text))
      BY <3>1, <3>2, AttachedIs
    <3>4. QED
      BY <2>1, <3>3 DEF TypeInv, TypeOK
  <2>4. QED
    BY <2>2, <2>3
<1>2. /\ UNCHANGED <<text, merged, byName, core, scanned, added, cache, fresh>>
      /\ UNCHANGED <<grammars, calls, marked>>
  BY DEF AttachAnnotation, Refuse
<1>3. \A k \in 1 .. Len(prods') : prods'[k].name \in Names
  <2>1. CASE prods' = prods
    BY <2>1 DEF TypeInv, PlaceInv
  <2>2. CASE prods' # prods
    <3>1. /\ idx' \in 1 .. Len(prods)
          /\ prods' = [prods EXCEPT ![idx'] = Attached(prods[idx'], text[comment])]
          /\ Claims(text[comment]) /\ WellFormed(text[comment])
      BY <1>1, <2>2, AttachDoes DEF TypeInv
    <3>2. \A j \in 1 .. Len(prods) : prods'[j].name = prods[j].name
      BY <3>1, AttachedIs DEF Attached, RuleType, TypeInv
    <3>3. QED
      BY <1>1, <3>2 DEF TypeInv, PlaceInv
  <2>3. QED
    BY <2>1, <2>2
<1>4. TypeOK'
  <2>1. Len(prods) <= Len(text) /\ Len(prods) \in Nat /\ Len(text) \in Nat /\ TypeOK
    BY DEF TypeInv, PlaceInv
  <2> HIDE TypeFacts
  <2>2. idx' \in 0 .. Len(text)
    BY <1>1, <2>1
  <2>3. QED
    BY <1>1, <1>2, <2>1, <2>2 DEF TypeOK
<1>5. PlaceInv'
  BY <1>1, <1>2, <1>3 DEF TypeInv, TypeOK, PlaceInv
<1>6. QED
  BY <1>4, <1>5 DEF TypeInv

Kept(p) == Rule(fresh, p.name, p.alts, p.sp, p.value, p.core)
Folded(base, p) ==
  [base EXCEPT !.alts = @ \o p.alts, !.value = IF p.value # NoValue THEN p.value ELSE @]

\* What mergeIncrementals does with the next production: keeps it, folds it
\* into its base or refuses the text.
LEMMA MergeDoes ==
  ASSUME TypeInv, Merge
  PROVE  /\ phase = "merge" /\ Len(prods) > 0 /\ prods[1] \in RuleType(1 .. fresh, DOMAIN text)
         /\ prods' = Tail(prods) /\ Len(prods') = Len(prods) - 1
         /\ \A k \in 1 .. Len(prods') : prods'[k] = prods[k + 1]
         /\ prods[1].name \in Names /\ byName[prods[1].name] \in 0 .. Len(merged)
         /\ \/ /\ ~ IsIncremental(prods[1])
               /\ merged' = Append(merged, Kept(prods[1]))
               /\ byName' = [byName EXCEPT ![prods[1].name] = Len(merged) + 1]
               /\ fresh' = fresh + 1 /\ UNCHANGED <<phase, outcome>>
            \/ /\ IsIncremental(prods[1]) /\ UNCHANGED <<byName, fresh, merged>>
               /\ \/ byName[prods[1].name] = 0
                  \/ prods[1].value # NoValue /\ merged[byName[prods[1].name]].value # NoValue
               /\ phase' = "idle" /\ outcome' = "merge"
            \/ /\ IsIncremental(prods[1]) /\ UNCHANGED <<byName, fresh, phase, outcome>>
               /\ byName[prods[1].name] \in 1 .. Len(merged)
               /\ prods[1].value = NoValue \/ merged[byName[prods[1].name]].value = NoValue
               /\ merged' = [merged EXCEPT ![byName[prods[1].name]] = Folded(@, prods[1])]
         /\ UNCHANGED <<text, comment, core, scanned, added, cache, grammars, calls, marked>>
<1> USE TypeFacts DEF TypeInv
<1>1. /\ phase = "merge" /\ prods # <<>> /\ prods' = Tail(prods)
      /\ prods \in Seq(RuleType(1 .. fresh, DOMAIN text))
      /\ UNCHANGED <<text, comment, core, scanned, added, cache, grammars, calls, marked>>
  BY DEF Merge, TypeOK, Fold, Keep, Refuse
<1>2. /\ Len(prods) > 0 /\ Head(prods) = prods[1]
      /\ prods' = Tail(prods) /\ Len(prods') = Len(prods) - 1
      /\ \A k \in 1 .. Len(prods') : prods'[k] = prods[k + 1]
  BY <1>1, HeadTailProperties, EmptySeq
<1>a. PlaceInv /\ byName \in [Names -> 0 .. Len(merged)] /\ Len(prods) \in Nat
  BY DEF TypeOK
<1> HIDE TypeFacts DEF TypeInv
<1>3. prods[1].name \in Names /\ byName[prods[1].name] \in 0 .. Len(merged)
  BY <1>a, <1>2 DEF PlaceInv
<1>4. prods[1] \in RuleType(1 .. fresh, DOMAIN text)
  BY <1>1, <1>2, ElementOfSeq, LenProperties
<1>5. CASE ~ IsIncremental(prods[1])
  <2>1. Keep(prods[1])
    BY <1>2, <1>5 DEF Merge
  <2>2. QED
    BY <1>1, <1>2, <1>3, <1>4, <1>5, <2>1 DEF Keep, Kept
<1>6. CASE IsIncremental(prods[1])
  <2>1. Fold(prods[1])
    BY <1>2, <1>6 DEF Merge
  <2> DEFINE base == byName[prods[1].name]
  <2>2. CASE base = 0 \/ (prods[1].value # NoValue /\ merged[base].value # NoValue)
    <3>1. UNCHANGED <<byName, fresh, merged>> /\ phase' = "idle" /\ outcome' = "merge"
      BY <2>1, <2>2 DEF Fold, Refuse
    <3>2. QED
      BY <1>1, <1>2, <1>3, <1>4, <1>6, <2>2, <3>1
  <2>3. CASE ~ (base = 0 \/ (prods[1].value # NoValue /\ merged[base].value # NoValue))
    <3>1. merged' = [merged EXCEPT ![base].alts = @ \o prods[1].alts,
                       ![base].value = IF prods[1].value # NoValue THEN prods[1].value ELSE @]
      BY <2>1, <2>3 DEF Fold
    <3>2. base \in 1 .. Len(merged)
      BY <1>3, <2>3
    <3>3. merged' = [merged EXCEPT ![base] = Folded(@, prods[1])]
      BY <3>1, <3>2 DEF Folded
    <3>4. UNCHANGED <<byName, fresh, phase, outcome>>
      BY <2>1, <2>3 DEF Fold
    <3>5. QED
      BY <1>1, <1>2, <1>3, <1>4, <1>6, <2>3, <3>2, <3>3, <3>4
  <2>4. QED
    BY <2>2, <2>3
<1>7. QED
  BY <1>5, <1>6

LEMMA MergeTyped ==
  ASSUME TypeInv, Merge PROVE TypeInv'
<1>1. /\ phase = "merge" /\ Len(prods) > 0 /\ prods[1] \in RuleType(1 .. fresh, DOMAIN text)
      /\ prods' = Tail(prods) /\ Len(prods') = Len(prods) - 1
      /\ \A k \in 1 .. Len(prods') : prods'[k] = prods[k + 1]
      /\ prods[1].name \in Names /\ byName[prods[1].name] \in 0 .. Len(merged)
      /\ UNCHANGED <<text, comment, core, scanned, added, cache, grammars, calls, marked>>
  BY MergeDoes
<1>2. prods' \in Seq(RuleType(1 .. fresh, DOMAIN text))
  BY <1>1, HeadTailProperties, EmptySeq DEF TypeInv, TypeOK
<1>3. idx' = idx /\ phase' \in {"merge", "idle"}
  BY MergeDoes DEF Merge
<1>4. PlaceInv'
  <2>1. \A k \in 1 .. Len(prods') : prods'[k].name \in Names
    BY <1>1, TypeFacts DEF TypeInv, PlaceInv
  <2>2. Len(prods') <= Len(text')
    BY <1>1, TypeFacts DEF TypeInv, PlaceInv
  <2>3. QED
    BY <1>3, <2>1, <2>2 DEF PlaceInv
<1>5. CASE fresh' = fresh /\ byName' = byName /\ Len(merged') = Len(merged)
           /\ merged' \in Seq(RuleType(1 .. fresh, DOMAIN text))
  BY <1>1, <1>2, <1>3, <1>4, <1>5 DEF TypeInv, TypeOK
<1>6. CASE ~ IsIncremental(prods[1])
  <2>1. /\ merged' = Append(merged, Kept(prods[1])) /\ fresh' = fresh + 1
        /\ byName' = [byName EXCEPT ![prods[1].name] = Len(merged) + 1]
    BY <1>6, MergeDoes
  <2>2. /\ fresh \in Nat \ {0} /\ fresh <= fresh + 1 /\ fresh + 1 \in Nat \ {0}
        /\ 1 .. fresh \subseteq 1 .. fresh + 1 /\ Len(merged) \in Nat
    BY TypeFacts DEF TypeInv
  <2>3. /\ Seq(RuleType(1 .. fresh, DOMAIN text)) \subseteq Seq(RuleType(1 .. fresh + 1, DOMAIN text))
        /\ Seq(RuleType(1 .. fresh, {0})) \subseteq Seq(RuleType(1 .. fresh + 1, {0}))
        /\ RuleType(1 .. fresh, DOMAIN text) \subseteq RuleType(1 .. fresh + 1, DOMAIN text)
        /\ Seq(Seq(RuleType(1 .. fresh, 0 .. MaxItems)))
             \subseteq Seq(Seq(RuleType(1 .. fresh + 1, 0 .. MaxItems)))
    BY <2>2, RulesStay
  <2>4. Kept(prods[1]) \in RuleType(1 .. fresh + 1, DOMAIN text)
    <3>1. prods[1] \in RuleType(1 .. fresh + 1, DOMAIN text) /\ fresh \in 1 .. fresh + 1
      BY <1>1, <2>2, <2>3
    <3>2. QED
      BY <3>1 DEF Kept, Rule, RuleType
  <2>5. merged' \in Seq(RuleType(1 .. fresh + 1, DOMAIN text)) /\ Len(merged') = Len(merged) + 1
    <3>1. merged \in Seq(RuleType(1 .. fresh + 1, DOMAIN text))
      BY <2>3 DEF TypeInv, TypeOK
    <3>2. QED
      BY <2>1, <2>4, <3>1, AppendProperties
  <2>6. byName' \in [Names -> 0 .. Len(merged')]
    <3>1. byName \in [Names -> 0 .. Len(merged)]
      BY DEF TypeInv, TypeOK
    <3>2. QED
      BY <1>1, <2>1, <2>2, <2>5, <3>1
  <2>7. /\ prods' \in Seq(RuleType(1 .. fresh', DOMAIN text))
        /\ core' \in Seq(RuleType(1 .. fresh', {0})) /\ cache' \in Seq(RuleType(1 .. fresh', {0}))
        /\ grammars' \in Seq(Seq(RuleType(1 .. fresh', 0 .. MaxItems)))
        /\ marked' \subseteq 1 .. fresh' /\ fresh' \in Nat \ {0}
    BY <1>1, <1>2, <2>1, <2>2, <2>3 DEF TypeInv, TypeOK
  <2>8. TypeOK'
    BY <1>1, <1>3, <2>1, <2>5, <2>6, <2>7 DEF TypeInv, TypeOK
  <2>9. QED
    BY <1>4, <2>8 DEF TypeInv
<1>7. CASE IsIncremental(prods[1])
  <2>1. CASE UNCHANGED <<byName, fresh, merged>>
    BY <1>5, <2>1 DEF TypeInv, TypeOK
  <2>2. CASE ~ UNCHANGED <<byName, fresh, merged>>
    <3> DEFINE base == byName[prods[1].name]
    <3>1. /\ UNCHANGED <<byName, fresh>> /\ base \in 1 .. Len(merged)
          /\ merged' = [merged EXCEPT ![base] = Folded(@, prods[1])]
      BY <1>7, <2>2, MergeDoes
    <3>2. Folded(merged[base], prods[1]) \in RuleType(1 .. fresh, DOMAIN text)
      <4>1. merged[base] \in RuleType(1 .. fresh, DOMAIN text)
        BY <3>1, TypeFacts DEF TypeInv
      <4>2. merged[base].alts \o prods[1].alts \in Seq(LineType(1 .. fresh))
        BY <1>1, <4>1, ConcatProperties DEF RuleType
      <4>3. (IF prods[1].value # NoValue THEN prods[1].value ELSE merged[base].value) \in Values
        BY <1>1, <4>1 DEF RuleType
      <4>4. QED
        BY <4>1, <4>2, <4>3 DEF Folded, RuleType
    <3>3. merged' \in Seq(RuleType(1 .. fresh, DOMAIN text)) /\ Len(merged') = Len(merged)
      <4>1. merged \in Seq(RuleType(1 .. fresh, DOMAIN text))
        BY DEF TypeInv, TypeOK
      <4>2. QED
        BY <3>1, <3>2, <4>1, ExceptSeq
    <3>4. QED
      BY <1>5, <3>1, <3>3
  <2>3. QED
    BY <2>1, <2>2
<1>8. QED
  BY <1>6, <1>7

-----------------------------------------------------------------------------
(* The core rules.                                                         *)
LEMMA FunctionIsSeq ==
  ASSUME NEW S, NEW n \in Nat, NEW f \in [1 .. n -> S]
  PROVE  f \in Seq(S) /\ Len(f) = n
OBVIOUS

LEMMA CoreRulesTyped ==
  /\ Len(CoreRules) = 16 /\ DOMAIN CoreRules = 1 .. 16
  /\ \A i \in 1 .. 16 : CoreRules[i] \in [name: RuleNames(CoreRules), refs: SUBSET RuleNames(CoreRules)]
<1>1. Len(CoreRules) = 16 /\ DOMAIN CoreRules = 1 .. 16
  BY DEF CoreRules
<1>2. \A i \in 1 .. 16 : CoreRules[i].refs \subseteq {CoreRules[j].name : j \in 1 .. 16}
  <2>1. \A i \in 1 .. 16 : CoreRules[i].refs \in
          {{}, {"CR", "LF"}, {"DIGIT"}, {"SP", "HTAB"}, {"WSP", "CRLF"}}
    BY DEF CoreRules
  <2>2. /\ "CR" = CoreRules[4].name /\ "LF" = CoreRules[5].name /\ "CRLF" = CoreRules[6].name
        /\ "DIGIT" = CoreRules[8].name /\ "HTAB" = CoreRules[11].name
        /\ "SP" = CoreRules[13].name /\ "WSP" = CoreRules[15].name
    BY DEF CoreRules
  <2>3. {"CR", "LF", "CRLF", "DIGIT", "HTAB", "SP", "WSP"} \subseteq {CoreRules[j].name : j \in 1 .. 16}
    BY <2>2
  <2> HIDE DEF CoreRules
  <2> DEFINE names == {CoreRules[j].name : j \in 1 .. 16}
  <2> HIDE DEF names
  <2>4. ASSUME NEW R, R \in {{}, {"CR", "LF"}, {"DIGIT"}, {"SP", "HTAB"}, {"WSP", "CRLF"}},
               {"CR", "LF", "CRLF", "DIGIT", "HTAB", "SP", "WSP"} \subseteq names
        PROVE  R \subseteq names
    BY <2>4
  <2>5. ASSUME NEW i \in 1 .. 16 PROVE CoreRules[i].refs \subseteq names
    <3>1. CoreRules[i].refs \in {{}, {"CR", "LF"}, {"DIGIT"}, {"SP", "HTAB"}, {"WSP", "CRLF"}}
      BY <2>1
    <3>2. {"CR", "LF", "CRLF", "DIGIT", "HTAB", "SP", "WSP"} \subseteq names
      BY <2>3 DEF names
    <3>3. QED
      BY <2>4, <3>1, <3>2
  <2>6. QED
    BY <2>5 DEF names
<1>3. \A i \in 1 .. 16 : CoreRules[i] = [name |-> CoreRules[i].name, refs |-> CoreRules[i].refs]
  BY DEF CoreRules
<1> HIDE DEF CoreRules
<1>4. RuleNames(CoreRules) = {CoreRules[j].name : j \in 1 .. 16}
  BY <1>1 DEF RuleNames, ToSet
<1>5. ASSUME NEW i \in 1 .. 16
      PROVE  CoreRules[i] \in [name: RuleNames(CoreRules), refs: SUBSET RuleNames(CoreRules)]
  <2>1. CoreRules[i].name \in RuleNames(CoreRules) /\ CoreRules[i].refs \in SUBSET RuleNames(CoreRules)
    BY <1>2, <1>4
  <2>2. CoreRules[i] = [name |-> CoreRules[i].name, refs |-> CoreRules[i].refs]
    BY <1>3
  <2>3. \A N, R, x, y : x \in N /\ y \in R => [name |-> x, refs |-> y] \in [name: N, refs: R]
    OBVIOUS
  <2>4. QED
    BY <2>1, <2>2, <2>3
<1>6. QED
  BY <1>1, <1>5

\* What getCoreRules makes of each of the core rules.
ParsedRule(i) == Rule(fresh + 2 * i - 2, CoreRules[i].name,
       <<[obj |-> fresh + 2 * i - 1, refs |-> CoreRules[i].refs, hole |-> FALSE]>>,
       0, NoValue, TRUE)

LEMMA ParsedTyped ==
  ASSUME fresh \in Nat \ {0}
  PROVE  /\ Parsed \in Seq(RuleType(1 .. fresh + 32, {0})) /\ Len(Parsed) = 16
         /\ \A i \in 1 .. 16 : Parsed[i] = ParsedRule(i)
<1>1. ASSUME NEW i \in 1 .. 16 PROVE ParsedRule(i) \in RuleType(1 .. fresh + 32, {0})
  <2> DEFINE line == [obj |-> fresh + 2 * i - 1, refs |-> CoreRules[i].refs, hole |-> FALSE]
  <2>1. line \in LineType(1 .. fresh + 32)
    BY CoreRulesTyped DEF LineType
  <2> HIDE DEF line
  <2>2. <<line>> \in Seq(LineType(1 .. fresh + 32))
    BY <2>1
  <2>3. Rule(fresh + 2 * i - 2, CoreRules[i].name, <<line>>, 0, NoValue, TRUE)
          \in RuleType(1 .. fresh + 32, {0})
    <3>1. fresh + 2 * i - 2 \in 1 .. fresh + 32
      OBVIOUS
    <3>2. NoValue \in Values
      BY DEF Values
    <3>3. CoreRules[i].name \in RuleNames(CoreRules)
      BY CoreRulesTyped
    <3>4. QED
      BY <2>2, <3>1, <3>2, <3>3 DEF Rule, RuleType
  <2>4. QED
    BY <2>3 DEF ParsedRule, line
<1>2. Parsed = [i \in 1 .. 16 |-> ParsedRule(i)]
  BY CoreRulesTyped DEF Parsed, ParsedRule
<1>3. Parsed \in [1 .. 16 -> RuleType(1 .. fresh + 32, {0})]
  BY <1>1, <1>2
<1>4. QED
  BY <1>2, <1>3, FunctionIsSeq

LEMMA MergedTyped ==
  ASSUME TypeInv, Merged PROVE TypeInv'
<1>1. fresh \in Nat \ {0}
  BY TypeFacts DEF TypeInv
<1>2. PlaceInv'
  BY DEF Merged, work, TypeInv, PlaceInv
<1>3. CASE cache # <<>>
  BY <1>2, <1>3 DEF Merged, work, TypeInv, TypeOK
<1>4. CASE cache = <<>>
  <2>1. cache' = Parsed /\ fresh' = fresh + 32
    BY <1>1, <1>4, CoreRulesTyped DEF Merged
  <2>2. cache' \in Seq(RuleType(1 .. fresh', {0})) /\ scanned' \in 0 .. Len(cache')
    <3>1. Len(cache) = 0 /\ scanned' = scanned
      BY <1>4, EmptySeq DEF Merged, work
    <3>2. QED
      BY <1>1, <2>1, <3>1, ParsedTyped DEF TypeInv, TypeOK
  <2>3. /\ fresh <= fresh' /\ fresh' \in Nat \ {0} /\ 1 .. fresh \subseteq 1 .. fresh'
    BY <1>1, <2>1
  <2>4. /\ Seq(RuleType(1 .. fresh, DOMAIN text)) \subseteq Seq(RuleType(1 .. fresh', DOMAIN text))
        /\ Seq(RuleType(1 .. fresh, {0})) \subseteq Seq(RuleType(1 .. fresh', {0}))
        /\ Seq(Seq(RuleType(1 .. fresh, 0 .. MaxItems)))
             \subseteq Seq(Seq(RuleType(1 .. fresh', 0 .. MaxItems)))
    BY <1>1, <2>3, RulesStay
  <2>5. TypeOK'
    BY <2>2, <2>3, <2>4 DEF Merged, work, TypeInv, TypeOK
  <2>6. QED
    BY <1>2, <2>5 DEF TypeInv
<1>5. QED
  BY <1>3, <1>4

\* A clone has a new object for the rule and for each of its lines.
LEMMA CloneIs ==
  ASSUME fresh \in Nat \ {0}, NEW S, NEW r \in RuleType(1 .. fresh, S)
  PROVE  /\ Clone(r).obj = fresh /\ Clone(r).name = r.name /\ Clone(r).sp = r.sp
         /\ Clone(r).value = r.value /\ Clone(r).core = r.core
         /\ Len(r.alts) \in Nat /\ Len(Clone(r).alts) = Len(r.alts)
         /\ \A i \in 1 .. Len(r.alts) : Clone(r).alts[i] = [r.alts[i] EXCEPT !.obj = fresh + i]
         /\ Clone(r) \in RuleType(1 .. fresh + 1 + Len(r.alts), S)
<1> DEFINE n == Len(r.alts)
           lines == [i \in 1 .. n |-> [r.alts[i] EXCEPT !.obj = fresh + i]]
<1>1. r.alts \in Seq(LineType(1 .. fresh)) /\ n \in Nat /\ DOMAIN r.alts = 1 .. n
  BY LenProperties DEF RuleType
<1>2. Clone(r) = [r EXCEPT !.obj = fresh, !.alts = lines]
  BY <1>1 DEF Clone
<1>3. lines \in Seq(LineType(1 .. fresh + 1 + n)) /\ Len(lines) = n
  <2>1. ASSUME NEW i \in 1 .. n PROVE lines[i] \in LineType(1 .. fresh + 1 + n)
    <3>1. r.alts[i] \in LineType(1 .. fresh)
      BY <1>1, ElementOfSeq
    <3>2. fresh + i \in 1 .. fresh + 1 + n
      <4> HIDE DEF n, lines
      <4>1. QED
        BY <1>1
    <3>3. QED
      BY <3>1, <3>2 DEF LineType
  <2>2. lines \in [1 .. n -> LineType(1 .. fresh + 1 + n)]
    BY <2>1
  <2> HIDE DEF lines
  <2>3. QED
    BY <1>1, <2>2, FunctionIsSeq
<1>4. fresh \in 1 .. fresh + 1 + n
  <2> HIDE DEF n, lines
  <2>1. QED
    BY <1>1
<1>5. \A i \in 1 .. n : lines[i] = [r.alts[i] EXCEPT !.obj = fresh + i]
  OBVIOUS
<1> HIDE DEF lines
<1>6. QED
  BY <1>1, <1>2, <1>3, <1>4, <1>5 DEF RuleType

\* What a step of the pass over the table does.
LEMMA AddCoreDoes ==
  ASSUME TypeInv, AddCore
  PROVE  \E i \in 1 .. Len(cache) :
           /\ scanned < i /\ Wanted(i) /\ \A j \in scanned + 1 .. i - 1 : ~ Wanted(j)
           /\ cache[i] \in RuleType(1 .. fresh, {0}) /\ Len(cache[i].alts) \in Nat
           /\ scanned' = i /\ added' = TRUE
           /\ core' = Append(core, Clone(cache[i])) /\ fresh' = fresh + 1 + Len(cache[i].alts)
           /\ defined' = defined \union {cache[i].name}
           /\ needed' = needed \union Refs(<<cache[i]>>)
<1>1. PICK i \in scanned + 1 .. Len(cache) :
       /\ Wanted(i) /\ \A j \in scanned + 1 .. i - 1 : ~ Wanted(j)
       /\ scanned' = i
       /\ core' = Append(core, Clone(cache[i]))
       /\ defined' = defined \union {cache[i].name}
       /\ needed' = needed \union Refs(<<cache[i]>>)
       /\ fresh' = fresh + 1 + Len(cache[i].alts)
  BY DEF AddCore
<1>2. scanned \in 0 .. Len(cache) /\ Len(cache) \in Nat
  BY TypeFacts DEF TypeInv, TypeOK
<1>3. i \in 1 .. Len(cache) /\ scanned < i
  BY <1>2
<1>4. cache[i] \in RuleType(1 .. fresh, {0}) /\ Len(cache[i].alts) \in Nat
  <2>1. cache[i] \in RuleType(1 .. fresh, {0})
    BY <1>3, TypeFacts DEF TypeInv
  <2>2. QED
    BY <2>1, TypeFacts, CloneIs DEF TypeInv
<1>5. added' = TRUE
  BY DEF AddCore
<1>6. QED
  BY <1>1, <1>3, <1>4, <1>5

LEMMA AddCoreTyped ==
  ASSUME TypeInv, AddCore PROVE TypeInv'
<1>1. PICK i \in 1 .. Len(cache) :
        /\ cache[i] \in RuleType(1 .. fresh, {0}) /\ Len(cache[i].alts) \in Nat
        /\ scanned' = i /\ added' = TRUE
        /\ core' = Append(core, Clone(cache[i])) /\ fresh' = fresh + 1 + Len(cache[i].alts)
  BY AddCoreDoes
<1>2. fresh \in Nat \ {0} /\ fresh <= fresh' /\ fresh' \in Nat \ {0} /\ 1 .. fresh \subseteq 1 .. fresh'
  <2>1. PICK n \in Nat : fresh' = fresh + 1 + n
    BY <1>1
  <2>2. fresh \in Nat \ {0}
    BY TypeFacts DEF TypeInv
  <2>3. QED
    BY <2>1, <2>2
<1>3. /\ Seq(RuleType(1 .. fresh, DOMAIN text)) \subseteq Seq(RuleType(1 .. fresh', DOMAIN text))
      /\ Seq(RuleType(1 .. fresh, {0})) \subseteq Seq(RuleType(1 .. fresh', {0}))
      /\ Seq(Seq(RuleType(1 .. fresh, 0 .. MaxItems)))
           \subseteq Seq(Seq(RuleType(1 .. fresh', 0 .. MaxItems)))
  BY <1>2, RulesStay
<1>4. Clone(cache[i]) \in RuleType(1 .. fresh', {0})
  BY <1>1, <1>2, CloneIs
<1>5. core' \in Seq(RuleType(1 .. fresh', {0}))
  <2>1. core \in Seq(RuleType(1 .. fresh', {0}))
    BY <1>3 DEF TypeInv, TypeOK
  <2>2. QED
    BY <1>1, <1>4, <2>1, AppendProperties
<1>6. scanned' \in 0 .. Len(cache') /\ added' \in BOOLEAN
  BY <1>1, TypeFacts DEF AddCore, TypeInv
<1>7. TypeOK'
  BY <1>2, <1>3, <1>5, <1>6 DEF AddCore, TypeInv, TypeOK
<1>8. PlaceInv'
  BY DEF AddCore, TypeInv, PlaceInv
<1>9. QED
  BY <1>7, <1>8 DEF TypeInv

LEMMA ReturnTyped ==
  ASSUME TypeInv, Return PROVE TypeInv'
<1>1. fresh \in Nat /\ fresh <= fresh /\ DOMAIN text \subseteq 0 .. MaxItems /\ {0} \subseteq 0 .. MaxItems
  BY TypeFacts, ConverterAssumption DEF TypeInv, TypeOK
<1>2. /\ Seq(RuleType(1 .. fresh, DOMAIN text)) \subseteq Seq(RuleType(1 .. fresh, 0 .. MaxItems))
      /\ Seq(RuleType(1 .. fresh, {0})) \subseteq Seq(RuleType(1 .. fresh, 0 .. MaxItems))
  BY <1>1, RulesStay
<1>3. merged \o core \in Seq(RuleType(1 .. fresh, 0 .. MaxItems))
  <2>1. /\ merged \in Seq(RuleType(1 .. fresh, 0 .. MaxItems))
        /\ core \in Seq(RuleType(1 .. fresh, 0 .. MaxItems))
    BY <1>2 DEF TypeInv, TypeOK
  <2>2. QED
    BY <2>1, ConcatProperties
<1>4. grammars' \in Seq(Seq(RuleType(1 .. fresh, 0 .. MaxItems)))
  BY <1>3, AppendProperties DEF Return, TypeInv, TypeOK
<1>5. QED
  BY <1>4 DEF Return, work, TypeInv, TypeOK, PlaceInv

LEMMA NextPassTyped ==
  ASSUME TypeInv, NextPass PROVE TypeInv'
<1>1. scanned' \in 0 .. Len(cache')
  BY TypeFacts DEF NextPass, TypeInv
<1>2. added' \in BOOLEAN
  BY DEF NextPass
<1>3. QED
  BY <1>1, <1>2 DEF NextPass, TypeInv, TypeOK, PlaceInv

LEMMA TypeNext == TypeInv /\ [Next]_vars => TypeInv'
<1> SUFFICES ASSUME TypeInv, [Next]_vars PROVE TypeInv'
  OBVIOUS
<1>1. CASE UNCHANGED vars
  BY <1>1 DEF vars, TypeInv, TypeOK, PlaceInv
<1>2. CASE Call
  BY <1>2, CallTyped
<1>3. CASE ReadProduction
  BY <1>3, ReadProductionTyped
<1>4. CASE ReadComment
  BY <1>4, ReadCommentTyped
<1>5. CASE ParseError \/ ReadAll \/ AllAttached \/ RejectHoles \/ CallerWrites
  BY <1>5, StageTyped
<1>6. CASE AttachAnnotation
  BY <1>6, AttachTyped
<1>7. CASE Merge
  BY <1>7, MergeTyped
<1>8. CASE Merged
  BY <1>8, MergedTyped
<1>9. CASE AddCore
  BY <1>9, AddCoreTyped
<1>10. CASE NextPass
  BY <1>10, NextPassTyped
<1>11. CASE Return
  BY <1>11, ReturnTyped
<1>12. QED
  BY <1>1, <1>2, <1>3, <1>4, <1>5, <1>6, <1>7, <1>8, <1>9, <1>10, <1>11 DEF Next, Proceed

THEOREM TypeInvariant == Spec => []TypeInv
BY TypeInit, TypeNext, PTL DEF Spec

\* Throughout every run of the converter, for all texts, names and bounds,
\* its state has the types TypeOK gives it: in particular a production
\* carries no value annotation but a well-formed one, and the positions
\* kept in byName are positions in merged (parseAbnf, converter.ts).
THEOREM TypeCorrect == Spec => []TypeOK
<1>1. TypeInv => TypeOK
  BY DEF TypeInv
<1>2. QED
  BY <1>1, TypeInvariant, PTL

-----------------------------------------------------------------------------
(* Callers share nothing.                                                  *)
Disjoint(S, T) == S \intersect T = {}

\* The objects of a call that is under way.
InWork == IF phase = "idle" THEN {} ELSE Objects(prods) \union Objects(merged) \union Objects(core)
InUse == 1 .. fresh - 1

\* The objects of the grammars, of the table and of the call under way are
\* all made already, and no two of these have one in common.
IsolationInv ==
  /\ InWork \subseteq InUse /\ Objects(cache) \subseteq InUse
  /\ Disjoint(InWork, Objects(cache))
  /\ \A i \in DOMAIN grammars :
       /\ Objects(grammars[i]) \subseteq InUse
       /\ Disjoint(Objects(grammars[i]), InWork) /\ Disjoint(Objects(grammars[i]), Objects(cache))
       /\ \A j \in DOMAIN grammars : i # j => Disjoint(Objects(grammars[i]), Objects(grammars[j]))
  /\ \A o \in marked : \E i \in DOMAIN grammars : o \in Objects(grammars[i])

LEMMA ObjectsOfEmpty == Objects(<<>>) = {}
BY ObjectsAre

LEMMA ObjectsOfAppend ==
  ASSUME NEW S, NEW s \in Seq(S), NEW r
  PROVE  Objects(Append(s, r)) = Objects(s) \union ObjectsOf(r)
<1>1. /\ DOMAIN s = 1 .. Len(s) /\ DOMAIN Append(s, r) = 1 .. Len(s) + 1 /\ Len(s) \in Nat
      /\ Append(s, r)[Len(s) + 1] = r /\ \A k \in 1 .. Len(s) : Append(s, r)[k] = s[k]
  <2>1. Append(s, r) \in Seq(S \union {r})
    BY SeqMonotonic, AppendProperties
  <2>2. QED
    BY <2>1, AppendIs, LenProperties
<1>2. 1 .. Len(s) + 1 = (1 .. Len(s)) \union {Len(s) + 1}
  BY <1>1
<1>3. QED
  BY <1>1, <1>2, ObjectsAre

LEMMA ObjectsOfConcat ==
  ASSUME NEW S, NEW s \in Seq(S), NEW t \in Seq(S)
  PROVE  Objects(s \o t) = Objects(s) \union Objects(t)
<1>1. /\ Len(s) \in Nat /\ Len(t) \in Nat /\ DOMAIN s = 1 .. Len(s) /\ DOMAIN t = 1 .. Len(t)
      /\ DOMAIN (s \o t) = 1 .. Len(s) + Len(t)
      /\ \A k \in 1 .. Len(s) + Len(t) : (s \o t)[k] = IF k <= Len(s) THEN s[k] ELSE t[k - Len(s)]
  BY ConcatProperties, LenProperties
<1>2. Objects(s \o t) \subseteq Objects(s) \union Objects(t)
  <2> SUFFICES ASSUME NEW k \in 1 .. Len(s) + Len(t)
               PROVE  ObjectsOf((s \o t)[k]) \subseteq Objects(s) \union Objects(t)
    BY <1>1, ObjectsWithin
  <2>1. CASE k <= Len(s)
    <3>1. k \in DOMAIN s /\ (s \o t)[k] = s[k]
      BY <1>1, <2>1
    <3>2. QED
      BY <3>1, ObjectsAre
  <2>2. CASE k > Len(s)
    <3>1. k - Len(s) \in DOMAIN t /\ (s \o t)[k] = t[k - Len(s)]
      BY <1>1, <2>2
    <3>2. QED
      BY <3>1, ObjectsAre
  <2>3. QED
    BY <1>1, <2>1, <2>2
<1>3. Objects(s) \subseteq Objects(s \o t)
  <2> SUFFICES ASSUME NEW k \in 1 .. Len(s) PROVE ObjectsOf(s[k]) \subseteq Objects(s \o t)
    BY <1>1, ObjectsAre
  <2>1. k \in DOMAIN (s \o t) /\ (s \o t)[k] = s[k]
    BY <1>1
  <2>2. QED
    BY <2>1, ObjectsAre
<1>4. Objects(t) \subseteq Objects(s \o t)
  <2> SUFFICES ASSUME NEW k \in 1 .. Len(t) PROVE ObjectsOf(t[k]) \subseteq Objects(s \o t)
    BY <1>1, ObjectsAre
  <2>1. k + Len(s) \in DOMAIN (s \o t) /\ (s \o t)[k + Len(s)] = t[k]
    BY <1>1
  <2>2. QED
    BY <2>1, ObjectsAre
<1>5. QED
  BY <1>2, <1>3, <1>4

LEMMA Ranges ==
  ASSUME NEW f \in Nat \ {0}, NEW g \in Nat, f <= g
  PROVE  /\ 1 .. f - 1 \subseteq 1 .. g - 1 /\ f .. g - 1 \subseteq 1 .. g - 1
         /\ Disjoint(1 .. f - 1, f .. g - 1)
BY DEF Disjoint

LEMMA LinesJoin ==
  ASSUME NEW S, NEW s \in Seq(S), NEW t \in Seq(S)
  PROVE  ToSet(s \o t) = ToSet(s) \union ToSet(t)
<1>1. /\ Len(s) \in Nat /\ Len(t) \in Nat /\ DOMAIN s = 1 .. Len(s) /\ DOMAIN t = 1 .. Len(t)
      /\ DOMAIN (s \o t) = 1 .. Len(s) + Len(t)
      /\ \A k \in 1 .. Len(s) + Len(t) : (s \o t)[k] = IF k <= Len(s) THEN s[k] ELSE t[k - Len(s)]
  BY ConcatProperties, LenProperties
<1>2. ToSet(s \o t) \subseteq ToSet(s) \union ToSet(t)
  BY <1>1 DEF ToSet
<1>3. ASSUME NEW k \in DOMAIN s PROVE s[k] \in ToSet(s \o t)
  <2>1. k \in DOMAIN (s \o t) /\ (s \o t)[k] = s[k]
    BY <1>1
  <2>2. QED
    BY <2>1 DEF ToSet
<1>4. ASSUME NEW k \in DOMAIN t PROVE t[k] \in ToSet(s \o t)
  <2>1. k + Len(s) \in DOMAIN (s \o t) /\ (s \o t)[k + Len(s)] = t[k]
    BY <1>1
  <2>2. QED
    BY <2>1 DEF ToSet
<1>5. QED
  BY <1>2, <1>3, <1>4 DEF ToSet

\* What keeps the objects apart: a step makes new ones in the call under
\* way, or hands them over.
LEMMA Working ==
  ASSUME IsolationInv, fresh \in Nat \ {0}, fresh' \in Nat, fresh <= fresh',
         InWork' \subseteq InWork \union (fresh .. fresh' - 1),
         UNCHANGED <<cache, grammars, marked>>
  PROVE  IsolationInv'
<1> DEFINE New == fresh .. fresh' - 1
<1>1. Disjoint(InUse, New)
  BY Ranges DEF InUse
<1>2. InUse \subseteq InUse' /\ InWork' \subseteq InUse'
  <2>1. InUse \subseteq InUse' /\ New \subseteq InUse'
    BY Ranges DEF InUse
  <2>2. QED
    BY <2>1 DEF IsolationInv
<1> HIDE DEF New
<1>3. Disjoint(InWork', Objects(cache)) /\ Objects(cache) \subseteq InUse'
  BY <1>1, <1>2 DEF IsolationInv, Disjoint, New
<1>4. \A i \in DOMAIN grammars : /\ Objects(grammars[i]) \subseteq InUse'
                                /\ Disjoint(Objects(grammars[i]), InWork')
  BY <1>1, <1>2 DEF IsolationInv, Disjoint, New
<1>5. QED
  BY <1>2, <1>3, <1>4 DEF IsolationInv

LEMMA ReadIsolated ==
  ASSUME TypeInv, IsolationInv, Call \/ ReadProduction \/ ReadComment
  PROVE  IsolationInv'
<1>1. fresh \in Nat \ {0} /\ fresh <= fresh
  BY TypeFacts DEF TypeInv
<1>2. CASE Call
  <2>1. InWork' = {}
    BY <1>2, ObjectsOfEmpty DEF Call, InWork
  <2>2. QED
    BY <1>1, <1>2, <2>1, Working DEF Call
<1>3. CASE ReadProduction
  <2>1. PICK p \in Productions :
          prods' = Append(prods,
            Rule(fresh, p.name, <<[obj |-> fresh + 1, refs |-> p.refs, hole |-> p.hole]>>,
                 Len(text) + 1, NoValue, FALSE))
    BY <1>3 DEF ReadProduction
  <2>2. Objects(prods') = Objects(prods) \union {fresh, fresh + 1}
    <3> DEFINE line == [obj |-> fresh + 1, refs |-> p.refs, hole |-> p.hole]
               r == Rule(fresh, p.name, <<line>>, Len(text) + 1, NoValue, FALSE)
    <3>1. r.obj = fresh /\ r.alts = <<line>> /\ line.obj = fresh + 1
      BY DEF Rule
    <3> HIDE DEF line, r
    <3>2. ObjectsOf(r) = {fresh, fresh + 1}
      BY <3>1 DEF ObjectsOf, ToSet
    <3>3. prods \in Seq(RuleType(1 .. fresh, DOMAIN text))
      BY DEF TypeInv, TypeOK
    <3>4. Objects(prods') = Objects(prods) \union ObjectsOf(r)
      BY <2>1, <3>3, ObjectsOfAppend DEF line, r
    <3>5. QED
      BY <3>2, <3>4
  <2>3. fresh' = fresh + 2 /\ {fresh, fresh + 1} \subseteq fresh .. fresh' - 1
    BY <1>1, <1>3 DEF ReadProduction
  <2>4. InWork' \subseteq InWork \union (fresh .. fresh' - 1)
    BY <1>3, <2>2, <2>3 DEF ReadProduction, InWork
  <2>5. QED
    BY <1>1, <1>3, <2>3, <2>4, Working DEF ReadProduction
<1>4. CASE ReadComment
  <2>1. InWork' = InWork
    BY <1>4 DEF ReadComment, work, InWork
  <2>2. QED
    BY <1>1, <1>4, <2>1, Working DEF ReadComment
<1>5. QED
  BY <1>2, <1>3, <1>4

LEMMA StageIsolated ==
  ASSUME TypeInv, IsolationInv, ParseError \/ ReadAll \/ AllAttached \/ RejectHoles \/ NextPass
  PROVE  IsolationInv'
<1>1. fresh \in Nat \ {0} /\ fresh <= fresh
  BY TypeFacts DEF TypeInv
<1>2. /\ UNCHANGED <<prods, merged, core, fresh, cache, grammars, marked>>
      /\ phase = "idle" => phase' = "idle"
  BY DEF ParseError, ReadAll, AllAttached, RejectHoles, NextPass, Refuse, work
<1>3. InWork' \subseteq InWork
  BY <1>2 DEF InWork
<1>4. QED
  BY <1>1, <1>2, <1>3, Working

LEMMA AttachIsolated ==
  ASSUME TypeInv, IsolationInv, AttachAnnotation
  PROVE  IsolationInv'
<1>1. fresh \in Nat \ {0} /\ fresh <= fresh
  BY TypeFacts DEF TypeInv
<1>2. /\ UNCHANGED <<merged, core, fresh, cache, grammars, marked>> /\ phase = "annotate"
  BY DEF AttachAnnotation, Refuse
<1>3. Objects(prods') = Objects(prods)
  <2>1. CASE prods' = prods
    BY <2>1
  <2>2. CASE prods' # prods
    <3>1. idx' \in 1 .. Len(prods)
      <4>1. idx \in 0 .. Len(prods) /\ Len(prods) \in Nat
        BY <1>2, TypeFacts DEF TypeInv, TypeOK, PlaceInv
      <4>2. QED
        BY <2>2, <4>1, AttachDoes
    <3>2. /\ prods' = [prods EXCEPT ![idx'] = Attached(prods[idx'], text[comment])]
          /\ Claims(text[comment]) /\ WellFormed(text[comment])
      BY <2>2, AttachDoes
    <3>3. /\ DOMAIN prods = 1 .. Len(prods) /\ DOMAIN prods' = 1 .. Len(prods)
          /\ \A j \in 1 .. Len(prods) : prods'[j] =
                IF j = idx' THEN Attached(prods[idx'], text[comment]) ELSE prods[j]
          /\ prods[idx'] \in RuleType(1 .. fresh, 1 .. Len(text))
      <4>1. prods \in Seq(RuleType(1 .. fresh, DOMAIN text))
        BY DEF TypeInv, TypeOK
      <4>2. QED
        BY <3>1, <3>2, <4>1, AttachedIs, LenProperties, TypeFacts DEF TypeInv
    <3>4. ObjectsOf(Attached(prods[idx'], text[comment])) = ObjectsOf(prods[idx'])
      BY <3>3 DEF Attached, RuleType, ObjectsOf
    <3>5. \A j \in 1 .. Len(prods) : ObjectsOf(prods'[j]) = ObjectsOf(prods[j])
      BY <3>3, <3>4
    <3>6. QED
      BY <3>3, <3>5, ObjectsAre
  <2>3. QED
    BY <2>1, <2>2
<1>4. InWork' \subseteq InWork
  BY <1>2, <1>3 DEF InWork
<1>5. QED
  BY <1>1, <1>2, <1>4, Working

LEMMA MergeIsolated ==
  ASSUME TypeInv, IsolationInv, Merge
  PROVE  IsolationInv'
<1>1. fresh \in Nat \ {0} /\ fresh <= fresh
  BY TypeFacts DEF TypeInv
<1>2. /\ phase = "merge" /\ Len(prods) > 0 /\ prods[1] \in RuleType(1 .. fresh, DOMAIN text)
      /\ Len(prods') = Len(prods) - 1 /\ prods' = Tail(prods)
      /\ \A k \in 1 .. Len(prods') : prods'[k] = prods[k + 1]
      /\ byName[prods[1].name] \in 0 .. Len(merged)
      /\ UNCHANGED <<core, cache, grammars, marked>>
  BY MergeDoes
<1>3. ObjectsOf(prods[1]) \subseteq Objects(prods) /\ Objects(prods') \subseteq Objects(prods)
  <2>1. /\ prods \in Seq(RuleType(1 .. fresh, DOMAIN text)) /\ Len(prods) \in Nat
        /\ DOMAIN prods = 1 .. Len(prods)
    BY LenProperties DEF TypeInv, TypeOK
  <2>2. prods' \in Seq(RuleType(1 .. fresh, DOMAIN text))
    BY <1>2, <2>1, HeadTailProperties, EmptySeq
  <2>3. DOMAIN prods' = 1 .. Len(prods) - 1
    BY <1>2, <2>2, LenProperties
  <2>4. \A k \in DOMAIN prods' : k + 1 \in DOMAIN prods /\ prods'[k] = prods[k + 1]
    BY <1>2, <2>1, <2>3
  <2>5. \A k \in DOMAIN prods : ObjectsOf(prods[k]) \subseteq Objects(prods)
    BY ObjectsWithin
  <2>6. 1 \in DOMAIN prods /\ \A k \in DOMAIN prods' : ObjectsOf(prods'[k]) \subseteq Objects(prods)
    <3>1. 1 \in DOMAIN prods
      BY <1>2, <2>1
    <3>2. QED
      BY <2>4, <2>5, <3>1
  <2>7. QED
    BY <2>5, <2>6, ObjectsWithin
<1>4. merged \in Seq(RuleType(1 .. fresh, DOMAIN text))
  BY DEF TypeInv, TypeOK
<1>5. CASE ~ IsIncremental(prods[1])
  <2>1. merged' = Append(merged, Kept(prods[1])) /\ fresh' = fresh + 1
    BY <1>5, MergeDoes
  <2>2. ObjectsOf(Kept(prods[1])) \subseteq ObjectsOf(prods[1]) \union {fresh}
    BY DEF Kept, Rule, ObjectsOf
  <2>3. Objects(merged') \subseteq Objects(merged) \union Objects(prods) \union {fresh}
    BY <1>3, <1>4, <2>1, <2>2, ObjectsOfAppend
  <2>4. fresh \in fresh .. fresh' - 1 /\ fresh' \in Nat /\ fresh <= fresh'
    BY <1>1, <2>1
  <2>5. InWork' \subseteq InWork \union (fresh .. fresh' - 1)
    BY <1>2, <1>3, <2>3, <2>4 DEF InWork
  <2>6. QED
    BY <1>1, <1>2, <2>4, <2>5, Working
<1>6. CASE IsIncremental(prods[1])
  <2>1. Objects(merged') \subseteq Objects(merged) \union Objects(prods) /\ fresh' = fresh
    <3>1. CASE merged' = merged
      BY <1>6, <3>1, MergeDoes
    <3>2. CASE merged' # merged
      <4> DEFINE base == byName[prods[1].name]
      <4>1. /\ fresh' = fresh /\ base \in 1 .. Len(merged)
            /\ merged' = [merged EXCEPT ![base] = Folded(@, prods[1])]
        BY <1>6, <3>2, MergeDoes
      <4>2. merged[base] \in RuleType(1 .. fresh, DOMAIN text)
        BY <1>4, <4>1, ElementOfSeq
      <4>3. ObjectsOf(Folded(merged[base], prods[1])) \subseteq ObjectsOf(merged[base]) \union ObjectsOf(prods[1])
        <5> DEFINE a == merged[base].alts
                   b == prods[1].alts
        <5>1. a \in Seq(LineType(1 .. fresh)) /\ b \in Seq(LineType(1 .. fresh))
          BY <1>2, <4>2 DEF RuleType
        <5>2. ToSet(a \o b) \subseteq ToSet(a) \union ToSet(b)
          BY <5>1, LinesJoin
        <5>3. /\ Folded(merged[base], prods[1]).obj = merged[base].obj
              /\ Folded(merged[base], prods[1]).alts = a \o b
          BY <4>2 DEF Folded, RuleType
        <5> HIDE DEF base
        <5>4. QED
          BY <5>2, <5>3 DEF ObjectsOf
      <4> HIDE DEF base
      <4>4. /\ DOMAIN merged = 1 .. Len(merged) /\ DOMAIN merged' = DOMAIN merged
            /\ \A j \in DOMAIN merged :
                 merged'[j] = IF j = base THEN Folded(merged[base], prods[1]) ELSE merged[j]
        BY <1>4, <4>1, LenProperties
      <4>5. \A j \in DOMAIN merged : ObjectsOf(merged'[j]) \subseteq ObjectsOf(merged[j]) \union ObjectsOf(prods[1])
        BY <4>3, <4>4
      <4>6. \A j \in DOMAIN merged : ObjectsOf(merged[j]) \subseteq Objects(merged)
        BY ObjectsWithin
      <4>7. Objects(merged') \subseteq Objects(merged) \union Objects(prods)
        <5>1. ObjectsOf(prods[1]) \subseteq Objects(prods)
          BY <1>3
        <5>2. \A j \in DOMAIN merged' : ObjectsOf(merged'[j]) \subseteq Objects(merged) \union Objects(prods)
          BY <4>4, <4>5, <4>6, <5>1
        <5>3. QED
          BY <5>2, ObjectsWithin
      <4>8. QED
        BY <4>1, <4>7
    <3>3. QED
      BY <3>1, <3>2
  <2>2. InWork' \subseteq InWork
    BY <1>2, <1>3, <2>1 DEF InWork
  <2>3. QED
    BY <1>1, <1>2, <2>1, <2>2, Working
<1>7. QED
  BY <1>5, <1>6

\* The table of core rules is made of new objects, as the clones of its
\* rules are.
LEMMA MergedIsolated ==
  ASSUME TypeInv, IsolationInv, Merged
  PROVE  IsolationInv'
<1>1. fresh \in Nat \ {0}
  BY TypeFacts DEF TypeInv
<1>2. InWork' = InWork /\ UNCHANGED <<grammars, marked>>
  BY DEF Merged, work, InWork
<1>3. CASE cache # <<>>
  BY <1>1, <1>2, <1>3, Working DEF Merged
<1>4. CASE cache = <<>>
  <2>1. cache' = Parsed /\ fresh' = fresh + 32
    BY <1>1, <1>4, CoreRulesTyped DEF Merged
  <2> DEFINE New == fresh .. fresh' - 1
  <2>2. Objects(cache') \subseteq New
    <3>1. ASSUME NEW i \in 1 .. 16 PROVE ObjectsOf(ParsedRule(i)) \subseteq New
      <4>1. ObjectsOf(ParsedRule(i)) = {fresh + 2 * i - 2, fresh + 2 * i - 1}
        BY DEF ParsedRule, Rule, ObjectsOf, ToSet
      <4>2. QED
        BY <1>1, <2>1, <4>1
    <3>2. DOMAIN Parsed = 1 .. 16 /\ \A i \in 1 .. 16 : Parsed[i] = ParsedRule(i)
      BY <1>1, ParsedTyped, LenProperties
    <3> HIDE DEF New
    <3>3. QED
      BY <2>1, <3>1, <3>2, ObjectsWithin
  <2>3. InUse \subseteq InUse' /\ New \subseteq InUse' /\ Disjoint(InUse, New)
    <3>1. fresh' \in Nat /\ fresh <= fresh'
      BY <1>1, <2>1
    <3>2. QED
      BY <1>1, <3>1, Ranges DEF InUse
  <2> HIDE DEF New
  <2>4. InWork' \subseteq InUse' /\ Objects(cache') \subseteq InUse' /\ Disjoint(InWork', Objects(cache'))
    BY <1>2, <2>2, <2>3 DEF IsolationInv, Disjoint
  <2>5. \A i \in DOMAIN grammars : /\ Objects(grammars[i]) \subseteq InUse'
                                  /\ Disjoint(Objects(grammars[i]), InWork')
                                  /\ Disjoint(Objects(grammars[i]), Objects(cache'))
    BY <1>2, <2>2, <2>3 DEF IsolationInv, Disjoint
  <2>6. QED
    BY <1>2, <2>4, <2>5 DEF IsolationInv
<1>5. QED
  BY <1>3, <1>4

LEMMA AddCoreIsolated ==
  ASSUME TypeInv, IsolationInv, AddCore
  PROVE  IsolationInv'
<1>1. PICK i \in 1 .. Len(cache) :
        /\ cache[i] \in RuleType(1 .. fresh, {0}) /\ Len(cache[i].alts) \in Nat
        /\ core' = Append(core, Clone(cache[i])) /\ fresh' = fresh + 1 + Len(cache[i].alts)
  BY AddCoreDoes
<1>2. fresh \in Nat \ {0} /\ fresh' \in Nat /\ fresh <= fresh' /\ fresh \in fresh .. fresh' - 1
  <2>1. PICK n \in Nat : fresh' = fresh + 1 + n
    BY <1>1
  <2>2. fresh \in Nat \ {0}
    BY TypeFacts DEF TypeInv
  <2>3. QED
    BY <2>1, <2>2
<1> DEFINE clone == Clone(cache[i])
           n == Len(cache[i].alts)
<1>3. /\ clone.obj = fresh /\ Len(clone.alts) = n /\ clone.alts \in Seq(LineType(1 .. fresh'))
      /\ \A k \in 1 .. n : clone.alts[k] = [cache[i].alts[k] EXCEPT !.obj = fresh + k]
      /\ \A k \in 1 .. n : cache[i].alts[k] \in LineType(1 .. fresh)
  <2>1. /\ clone.obj = fresh /\ Len(clone.alts) = n /\ clone \in RuleType(1 .. fresh', {0})
        /\ \A k \in 1 .. n : clone.alts[k] = [cache[i].alts[k] EXCEPT !.obj = fresh + k]
    BY <1>1, <1>2, CloneIs
  <2>2. cache[i].alts \in Seq(LineType(1 .. fresh))
    BY <1>1 DEF RuleType
  <2>3. \A k \in 1 .. n : cache[i].alts[k] \in LineType(1 .. fresh)
    BY <2>2, ElementOfSeq
  <2> HIDE DEF clone
  <2>4. clone.alts \in Seq(LineType(1 .. fresh'))
    BY <2>1 DEF RuleType
  <2>5. QED
    BY <2>1, <2>3, <2>4
<1> HIDE DEF clone
<1>4. DOMAIN clone.alts = 1 .. n /\ \A k \in 1 .. n : clone.alts[k].obj = fresh + k
  BY <1>3, LenProperties DEF LineType
<1>5. ObjectsOf(clone) \subseteq fresh .. fresh' - 1
  <2>1. n \in Nat /\ fresh' = fresh + 1 + n
    BY <1>1
  <2> HIDE DEF n
  <2>2. \A k \in 1 .. n : fresh + k \in fresh .. fresh' - 1
    BY <1>2, <2>1
  <2>3. QED
    BY <1>2, <1>3, <1>4, <2>2 DEF ObjectsOf, ToSet
<1>6. Objects(core') = Objects(core) \union ObjectsOf(clone)
  BY <1>1, ObjectsOfAppend DEF TypeInv, TypeOK, clone
<1>7. InWork' \subseteq InWork \union (fresh .. fresh' - 1)
  BY <1>5, <1>6 DEF AddCore, InWork
<1>8. QED
  BY <1>2, <1>7, Working DEF AddCore

LEMMA ReturnIsolated ==
  ASSUME TypeInv, IsolationInv, Return
  PROVE  IsolationInv'
<1>1. Objects(merged \o core) = Objects(merged) \union Objects(core)
  <2>1. fresh \in Nat /\ fresh <= fresh /\ DOMAIN text \subseteq Nat /\ {0} \subseteq Nat
    BY TypeFacts DEF TypeInv
  <2>2. /\ Seq(RuleType(1 .. fresh, DOMAIN text)) \subseteq Seq(RuleType(1 .. fresh, Nat))
        /\ Seq(RuleType(1 .. fresh, {0})) \subseteq Seq(RuleType(1 .. fresh, Nat))
    BY <2>1, RulesStay
  <2>3. merged \in Seq(RuleType(1 .. fresh, Nat)) /\ core \in Seq(RuleType(1 .. fresh, Nat))
    BY <2>2 DEF TypeInv, TypeOK
  <2>4. QED
    BY <2>3, ObjectsOfConcat
<1>2. Objects(merged \o core) \subseteq InWork /\ InWork' = {}
  BY <1>1 DEF Return, InWork
<1>3. UNCHANGED <<fresh, cache, marked>> /\ InUse' = InUse
  BY DEF Return, InUse
<1>4. /\ Len(grammars) \in Nat /\ DOMAIN grammars = 1 .. Len(grammars)
      /\ DOMAIN grammars' = (DOMAIN grammars) \union {Len(grammars) + 1}
      /\ Len(grammars) + 1 \notin DOMAIN grammars
      /\ grammars'[Len(grammars) + 1] = merged \o core
      /\ \A i \in DOMAIN grammars : grammars'[i] = grammars[i]
  <2> DEFINE T == Seq(RuleType(1 .. fresh, 0 .. MaxItems))
  <2>1. grammars \in Seq(T) /\ grammars' = Append(grammars, merged \o core)
    BY DEF Return, TypeInv, TypeOK
  <2>2. grammars' \in Seq(T)
    BY <1>3, ReturnTyped DEF TypeInv, TypeOK
  <2> HIDE DEF T
  <2>3. /\ Len(grammars) \in Nat /\ DOMAIN grammars = 1 .. Len(grammars)
        /\ DOMAIN grammars' = 1 .. Len(grammars')
    BY <2>1, <2>2, LenProperties
  <2>4. QED
    BY <2>1, <2>3, AppendIs
<1>5. \A i \in DOMAIN grammars' :
         /\ Objects(grammars'[i]) \subseteq InUse
         /\ Disjoint(Objects(grammars'[i]), Objects(cache))
  BY <1>2, <1>4 DEF IsolationInv, Disjoint
<1>6. \A i, j \in DOMAIN grammars' : i # j => Disjoint(Objects(grammars'[i]), Objects(grammars'[j]))
  BY <1>2, <1>4 DEF IsolationInv, Disjoint
<1>7. \A o \in marked : \E i \in DOMAIN grammars' : o \in Objects(grammars'[i])
  BY <1>4 DEF IsolationInv
<1>8. QED
  BY <1>2, <1>3, <1>5, <1>6, <1>7 DEF IsolationInv, Disjoint

LEMMA IsolationInit == Init => IsolationInv
BY ObjectsOfEmpty DEF Init, IsolationInv, InWork, InUse, Disjoint

LEMMA IsolationNext == TypeInv /\ IsolationInv /\ [Next]_vars => IsolationInv'
<1> SUFFICES ASSUME TypeInv, IsolationInv, [Next]_vars PROVE IsolationInv'
  OBVIOUS
<1>1. CASE UNCHANGED vars
  BY <1>1 DEF vars, IsolationInv, InWork, InUse
<1>2. CASE Call \/ ReadProduction \/ ReadComment
  BY <1>2, ReadIsolated
<1>3. CASE ParseError \/ ReadAll \/ AllAttached \/ RejectHoles \/ NextPass
  BY <1>3, StageIsolated
<1>4. CASE AttachAnnotation
  BY <1>4, AttachIsolated
<1>5. CASE Merge
  BY <1>5, MergeIsolated
<1>6. CASE Merged
  BY <1>6, MergedIsolated
<1>7. CASE AddCore
  BY <1>7, AddCoreIsolated
<1>8. CASE Return
  BY <1>8, ReturnIsolated
<1>9. CASE CallerWrites
  BY <1>9 DEF CallerWrites, work, IsolationInv, InWork, InUse
<1>10. QED
  BY <1>1, <1>2, <1>3, <1>4, <1>5, <1>6, <1>7, <1>8, <1>9 DEF Next, Proceed

\* For any number of calls and of callers' writes: what a caller writes on
\* belongs to one grammar, neither to another nor to the process's table of
\* core rules (cloneProduction, getCoreRules).
THEOREM CallersIsolated == Spec => []CallersAreIsolated
<1>1. IsolationInv => CallersAreIsolated
  <2> SUFFICES ASSUME IsolationInv, NEW o \in marked
               PROVE  /\ Cardinality({i \in DOMAIN grammars : o \in Objects(grammars[i])}) = 1
                      /\ o \notin Objects(cache)
    BY DEF CallersAreIsolated
  <2>1. PICK i \in DOMAIN grammars : o \in Objects(grammars[i])
    BY DEF IsolationInv
  <2>2. {j \in DOMAIN grammars : o \in Objects(grammars[j])} = {i} /\ o \notin Objects(cache)
    BY <2>1 DEF IsolationInv, Disjoint
  <2>3. QED
    BY <2>2, FS_Singleton
<1>2. QED
  BY <1>1, IsolationInit, IsolationNext, TypeInvariant, PTL DEF Spec

-----------------------------------------------------------------------------
(* The invariants: the text, the productions still to be folded and those  *)
(* left after folding, related.                                            *)
Going == phase # "idle" \/ Returned
Early == phase \in {"read", "annotate"}

\* The lines folded so far: those before every production that is left.
Processed == {i \in Positions : \A k \in 1 .. Len(prods) : i < prods[k].sp}

IsLine(a, i) == a.refs = text[i].refs /\ a.hole = text[i].hole
AsWritten(p) ==
  /\ p.sp \in Positions /\ p.name = text[p.sp].name /\ p.core = FALSE
  /\ Len(p.alts) = 1 /\ IsLine(p.alts[1], p.sp)
ProdsInv ==
  /\ \A k \in 1 .. Len(prods) : AsWritten(prods[k])
  /\ \A j, k \in 1 .. Len(prods) : j < k => prods[j].sp < prods[k].sp
  /\ \A i \in Positions : i \in Processed \/ \E k \in 1 .. Len(prods) : prods[k].sp = i

StageInv ==
  /\ Early => Processed = {} /\ Len(merged) = 0
  /\ Early => \A n \in Names : byName[n] = 0
  /\ phase # "idle" => outcome = "none"
  /\ phase = "read" => idx = 0 /\ comment = 1
  /\ phase # "read" => Positions # {}
  /\ ~ Early => comment = Len(text) + 1
  /\ phase \in {"holes", "core", "idle"} => Len(prods) = 0

\* The annotations passed over: every one is on the production it follows,
\* and no production carries another.
ValueOf(at) == [kind |-> text[at].kind, members |-> text[at].members]
Scanned == {at \in Annotations : at < comment}
AttachInv ==
  /\ \A k \in 1 .. Len(prods) : k <= idx => prods[k].sp < comment
  /\ \A k \in 1 .. Len(prods) : prods[k].value # NoValue =>
       \E at \in Scanned : Followed(at) = prods[k].sp /\ prods[k].value = ValueOf(at)
  /\ \A at \in Scanned :
       /\ Followed(at) # 0 /\ Meaningful(text[at])
       /\ \A k \in 1 .. Len(prods) : prods[k].sp = Followed(at) => prods[k].value = ValueOf(at)
       /\ \A other \in Scanned \ {at} : Followed(other) # Followed(at)

\* The plain lines folded so far, in order, and where a name's latest is.
MergedInv ==
  /\ Len(merged) = Cardinality(Plain \intersect Processed)
  /\ \A k \in 1 .. Len(merged) :
       /\ merged[k].sp \in Plain \intersect Processed /\ merged[k].core = FALSE
       /\ merged[k].name = text[merged[k].sp].name /\ Place(merged[k].sp, Plain) = k
  /\ \A i \in Plain \intersect Processed : \E k \in 1 .. Len(merged) : merged[k].sp = i
  /\ \A j, k \in 1 .. Len(merged) : j < k => merged[j].sp < merged[k].sp
IsLatest(n) ==
  IF byName[n] = 0 THEN \A k \in 1 .. Len(merged) : merged[k].name # n
  ELSE /\ merged[byName[n]].name = n
       /\ \A k \in 1 .. Len(merged) : byName[n] < k => merged[k].name # n
BaseInv ==
  /\ \A n \in Names : IsLatest(n)
  /\ \A i \in Processed : BaseOf(i) \in Plain \intersect Processed

\* The element lists of a rule are those of its lines.
Folding(b) == LinesOf(b) \intersect Processed
HasLines(alts, b) ==
  /\ Len(alts) = Cardinality(Folding(b))
  /\ \A i \in Folding(b) : /\ Place(i, LinesOf(b)) \in 1 .. Len(alts)
                           /\ IsLine(alts[Place(i, LinesOf(b))], i)
  /\ \A j \in 1 .. Len(alts) : \E i \in Folding(b) : IsLine(alts[j], i)
LinesInv == \A k \in 1 .. Len(merged) : HasLines(merged[k].alts, merged[k].sp)

\* The annotations of the lines folded are on their bases.
Moved == {at \in Annotations : Followed(at) \in Processed}
ValueInv ==
  /\ \A k \in 1 .. Len(merged) : merged[k].value # NoValue =>
       \E at \in Moved : BaseOf(Followed(at)) = merged[k].sp /\ merged[k].value = ValueOf(at)
  /\ \A at \in Moved :
       /\ \A k \in 1 .. Len(merged) :
            merged[k].sp = BaseOf(Followed(at)) => merged[k].value = ValueOf(at)
       /\ \A other \in Moved \ {at} : BaseOf(Followed(other)) # BaseOf(Followed(at))

FoldInv == MergedInv /\ BaseInv /\ LinesInv /\ ValueInv

NoHole == \A i \in Positions : ~ text[i].hole
HandedOver == Returned => grammars # <<>> /\ Last(grammars) = merged \o core

TextInv ==
  /\ Going => StageInv /\ ProdsInv /\ AttachInv
  /\ Going /\ ~ Early => FoldInv
  /\ phase = "core" \/ Returned => NoHole
  /\ VerdictFollowsText /\ HandedOver

-----------------------------------------------------------------------------
(* The text.                                                               *)
LEMMA PositionsAre ==
  ASSUME TypeOK
  PROVE  /\ Len(text) \in Nat /\ Positions \subseteq 1 .. Len(text) /\ Positions \subseteq Nat \ {0}
         /\ Plain \subseteq Positions /\ Annotations \subseteq 1 .. Len(text)
         /\ \A i \in Positions : text[i] \in Written /\ text[i] \in Productions
         /\ \A i \in Annotations : text[i] \in Comment /\ text[i] \in Comments /\ text[i].kind # "other"
         /\ Positions \intersect Annotations = {}
<1>1. Len(text) \in Nat /\ DOMAIN text = 1 .. Len(text)
      /\ \A i \in 1 .. Len(text) : text[i] \in Productions \union Comments
  BY TypeFacts
<1>2. /\ \A p \in Productions : p \in Written /\ p.tag = "production"
      /\ \A c \in Comments : c \in Comment /\ c.tag = "comment"
  BY ConverterAssumption DEF Written, Comment
<1>3. /\ \A i \in Positions : i \in 1 .. Len(text) /\ text[i].tag = "production"
      /\ \A i \in Annotations : i \in 1 .. Len(text) /\ text[i].tag = "comment" /\ text[i].kind # "other"
  BY <1>1 DEF Positions, Annotations, Claims
<1>4. Positions \subseteq Nat \ {0} /\ Plain \subseteq Positions
  BY <1>1, <1>3 DEF Plain
<1>5. QED
  BY <1>1, <1>2, <1>3, <1>4

LEMMA PositionsKnown ==
  TypeOK => Len(text) \in Nat /\ Positions \subseteq 1 .. Len(text) /\ Annotations \subseteq 1 .. Len(text)
BY PositionsAre

(* Greatest is the greatest, 0 where there is none. *)
LEMMA GreatestIs ==
  ASSUME NEW n \in Nat, NEW S \in SUBSET (1 .. n)
  PROVE  /\ Greatest(S) \in 0 .. n
         /\ Greatest(S) = 0 <=> S = {}
         /\ S # {} => Greatest(S) \in S /\ \A i \in S : i <= Greatest(S)
<1>1. CASE S = {}
  BY <1>1 DEF Greatest
<1>2. CASE S # {}
  <2> DEFINE T == {n - i : i \in S}
  <2>1. T \in SUBSET Nat /\ T # {}
    BY <1>2
  <2>2. PICK t \in T : \A u \in T : t <= u
    BY <2>1, LeastNumber
  <2>3. PICK m \in S : t = n - m
    OBVIOUS
  <2>4. \A i \in S : i <= m
    <3> SUFFICES ASSUME NEW i \in S PROVE i <= m
      OBVIOUS
    <3>1. n - i \in T
      OBVIOUS
    <3>2. n - m <= n - i
      BY <2>2, <2>3, <3>1
    <3>3. i \in Nat /\ m \in Nat
      OBVIOUS
    <3>4. QED
      BY <3>2, <3>3
  <2> HIDE DEF T
  <2>5. Greatest(S) \in S /\ \A i \in S : i <= Greatest(S)
    BY <1>2, <2>4 DEF Greatest
  <2>6. Greatest(S) \in 1 .. n
    BY <2>5
  <2>7. Greatest(S) \in 0 .. n /\ Greatest(S) # 0
    BY <2>6
  <2>8. QED
    BY <1>2, <2>5, <2>7
<1>3. QED
  BY <1>1, <1>2

LEMMA GreatestUnique ==
  ASSUME NEW n \in Nat, NEW S \in SUBSET (1 .. n), NEW m \in S, \A i \in S : i <= m
  PROVE  Greatest(S) = m
<1>1. Greatest(S) \in S /\ m <= Greatest(S) /\ Greatest(S) <= m
  BY GreatestIs
<1>2. Greatest(S) \in 1 .. n /\ m \in 1 .. n
  BY <1>1
<1>3. QED
  BY <1>1, <1>2

LEMMA FollowedIs ==
  ASSUME TypeOK, NEW at \in Nat
  PROVE  /\ Followed(at) # 0 => /\ Followed(at) \in Positions /\ Followed(at) < at
                                /\ \A i \in Positions : i < at => i <= Followed(at)
         /\ Followed(at) = 0 => \A i \in Positions : ~ (i < at)
<1>1. {i \in Positions : i < at} \in SUBSET (1 .. Len(text)) /\ Len(text) \in Nat
  BY PositionsAre
<1>2. QED
  BY <1>1, GreatestIs DEF Followed

LEMMA BaseIs ==
  ASSUME TypeOK, NEW i \in Positions
  PROVE  /\ i \in Plain => BaseOf(i) = i
         /\ BaseOf(i) # 0 => /\ BaseOf(i) \in Plain /\ BaseOf(i) <= i
                             /\ text[BaseOf(i)].name = text[i].name
<1>1. {j \in Plain : j < i /\ text[j].name = text[i].name} \in SUBSET (1 .. Len(text)) /\ Len(text) \in Nat
  BY PositionsAre
<1>2. i \in Nat
  BY PositionsAre
<1>3. CASE i \in Plain
  BY <1>2, <1>3 DEF BaseOf
<1>4. CASE i \notin Plain
  <2>1. BaseOf(i) = Greatest({j \in Plain : j < i /\ text[j].name = text[i].name})
    BY <1>4 DEF BaseOf
  <2>2. BaseOf(i) # 0 => BaseOf(i) \in {j \in Plain : j < i /\ text[j].name = text[i].name}
    BY <1>1, <2>1, GreatestIs
  <2>3. \A j \in Plain : j \in Nat
    BY PositionsAre
  <2>4. QED
    BY <1>2, <1>4, <2>2, <2>3
<1>5. QED
  BY <1>3, <1>4

(* The place of a line is one after the lines before it. *)
LEMMA PlaceNext ==
  ASSUME NEW n \in Nat, NEW S \in SUBSET (1 .. n), NEW i \in S
  PROVE  /\ IsFiniteSet(S) /\ Cardinality({j \in S : j < i}) \in Nat
         /\ Place(i, S) = Cardinality({j \in S : j < i}) + 1
<1>1. IsFiniteSet(1 .. n)
  BY FS_Interval
<1>2. IsFiniteSet(S) /\ IsFiniteSet({j \in S : j < i})
  BY <1>1, FS_Subset
<1>3. {j \in S : j <= i} = {j \in S : j < i} \union {i} /\ i \notin {j \in S : j < i}
  <2>1. \A j \in S : j \in Nat
    OBVIOUS
  <2>2. ~ (i < i) /\ \A j \in S : j <= i <=> (j < i \/ j = i)
    BY <2>1
  <2>3. {j \in S : j <= i} = {j \in S : j < i \/ j = i}
    BY <2>2, Zenon
  <2>4. {j \in S : j < i \/ j = i} = {j \in S : j < i} \union {i}
    BY Zenon
  <2>5. QED
    BY <2>2, <2>3, <2>4
<1>4. QED
  BY <1>2, <1>3, FS_AddElement, FS_CardinalityType DEF Place

LEMMA TextFinite ==
  ASSUME TypeOK
  PROVE  \A S \in SUBSET Positions : IsFiniteSet(S) /\ Cardinality(S) \in Nat
<1>1. IsFiniteSet(1 .. Len(text)) /\ Positions \subseteq 1 .. Len(text)
  BY PositionsAre, FS_Interval
<1>2. QED
  BY <1>1, FS_Subset, FS_CardinalityType

LEMMA SameText ==
  ASSUME UNCHANGED text
  PROVE  /\ Positions' = Positions /\ Plain' = Plain /\ Annotations' = Annotations
         /\ \A at : Followed(at)' = Followed(at) /\ ValueOf(at)' = ValueOf(at)
         /\ \A i : BaseOf(i)' = BaseOf(i)
         /\ \A b : LinesOf(b)' = LinesOf(b)
         /\ \A a, i : IsLine(a, i)' <=> IsLine(a, i)
<1>1. /\ Positions' = Positions
      /\ \A a, i : IsLine(a, i)' <=> IsLine(a, i)
      /\ \A at : ValueOf(at)' = ValueOf(at)
  BY DEF Positions, IsLine, ValueOf
<1>2. Plain' = Plain /\ Annotations' = Annotations
  BY <1>1 DEF Plain, Annotations
<1>3. \A at : Followed(at)' = Followed(at)
  BY <1>1 DEF Followed
<1>4. \A i : BaseOf(i)' = BaseOf(i)
  BY <1>1, <1>2 DEF BaseOf
<1>5. \A b : LinesOf(b)' = LinesOf(b)
  BY <1>1, <1>4 DEF LinesOf
<1>6. QED
  BY <1>1, <1>2, <1>3, <1>4, <1>5

LEMMA VerdictIs ==
  /\ Positions = {} => Verdict = "no productions"
  /\ Positions # {} /\ AnnotationFault => Verdict = "annotation"
  /\ Positions # {} /\ ~ AnnotationFault /\ MergeFault => Verdict = "merge"
  /\ Positions # {} /\ ~ AnnotationFault /\ ~ MergeFault =>
       /\ NoHole => Verdict = "grammar"
       /\ ~ NoHole => Verdict = "hole"
<1>1. NoHole <=> ~ \E i \in Positions : text[i].hole
  BY DEF NoHole
<1>2. QED
  BY <1>1 DEF Verdict

LEMMA SameVerdict ==
  ASSUME UNCHANGED text PROVE Verdict' = Verdict
BY DEF Verdict, AnnotationFault, MergeFault, Annotations, Positions, Followed, BaseOf, Plain

-----------------------------------------------------------------------------
(* Reading.                                                                *)
LEMMA AnswersInit == Init => TextInv
BY DEF Init, TextInv, Going, Returned, VerdictFollowsText, HandedOver

LEMMA CallAnswers ==
  ASSUME TypeInv, TextInv, Call PROVE TextInv'
<1>1. TypeOK' /\ phase' = "read" /\ outcome' = "none" /\ Len(text') = 0 /\ Len(prods') = 0
      /\ Len(merged') = 0 /\ comment' = 1 /\ idx' = 0 /\ byName' = [n \in Names |-> 0]
  BY CallTyped, EmptySeq DEF Call, TypeInv
<1>2. Positions' = {} /\ Annotations' = {}
  <2>1. (TypeOK => Len(text) \in Nat /\ Positions \subseteq 1 .. Len(text) /\ Annotations \subseteq 1 .. Len(text))'
    BY PositionsKnown, PTL
  <2>2. QED
    BY <1>1, <2>1
<1>3. ProdsInv' /\ AttachInv' /\ Scanned' = {} /\ Processed' = {}
  BY <1>1, <1>2 DEF ProdsInv, AttachInv, Scanned, Processed
<1>4. StageInv'
  BY <1>1, <1>3 DEF StageInv, Early
<1>5. QED
  BY <1>1, <1>3, <1>4 DEF TextInv, Going, Early, Returned, VerdictFollowsText, HandedOver

\* When every production is still to be folded, none is folded.
LEMMA NothingProcessed ==
  TypeOK /\ (\A i \in Positions : \E k \in 1 .. Len(prods) : prods[k].sp = i) => Processed = {}
<1> SUFFICES ASSUME TypeOK, \A i \in Positions : \E k \in 1 .. Len(prods) : prods[k].sp = i
             PROVE  Processed = {}
  OBVIOUS
<1> SUFFICES ASSUME NEW i \in Processed PROVE FALSE
  OBVIOUS
<1>1. PICK k \in 1 .. Len(prods) : prods[k].sp = i
  BY DEF Processed
<1>2. i \in Nat /\ i < prods[k].sp
  BY PositionsAre DEF Processed
<1>3. QED
  BY <1>1, <1>2

\* While the text is read nothing is done with it.
LEMMA Reading ==
  ASSUME TypeInv, TextInv, phase = "read"
  PROVE  /\ ProdsInv /\ Scanned = {} /\ idx = 0 /\ comment = 1 /\ outcome = "none"
         /\ Len(merged) = 0 /\ \A n \in Names : byName[n] = 0
         /\ \A k \in 1 .. Len(prods) : prods[k].value = NoValue
         /\ \A i \in Positions : \E k \in 1 .. Len(prods) : prods[k].sp = i
<1>1. StageInv /\ ProdsInv /\ AttachInv
  BY DEF TextInv, Going
<1>2. comment = 1 /\ idx = 0 /\ outcome = "none" /\ Processed = {} /\ Len(merged) = 0
      /\ \A n \in Names : byName[n] = 0
  BY <1>1 DEF StageInv, Early
<1>3. Scanned = {}
  <2>1. \A at \in Annotations : at \in Nat \ {0}
    BY PositionsAre DEF TypeInv
  <2>2. \A at \in Nat \ {0} : ~ (at < 1)
    OBVIOUS
  <2>3. QED
    BY <1>2, <2>1, <2>2 DEF Scanned
<1>4. QED
  BY <1>1, <1>2, <1>3 DEF ProdsInv, AttachInv

LEMMA StillReading ==
  ASSUME TypeOK', phase' = "read", outcome' = "none", idx' = 0, comment' = 1, Len(merged') = 0,
         \A n \in Names : byName'[n] = 0,
         \A k \in 1 .. Len(prods') : AsWritten(prods[k])' /\ prods'[k].value = NoValue,
         \A j, k \in 1 .. Len(prods') : j < k => prods'[j].sp < prods'[k].sp,
         \A i \in Positions' : \E k \in 1 .. Len(prods') : prods'[k].sp = i
  PROVE  TextInv'
<1>1. Processed' = {}
  <2>1. (TypeOK /\ (\A i \in Positions : \E k \in 1 .. Len(prods) : prods[k].sp = i) => Processed = {})'
    BY NothingProcessed, PTL
  <2>2. QED
    BY <2>1
<1>2. Scanned' = {}
  <2>1. \A at \in Annotations' : at \in Nat \ {0}
    <3>1. (TypeOK => Len(text) \in Nat /\ Positions \subseteq 1 .. Len(text) /\ Annotations \subseteq 1 .. Len(text))'
      BY PositionsKnown, PTL
    <3>2. QED
      BY <3>1
  <2>2. \A at \in Nat \ {0} : ~ (at < 1)
    OBVIOUS
  <2>3. QED
    BY <2>1, <2>2 DEF Scanned
<1>3. ProdsInv'
  BY DEF ProdsInv
<1>4. AttachInv'
  <2>1. \A k \in 1 .. Len(prods') : ~ (k <= 0)
    OBVIOUS
  <2>2. QED
    BY <1>2, <2>1 DEF AttachInv
<1>5. StageInv'
  BY <1>1 DEF StageInv, Early
<1>6. QED
  BY <1>3, <1>4, <1>5 DEF TextInv, Going, Early, Returned, VerdictFollowsText, HandedOver

LEMMA ReadProductionAnswers ==
  ASSUME TypeInv, TextInv, ReadProduction PROVE TextInv'
<1>1. PICK p \in Productions :
        /\ text' = Append(text, p)
        /\ prods' = Append(prods,
             Rule(fresh, p.name, <<[obj |-> fresh + 1, refs |-> p.refs, hole |-> p.hole]>>,
                  Len(text) + 1, NoValue, FALSE))
  BY DEF ReadProduction
<1> DEFINE line == [obj |-> fresh + 1, refs |-> p.refs, hole |-> p.hole]
           new == Rule(fresh, p.name, <<line>>, Len(text) + 1, NoValue, FALSE)
<1>2. /\ TypeOK' /\ phase = "read" /\ phase' = "read" /\ UNCHANGED <<outcome, idx, comment, merged, byName>>
  BY ReadProductionTyped DEF ReadProduction, TypeInv
<1>3. /\ Len(text) \in Nat /\ Len(text') = Len(text) + 1 /\ text'[Len(text) + 1] = p
      /\ \A i \in 1 .. Len(text) : text'[i] = text[i]
      /\ DOMAIN text = 1 .. Len(text) /\ DOMAIN text' = 1 .. Len(text) + 1
  BY <1>1, <1>2, AppendIs, LenProperties DEF TypeInv, TypeOK
<1>4. /\ Len(prods) \in Nat /\ Len(prods') = Len(prods) + 1 /\ prods'[Len(prods) + 1] = new
      /\ \A k \in 1 .. Len(prods) : prods'[k] = prods[k]
  <2>1. prods \in Seq(RuleType(1 .. fresh, DOMAIN text)) /\ prods' = Append(prods, new)
    BY <1>1 DEF TypeInv, TypeOK
  <2> HIDE DEF new
  <2>2. QED
    BY <2>1, AppendIs, LenProperties
<1>5. /\ new.sp = Len(text) + 1 /\ new.name = p.name /\ new.core = FALSE /\ new.value = NoValue
      /\ Len(new.alts) = 1 /\ new.alts[1] = line /\ line.refs = p.refs /\ line.hole = p.hole
  BY DEF Rule
<1> HIDE DEF new, line
<1>6. p.tag = "production"
  BY ConverterAssumption DEF Written
<1>7. /\ Positions \subseteq Positions' /\ Len(text) + 1 \in Positions'
      /\ \A i \in Positions' : i \in Positions \/ i = Len(text) + 1
  BY <1>3, <1>6 DEF Positions
<1>8. /\ ProdsInv /\ Len(merged) = 0 /\ idx = 0 /\ comment = 1 /\ outcome = "none"
      /\ \A n \in Names : byName[n] = 0
      /\ \A k \in 1 .. Len(prods) : prods[k].value = NoValue
      /\ \A i \in Positions : \E k \in 1 .. Len(prods) : prods[k].sp = i
  BY <1>2, Reading
<1>9. \A k \in 1 .. Len(prods) : prods[k].sp \in 1 .. Len(text) /\ AsWritten(prods[k])
  BY <1>8, PositionsAre DEF ProdsInv, AsWritten, TypeInv
<1>10. ASSUME NEW k \in 1 .. Len(prods') PROVE AsWritten(prods[k])' /\ prods'[k].value = NoValue
  <2>1. CASE k = Len(prods) + 1
    BY <1>3, <1>4, <1>5, <1>7, <2>1 DEF AsWritten, IsLine
  <2>2. CASE k \in 1 .. Len(prods)
    BY <1>3, <1>4, <1>7, <1>8, <1>9, <2>2 DEF AsWritten, IsLine
  <2>3. QED
    BY <1>4, <2>1, <2>2
<1>11. \A j, k \in 1 .. Len(prods') : j < k => prods'[j].sp < prods'[k].sp
  <2> SUFFICES ASSUME NEW j \in 1 .. Len(prods'), NEW k \in 1 .. Len(prods'), j < k
               PROVE  prods'[j].sp < prods'[k].sp
    OBVIOUS
  <2>1. j \in 1 .. Len(prods) /\ (k \in 1 .. Len(prods) \/ k = Len(prods) + 1)
    BY <1>4
  <2>2. QED
    BY <1>3, <1>4, <1>5, <1>8, <1>9, <2>1 DEF ProdsInv
<1>12. \A i \in Positions' : \E k \in 1 .. Len(prods') : prods'[k].sp = i
  <2>1. Len(prods) + 1 \in 1 .. Len(prods') /\ 1 .. Len(prods) \subseteq 1 .. Len(prods')
    BY <1>4
  <2>2. QED
    BY <1>4, <1>5, <1>7, <1>8, <2>1
<1>13. QED
  BY <1>2, <1>8, <1>10, <1>11, <1>12, StillReading

LEMMA ReadCommentAnswers ==
  ASSUME TypeInv, TextInv, ReadComment PROVE TextInv'
<1>1. PICK c \in Comments : text' = Append(text, c)
  BY DEF ReadComment
<1>2. /\ TypeOK' /\ phase = "read" /\ phase' = "read"
      /\ UNCHANGED <<outcome, prods, idx, comment, merged, byName>>
  BY ReadCommentTyped DEF ReadComment, TypeInv, work
<1>3. /\ Len(text) \in Nat /\ Len(text') = Len(text) + 1 /\ text'[Len(text) + 1] = c
      /\ \A i \in 1 .. Len(text) : text'[i] = text[i]
      /\ DOMAIN text = 1 .. Len(text) /\ DOMAIN text' = 1 .. Len(text) + 1
  BY <1>1, <1>2, AppendIs, LenProperties DEF TypeInv, TypeOK
<1>4. c.tag # "production"
  BY ConverterAssumption DEF Comment
<1>5. Positions' = Positions /\ \A i \in Positions : text'[i] = text[i]
  BY <1>3, <1>4 DEF Positions
<1>6. /\ ProdsInv /\ Len(merged) = 0 /\ idx = 0 /\ comment = 1 /\ outcome = "none"
      /\ \A n \in Names : byName[n] = 0
      /\ \A k \in 1 .. Len(prods) : prods[k].value = NoValue
      /\ \A i \in Positions : \E k \in 1 .. Len(prods) : prods[k].sp = i
  BY <1>2, Reading
<1>7. \A k \in 1 .. Len(prods) : AsWritten(prods[k])'
  BY <1>2, <1>5, <1>6 DEF ProdsInv, AsWritten, IsLine
<1>8. \A j, k \in 1 .. Len(prods') : j < k => prods'[j].sp < prods'[k].sp
  BY <1>2, <1>6 DEF ProdsInv
<1>9. QED
  BY <1>2, <1>5, <1>6, <1>7, <1>8, StillReading

(* What a step leaves alone stays true. *)
LEMMA SameProds ==
  ASSUME UNCHANGED <<text, prods>>
  PROVE  Processed' = Processed /\ (ProdsInv => ProdsInv')
<1>1. Processed' = Processed
  BY SameText DEF Processed
<1>2. QED
  BY <1>1, SameText DEF ProdsInv, AsWritten

LEMMA SameAttached ==
  ASSUME UNCHANGED <<text, prods, comment, idx>>, AttachInv
  PROVE  AttachInv'
<1>1. Scanned' = Scanned
  BY SameText DEF Scanned
<1>2. QED
  BY <1>1, SameText DEF AttachInv

LEMMA SameFolded ==
  ASSUME UNCHANGED <<text, prods, merged, byName>>, FoldInv
  PROVE  FoldInv'
<1>1. Processed' = Processed
  BY SameProds
<1>2. MergedInv' /\ BaseInv'
  <2>1. MergedInv'
    BY <1>1, SameText DEF FoldInv, MergedInv
  <2>2. \A n \in Names : IsLatest(n)'
    BY DEF FoldInv, BaseInv, IsLatest
  <2>3. BaseInv'
    BY <1>1, <2>2, SameText DEF FoldInv, BaseInv
  <2>4. QED
    BY <2>1, <2>3
<1>3. LinesInv'
  BY <1>1, SameText DEF FoldInv, LinesInv, HasLines, Folding
<1>4. ValueInv'
  <2>1. Moved' = Moved
    BY <1>1, SameText DEF Moved
  <2>2. QED
    BY <2>1, SameText DEF FoldInv, ValueInv
<1>5. QED
  BY <1>2, <1>3, <1>4 DEF FoldInv

\* The text is read: refused without a production.
LEMMA ReadAllAnswers ==
  ASSUME TypeInv, TextInv, ParseError \/ ReadAll PROVE TextInv'
<1>1. phase = "read" /\ UNCHANGED <<text, prods, comment, idx, merged, byName>>
  BY DEF ParseError, ReadAll, work
<1>2. CASE outcome' = "parse error" /\ phase' = "idle"
  BY <1>2 DEF TextInv, Going, Returned, VerdictFollowsText, HandedOver
<1>3. CASE ReadAll /\ prods = <<>>
  <2>1. phase' = "idle" /\ outcome' = "no productions" /\ Len(prods) = 0
    BY <1>3, EmptySeq DEF ReadAll, Refuse
  <2>2. Positions = {}
    <3>1. \A k \in 1 .. 0 : FALSE
      OBVIOUS
    <3>2. \A i \in Positions : \E k \in 1 .. 0 : prods[k].sp = i
      BY <1>1, <2>1, Reading
    <3>3. QED
      BY <3>1, <3>2
  <2>3. Verdict' = "no productions"
    BY <1>1, <2>2, VerdictIs, SameVerdict
  <2>4. QED
    BY <2>1, <2>3 DEF TextInv, Going, Returned, VerdictFollowsText, HandedOver
<1>4. CASE ReadAll /\ prods # <<>>
  <2>1. phase' = "annotate" /\ outcome' = outcome
    BY <1>4 DEF ReadAll
  <2>2. StageInv /\ ProdsInv /\ AttachInv
    BY <1>1 DEF TextInv, Going
  <2>3. Positions # {}
    <3>1. 1 \in 1 .. Len(prods)
      BY <1>4, EmptySeq DEF TypeInv, TypeOK
    <3>2. QED
      BY <2>2, <3>1 DEF ProdsInv, AsWritten
  <2>4. ProdsInv' /\ AttachInv' /\ Processed' = Processed /\ Positions' = Positions
    BY <1>1, <2>2, SameProds, SameAttached, SameText
  <2>5. StageInv'
    BY <1>1, <2>1, <2>2, <2>3, <2>4 DEF StageInv, Early
  <2>6. outcome' = "none"
    BY <1>1, <2>1, <2>2 DEF StageInv
  <2>7. QED
    BY <2>1, <2>4, <2>5, <2>6 DEF TextInv, Going, Early, Returned, VerdictFollowsText, HandedOver
<1>5. QED
  BY <1>2, <1>3, <1>4 DEF ParseError, Refuse

-----------------------------------------------------------------------------
(* Attaching annotations.                                                  *)
LEMMA Attaching ==
  ASSUME TypeInv, TextInv, phase = "annotate"
  PROVE  /\ StageInv /\ ProdsInv /\ AttachInv /\ Processed = {} /\ outcome = "none" /\ Positions # {}
         /\ Len(prods) \in Nat /\ comment \in Nat
         /\ \A k \in 1 .. Len(prods) : prods[k].sp \in Positions /\ prods[k].sp \in Nat
         /\ \A j, k \in 1 .. Len(prods) : j < k => prods[j].sp < prods[k].sp
         /\ \A i \in Positions : \E k \in 1 .. Len(prods) : prods[k].sp = i
<1>1. StageInv /\ ProdsInv /\ AttachInv
  BY DEF TextInv, Going
<1>2. Processed = {} /\ outcome = "none" /\ Positions # {}
  BY <1>1 DEF StageInv, Early
<1>3. \A k \in 1 .. Len(prods) : prods[k].sp \in Positions /\ prods[k].sp \in Nat
  BY <1>1, PositionsAre DEF ProdsInv, AsWritten, TypeInv
<1>4. Len(prods) \in Nat /\ comment \in Nat
  BY TypeFacts DEF TypeInv, TypeOK
<1>5. QED
  BY <1>1, <1>2, <1>3, <1>4 DEF ProdsInv

\* Where the scan forward stops is the production that the comment follows.
LEMMA OwnerIs ==
  ASSUME TypeInv, TextInv, phase = "annotate",
         NEW o \in idx .. Len(prods), IsForward(o, comment), idx \in Nat
  PROVE  /\ \A k \in 1 .. Len(prods) : k <= o => prods[k].sp < comment
         /\ o = 0 => Followed(comment) = 0
         /\ o # 0 => Followed(comment) = prods[o].sp
<1> USE Attaching
<1>1. \A k \in 1 .. Len(prods) : k <= o => prods[k].sp < comment
  <2> SUFFICES ASSUME NEW k \in 1 .. Len(prods), k <= o PROVE prods[k].sp < comment
    OBVIOUS
  <2>1. CASE k <= idx
    BY <2>1 DEF AttachInv
  <2>2. CASE idx < k
    BY <2>2 DEF IsForward
  <2>3. QED
    BY <2>1, <2>2
<1>2. \A k \in 1 .. Len(prods) : o < k => ~ (prods[k].sp < comment)
  <2> SUFFICES ASSUME NEW k \in 1 .. Len(prods), o < k PROVE ~ (prods[k].sp < comment)
    OBVIOUS
  <2>1. o + 1 \in 1 .. Len(prods) /\ o < Len(prods) /\ (o + 1 = k \/ o + 1 < k)
    OBVIOUS
  <2>2. prods[o + 1].sp >= comment
    BY <2>1 DEF IsForward
  <2>3. prods[k].sp >= prods[o + 1].sp
    BY <2>1
  <2>4. prods[k].sp \in Nat /\ prods[o + 1].sp \in Nat
    BY <2>1
  <2>5. QED
    BY <2>2, <2>3, <2>4
<1> DEFINE S == {i \in Positions : i < comment}
<1>3. Len(text) \in Nat /\ S \in SUBSET (1 .. Len(text)) /\ Followed(comment) = Greatest(S)
  BY PositionsAre DEF Followed, TypeInv
<1>4. CASE o = 0
  <2>1. \A k \in 1 .. Len(prods) : 0 < k
    OBVIOUS
  <2>2. S = {}
    <3> SUFFICES ASSUME NEW i \in Positions, i < comment PROVE FALSE
      OBVIOUS
    <3>1. PICK k \in 1 .. Len(prods) : prods[k].sp = i
      OBVIOUS
    <3>2. QED
      BY <1>2, <1>4, <2>1, <3>1
  <2> HIDE DEF S
  <2>3. QED
    BY <1>1, <1>3, <1>4, <2>2, GreatestIs
<1>5. CASE o # 0
  <2>1. o \in 1 .. Len(prods)
    BY <1>5
  <2>2. prods[o].sp \in S
    BY <1>1, <2>1
  <2>3. \A i \in S : i <= prods[o].sp
    <3> SUFFICES ASSUME NEW i \in Positions, i < comment PROVE i <= prods[o].sp
      OBVIOUS
    <3>1. PICK k \in 1 .. Len(prods) : prods[k].sp = i
      OBVIOUS
    <3>2. k <= o
      BY <1>2, <3>1
    <3>3. k = o \/ k < o
      BY <2>1, <3>2
    <3>4. prods[k].sp \in Nat /\ prods[o].sp \in Nat
      BY <2>1
    <3>5. QED
      BY <2>1, <3>1, <3>3, <3>4
  <2> HIDE DEF S
  <2>4. Greatest(S) = prods[o].sp
    BY <1>3, <2>2, <2>3, GreatestUnique
  <2>5. QED
    BY <1>1, <1>3, <1>5, <2>4
<1>6. QED
  BY <1>4, <1>5

\* An annotation's value is none of a production without one.
LEMMA ValueIsSome ==
  ASSUME TypeOK, NEW at \in Annotations
  PROVE  ValueOf(at) # NoValue
<1>1. text[at] \in Comment /\ text[at].kind # "other"
  BY PositionsAre
<1>2. text[at].kind # "none"
  BY <1>1 DEF Comment
<1>3. QED
  BY <1>2 DEF ValueOf, NoValue

LEMMA PassOver ==
  ASSUME TypeInv, TextInv, AttachAnnotation, ~ Claims(text[comment])
  PROVE  TextInv'
<1>1. /\ phase = "annotate" /\ comment' = comment + 1 /\ comment \in 1 .. Len(text)
      /\ UNCHANGED <<text, phase, prods, idx, merged, byName, outcome>>
  BY AttachDoes DEF AttachAnnotation
<1> USE Attaching
<1>2. Scanned' = Scanned
  <2>1. comment \notin Annotations
    BY DEF Annotations
  <2>2. \A at \in Annotations : at \in Nat
    BY PositionsAre DEF TypeInv
  <2>3. \A at \in Annotations : at < comment + 1 <=> at < comment
    BY <1>1, <2>1, <2>2
  <2>4. Annotations' = Annotations
    BY <1>1, SameText
  <2>5. QED
    BY <1>1, <2>3, <2>4 DEF Scanned
<1>3. AttachInv'
  <2>1. \A k \in 1 .. Len(prods) : k <= idx => prods[k].sp < comment + 1
    BY <1>1 DEF AttachInv
  <2>2. QED
    BY <1>1, <1>2, <2>1, SameText DEF AttachInv
<1>4. ProdsInv' /\ Processed' = Processed /\ Positions' = Positions
  BY <1>1, SameProds, SameText
<1>5. StageInv'
  BY <1>1, <1>4 DEF StageInv, Early
<1>6. QED
  BY <1>1, <1>3, <1>4, <1>5 DEF TextInv, Going, Early, Returned, VerdictFollowsText, HandedOver

LEMMA AnnotationRefused ==
  ASSUME TypeInv, TextInv, AttachAnnotation, Claims(text[comment]), outcome' = "annotation"
  PROVE  TextInv'
<1> USE Attaching
<1>1. /\ phase = "annotate" /\ comment \in 1 .. Len(text) /\ UNCHANGED text
      /\ idx' \in idx .. Len(prods) /\ IsForward(idx', comment) /\ idx \in Nat
      /\ idx' = 0 \/ ~ WellFormed(text[comment]) \/ prods[idx'].value # NoValue
      /\ phase' = "idle"
  <2>1. phase = "annotate" /\ idx \in Nat /\ UNCHANGED text
    BY DEF AttachAnnotation, TypeInv, TypeOK
  <2>2. outcome' # outcome
    BY <2>1
  <2>3. QED
    BY <2>1, <2>2, AttachDoes
<1>2. comment \in Annotations /\ text[comment] \in Comment /\ text[comment].kind # "other"
  <2>1. comment \in Annotations
    BY <1>1, TypeFacts DEF Annotations, TypeInv
  <2>2. QED
    BY <2>1, PositionsAre DEF TypeInv
<1>3. AnnotationFault
  <2>1. CASE idx' = 0
    BY <1>1, <1>2, <2>1, OwnerIs DEF AnnotationFault
  <2>2. CASE ~ WellFormed(text[comment])
    BY <1>2, <2>2, WellFormedIsMeaningful DEF AnnotationFault
  <2>3. CASE idx' # 0 /\ prods[idx'].value # NoValue
    <3>1. idx' \in 1 .. Len(prods)
      BY <1>1, <2>3
    <3>2. PICK at \in Scanned : Followed(at) = prods[idx'].sp
      BY <1>1, <2>3, <3>1 DEF AttachInv
    <3>3. at \in Annotations /\ at # comment
      <4>1. at \in Annotations /\ at < comment
        BY DEF Scanned
      <4>2. at \in Nat
        BY <4>1, PositionsAre DEF TypeInv
      <4>3. QED
        BY <1>1, <4>1, <4>2
    <3>4. Followed(comment) = prods[idx'].sp
      BY <1>1, <2>3, OwnerIs
    <3>5. QED
      BY <1>2, <3>2, <3>3, <3>4 DEF AnnotationFault
  <2>4. QED
    BY <1>1, <2>1, <2>2, <2>3
<1>4. Verdict' = "annotation"
  BY <1>1, <1>3, VerdictIs, SameVerdict
<1>5. QED
  BY <1>1, <1>4 DEF TextInv, Going, Returned, VerdictFollowsText, HandedOver

LEMMA AnnotationTaken ==
  ASSUME TypeInv, TextInv, AttachAnnotation, Claims(text[comment]), outcome' # "annotation"
  PROVE  TextInv'
<1>1. /\ phase = "annotate" /\ comment \in 1 .. Len(text) /\ comment' = comment + 1 /\ idx \in Nat
      /\ UNCHANGED <<text, merged, byName>>
  BY AttachDoes DEF AttachAnnotation, TypeInv, TypeOK
<1>2. /\ idx' \in idx .. Len(prods) /\ IsForward(idx', comment)
      /\ idx' # 0 /\ WellFormed(text[comment]) /\ prods[idx'].value = NoValue
      /\ prods' = [prods EXCEPT ![idx'] = Attached(prods[idx'], text[comment])]
      /\ UNCHANGED <<phase, outcome>>
  BY AttachDoes
<1> DEFINE o == idx'
<1>3. /\ ProdsInv /\ AttachInv /\ StageInv /\ outcome = "none" /\ Processed = {}
      /\ Len(prods) \in Nat /\ comment \in Nat
      /\ \A k \in 1 .. Len(prods) : AsWritten(prods[k]) /\ prods[k].sp \in Nat
      /\ \A j, k \in 1 .. Len(prods) : j < k => prods[j].sp < prods[k].sp
      /\ \A i \in Positions : \E k \in 1 .. Len(prods) : prods[k].sp = i
  BY <1>1, Attaching DEF ProdsInv
<1>4. o \in 1 .. Len(prods)
  BY <1>1, <1>2, <1>3
<1>5. comment \in Annotations /\ Meaningful(text[comment])
  <2>1. comment \in Annotations
    BY <1>1, TypeFacts DEF Annotations, TypeInv
  <2>2. text[comment] \in Comment /\ text[comment].kind # "other"
    BY <2>1, PositionsAre DEF TypeInv
  <2>3. QED
    BY <1>2, <2>1, <2>2, WellFormedIsMeaningful
<1>6. /\ \A k \in 1 .. Len(prods) : k <= o => prods[k].sp < comment
      /\ Followed(comment) = prods[o].sp /\ Followed(comment) # 0
  <2>1. /\ \A k \in 1 .. Len(prods) : k <= o => prods[k].sp < comment
        /\ Followed(comment) = prods[o].sp
    BY <1>1, <1>2, OwnerIs
  <2>2. prods[o].sp \in Positions
    BY <1>3, <1>4 DEF AsWritten
  <2>3. QED
    BY <2>1, <2>2, PositionsAre DEF TypeInv
<1>7. /\ Len(prods') = Len(prods)
      /\ \A k \in 1 .. Len(prods) : /\ prods'[k].sp = prods[k].sp /\ AsWritten(prods[k])'
                                    /\ k # o => prods'[k].value = prods[k].value
      /\ prods'[o].value = ValueOf(comment)
  <2>1. /\ Len(prods') = Len(prods)
        /\ \A k \in 1 .. Len(prods) : prods'[k] = IF k = o THEN Attached(prods[o], text[comment]) ELSE prods[k]
    BY <1>2, <1>4, AttachedIs
  <2>2. prods[o] \in RuleType(1 .. fresh, 1 .. Len(text))
    BY <1>4, TypeFacts DEF TypeInv
  <2>3. /\ Attached(prods[o], text[comment]).value = ValueOf(comment)
        /\ Attached(prods[o], text[comment]).sp = prods[o].sp
        /\ Attached(prods[o], text[comment]).name = prods[o].name
        /\ Attached(prods[o], text[comment]).alts = prods[o].alts
        /\ Attached(prods[o], text[comment]).core = prods[o].core
    BY <2>2 DEF Attached, ValueIn, ValueOf, RuleType
  <2> HIDE DEF o
  <2>4. ASSUME NEW k \in 1 .. Len(prods)
        PROVE  /\ prods'[k].sp = prods[k].sp /\ prods'[k].name = prods[k].name
               /\ prods'[k].alts = prods[k].alts /\ prods'[k].core = prods[k].core
               /\ k # o => prods'[k].value = prods[k].value
    <3>1. CASE k = o
      BY <2>1, <2>3, <3>1
    <3>2. CASE k # o
      BY <2>1, <3>2
    <3>3. QED
      BY <3>1, <3>2
  <2>5. \A k \in 1 .. Len(prods) : AsWritten(prods[k])'
    BY <1>1, <1>3, <2>4, SameText DEF AsWritten
  <2>6. prods'[o].value = ValueOf(comment)
    BY <1>4, <2>1, <2>3
  <2>7. QED
    BY <2>1, <2>4, <2>5, <2>6
<1>8. Positions' = Positions /\ Processed' = Processed
  <2>1. Positions' = Positions
    BY <1>1, SameText
  <2>2. QED
    BY <1>7, <2>1 DEF Processed
<1>9. ProdsInv'
  <2>1. \A k \in 1 .. Len(prods') : AsWritten(prods[k])'
    BY <1>7
  <2>2. \A j, k \in 1 .. Len(prods') : j < k => prods'[j].sp < prods'[k].sp
    BY <1>3, <1>7
  <2>3. \A i \in Positions' : \E k \in 1 .. Len(prods') : prods'[k].sp = i
    BY <1>3, <1>7, <1>8
  <2>4. QED
    BY <2>1, <2>2, <2>3 DEF ProdsInv
<1>10. Scanned' = Scanned \union {comment} /\ comment \notin Scanned
  <2>1. \A at \in Annotations : at \in Nat
    BY PositionsAre DEF TypeInv
  <2>2. \A at \in Annotations : (at < comment + 1 <=> (at < comment \/ at = comment)) /\ ~ (comment < comment)
    BY <1>1, <2>1
  <2>3. Annotations' = Annotations
    BY <1>1, SameText
  <2>4. Scanned' = {at \in Annotations : at < comment + 1}
    BY <1>1, <2>3 DEF Scanned
  <2>5. QED
    BY <1>5, <2>2, <2>4 DEF Scanned
<1> HIDE DEF o
<1>11. \A at \in Scanned : Followed(at) # prods[o].sp
  <2>1. \A at \in Scanned : ValueOf(at) # NoValue
    BY ValueIsSome DEF Scanned, TypeInv
  <2>2. \A at \in Scanned : prods[o].sp = Followed(at) => prods[o].value = ValueOf(at)
    BY <1>3, <1>4 DEF AttachInv
  <2>3. QED
    BY <1>2, <2>1, <2>2 DEF o
<1>12. AttachInv'
  <2>1. \A at : Followed(at)' = Followed(at) /\ ValueOf(at)' = ValueOf(at)
    BY <1>1, SameText
  <2>2. \A k \in 1 .. Len(prods') : k <= idx' => prods'[k].sp < comment'
    <3> SUFFICES ASSUME NEW k \in 1 .. Len(prods), k <= o PROVE prods'[k].sp < comment'
      BY <1>7 DEF o
    <3>1. prods'[k].sp = prods[k].sp /\ prods[k].sp \in Nat /\ prods[k].sp < comment
      BY <1>3, <1>6, <1>7
    <3>2. QED
      BY <1>1, <1>3, <3>1
  <2>3. ASSUME NEW k \in 1 .. Len(prods), prods'[k].value # NoValue
        PROVE  \E at \in Scanned' : Followed(at) = prods'[k].sp /\ prods'[k].value = ValueOf(at)
    <3>1. CASE k = o
      BY <1>6, <1>7, <1>10, <3>1
    <3>2. CASE k # o
      <4>1. prods[k].value = prods'[k].value /\ prods'[k].sp = prods[k].sp
        BY <1>7, <3>2
      <4>2. PICK at \in Scanned : Followed(at) = prods[k].sp /\ prods[k].value = ValueOf(at)
        BY <1>3, <2>3, <4>1 DEF AttachInv
      <4>3. QED
        BY <1>10, <4>1, <4>2
    <3>3. QED
      BY <3>1, <3>2
  <2>4. ASSUME NEW at \in Scanned'
        PROVE  /\ Followed(at) # 0 /\ Meaningful(text[at])
               /\ \A k \in 1 .. Len(prods) : prods'[k].sp = Followed(at) => prods'[k].value = ValueOf(at)
               /\ \A other \in Scanned' \ {at} : Followed(other) # Followed(at)
    <3>1. CASE at = comment
      <4>1. ASSUME NEW k \in 1 .. Len(prods), prods[k].sp = prods[o].sp PROVE k = o
        <5>1. ~ (k < o) /\ ~ (o < k)
          BY <1>3, <1>4, <4>1
        <5>2. QED
          BY <1>4, <5>1
      <4>2. \A k \in 1 .. Len(prods) : prods'[k].sp = prods[o].sp => prods'[k].value = ValueOf(comment)
        BY <1>7, <4>1
      <4>3. \A other \in Scanned' \ {at} : Followed(other) # Followed(at)
        BY <1>6, <1>10, <1>11, <3>1
      <4>4. QED
        BY <1>5, <1>6, <3>1, <4>2, <4>3
    <3>2. CASE at \in Scanned
      <4>1. \A k \in 1 .. Len(prods) : prods'[k].sp = Followed(at) => k # o
        BY <1>7, <1>11, <3>2
      <4>2. \A k \in 1 .. Len(prods) : prods'[k].sp = Followed(at) => prods'[k].value = ValueOf(at)
        BY <1>3, <1>7, <3>2, <4>1 DEF AttachInv
      <4>3. \A other \in Scanned' \ {at} : Followed(other) # Followed(at)
        BY <1>3, <1>6, <1>10, <1>11, <3>2 DEF AttachInv
      <4>4. QED
        BY <1>3, <3>2, <4>2, <4>3 DEF AttachInv
    <3>3. QED
      BY <1>10, <3>1, <3>2
  <2>5. \A k \in 1 .. Len(prods') : prods'[k].value # NoValue =>
          \E at \in Scanned' : Followed(at)' = prods'[k].sp /\ prods'[k].value = ValueOf(at)'
    BY <1>7, <2>1, <2>3
  <2>6. \A at \in Scanned' :
          /\ Followed(at)' # 0 /\ Meaningful(text'[at])
          /\ \A k \in 1 .. Len(prods') : prods'[k].sp = Followed(at)' => prods'[k].value = ValueOf(at)'
          /\ \A other \in Scanned' \ {at} : Followed(other)' # Followed(at)'
    BY <1>1, <1>7, <2>1, <2>4
  <2>7. QED
    BY <2>2, <2>5, <2>6 DEF AttachInv
<1>13. StageInv'
  BY <1>1, <1>2, <1>3, <1>8 DEF StageInv, Early
<1>14. QED
  BY <1>1, <1>2, <1>3, <1>9, <1>12, <1>13 DEF TextInv, Going, Early, Returned, VerdictFollowsText, HandedOver

LEMMA AttachAnswers ==
  ASSUME TypeInv, TextInv, AttachAnnotation PROVE TextInv'
BY PassOver, AnnotationRefused, AnnotationTaken

\* All annotations attached, the text has no fault of theirs, and folding
\* begins.
LEMMA NoAnnotationFault ==
  ASSUME TypeInv, AttachInv, comment = Len(text) + 1
  PROVE  Scanned = Annotations /\ ~ AnnotationFault
<1>1. Scanned = Annotations
  <2>1. \A at \in Annotations : at \in Nat /\ at <= Len(text) /\ Len(text) \in Nat
    BY PositionsAre DEF TypeInv
  <2>2. \A at \in Annotations : at < comment
    BY <2>1
  <2>3. QED
    BY <2>2 DEF Scanned
<1>2. QED
  BY <1>1 DEF AttachInv, AnnotationFault

LEMMA AllAttachedAnswers ==
  ASSUME TypeInv, TextInv, AllAttached PROVE TextInv'
<1>1. /\ phase = "annotate" /\ phase' = "merge" /\ comment > Len(text)
      /\ UNCHANGED <<text, prods, comment, idx, merged, byName, outcome>>
  BY DEF AllAttached, work
<1>2. /\ StageInv /\ ProdsInv /\ AttachInv /\ Processed = {} /\ outcome = "none" /\ Positions # {}
      /\ Len(merged) = 0 /\ \A n \in Names : byName[n] = 0
  BY <1>1, Attaching DEF StageInv, Early
<1>3. ProdsInv' /\ AttachInv' /\ Processed' = {} /\ Positions' = Positions
  BY <1>1, <1>2, SameProds, SameAttached, SameText
<1>4. comment' = Len(text') + 1
  BY <1>1, TypeFacts DEF TypeInv, TypeOK
<1>5. StageInv'
  BY <1>1, <1>2, <1>3, <1>4 DEF StageInv, Early
<1>6. FoldInv'
  <2>1. Len(merged') = 0 /\ \A k \in 1 .. 0 : FALSE
    BY <1>1, <1>2
  <2>2. MergedInv'
    BY <1>3, <2>1, FS_EmptySet DEF MergedInv
  <2>3. BaseInv'
    BY <1>1, <1>2, <1>3, <2>1 DEF BaseInv, IsLatest
  <2>4. LinesInv' /\ ValueInv'
    BY <1>3, <2>1 DEF LinesInv, ValueInv, Moved
  <2>5. QED
    BY <2>2, <2>3, <2>4 DEF FoldInv
<1>7. QED
  BY <1>1, <1>2, <1>3, <1>5, <1>6 DEF TextInv, Going, Early, Returned, VerdictFollowsText, HandedOver

-----------------------------------------------------------------------------
(* Folding.                                                                *)

\* The next production is the first line not yet folded.
LEMMA ProcessedNext ==
  ASSUME TypeInv, ProdsInv, Merge
  PROVE  LET i == prods[1].sp IN
         /\ i \in Positions /\ i \notin Processed /\ Processed' = Processed \union {i}
         /\ \A j \in Processed : j < i
         /\ \A j \in Positions : j < i => j \in Processed
         /\ ProdsInv'
<1> DEFINE i == prods[1].sp
<1>1. /\ Len(prods) > 0 /\ Len(prods') = Len(prods) - 1 /\ Len(prods) \in Nat
      /\ \A k \in 1 .. Len(prods') : prods'[k] = prods[k + 1]
      /\ UNCHANGED text
  BY MergeDoes, TypeFacts DEF TypeInv
<1>2. /\ 1 \in 1 .. Len(prods)
      /\ \A k \in 1 .. Len(prods) : AsWritten(prods[k]) /\ prods[k].sp \in Positions /\ prods[k].sp \in Nat
      /\ \A k \in 1 .. Len(prods) : k = 1 \/ i < prods[k].sp
  <2>1. 1 \in 1 .. Len(prods)
    BY <1>1
  <2>2. \A k \in 1 .. Len(prods) : AsWritten(prods[k]) /\ prods[k].sp \in Positions /\ prods[k].sp \in Nat
    BY PositionsAre DEF ProdsInv, AsWritten, TypeInv
  <2>3. \A k \in 1 .. Len(prods) : k = 1 \/ 1 < k
    BY <1>1
  <2>4. QED
    BY <2>1, <2>2, <2>3 DEF ProdsInv
<1>3. i \in Positions /\ i \in Nat /\ \A j \in Positions : j \in Nat
  BY <1>2, PositionsAre DEF TypeInv
<1>4. \A j \in Processed : j \in Positions /\ j < i
  BY <1>2 DEF Processed
<1>5. i \notin Processed
  BY <1>3, <1>4
<1>6. \A j \in Positions : j < i => j \in Processed
  <2> SUFFICES ASSUME NEW j \in Positions, j < i, NEW k \in 1 .. Len(prods) PROVE j < prods[k].sp
    BY DEF Processed
  <2>1. j \in Nat /\ i \in Nat /\ prods[k].sp \in Nat /\ (k = 1 \/ i < prods[k].sp)
    BY <1>2, <1>3
  <2>2. QED
    BY <2>1
<1>7. \A k \in 1 .. Len(prods') : k + 1 \in 1 .. Len(prods) /\ prods'[k] = prods[k + 1] /\ k + 1 # 1
  BY <1>1
<1>8. \A k \in 1 .. Len(prods) : k = 1 \/ \E m \in 1 .. Len(prods') : k = m + 1
  <2> SUFFICES ASSUME NEW k \in 1 .. Len(prods), k # 1 PROVE \E m \in 1 .. Len(prods') : k = m + 1
    OBVIOUS
  <2>1. k - 1 \in 1 .. Len(prods') /\ k = (k - 1) + 1
    BY <1>1
  <2>2. QED
    BY <2>1
<1>9. Positions' = Positions
  BY <1>1, SameText
<1>10. \A j \in Processed : j \in Processed'
  BY <1>7, <1>9 DEF Processed
<1>11. i \in Processed'
  BY <1>2, <1>3, <1>7, <1>9 DEF Processed
<1>12. \A j \in Processed' : j \in Processed \union {i}
  <2> SUFFICES ASSUME NEW j \in Processed', j # i, j \notin Processed PROVE FALSE
    OBVIOUS
  <2>1. j \in Positions /\ \A k \in 1 .. Len(prods') : j < prods'[k].sp
    BY <1>9 DEF Processed
  <2>2. PICK k \in 1 .. Len(prods) : prods[k].sp = j
    BY <2>1 DEF ProdsInv
  <2>3. PICK m \in 1 .. Len(prods') : k = m + 1
    BY <1>8, <2>2
  <2>4. j < j /\ j \in Nat
    BY <1>3, <1>7, <2>1, <2>2, <2>3
  <2>5. QED
    BY <2>4
<1>13. Processed' = Processed \union {i}
  BY <1>10, <1>11, <1>12
<1>14. ProdsInv'
  <2>1. \A k \in 1 .. Len(prods') : AsWritten(prods[k])'
    BY <1>1, <1>2, <1>7, SameText DEF AsWritten
  <2>2. \A j, k \in 1 .. Len(prods') : j < k => prods'[j].sp < prods'[k].sp
    <3> SUFFICES ASSUME NEW j \in 1 .. Len(prods'), NEW k \in 1 .. Len(prods'), j < k
                 PROVE  prods[j + 1].sp < prods[k + 1].sp
      BY <1>7
    <3>1. j + 1 < k + 1
      OBVIOUS
    <3>2. QED
      BY <1>7, <3>1 DEF ProdsInv
  <2>3. \A j \in Positions' : j \in Processed' \/ \E k \in 1 .. Len(prods') : prods'[k].sp = j
    <3> SUFFICES ASSUME NEW j \in Positions, j \notin Processed, j # i
                 PROVE  \E k \in 1 .. Len(prods') : prods'[k].sp = j
      BY <1>9, <1>13
    <3>1. PICK k \in 1 .. Len(prods) : prods[k].sp = j
      BY DEF ProdsInv
    <3>2. PICK m \in 1 .. Len(prods') : k = m + 1
      BY <1>8, <3>1
    <3>3. QED
      BY <1>7, <3>1, <3>2
  <2>4. QED
    BY <2>1, <2>2, <2>3 DEF ProdsInv
<1>15. QED
  BY <1>3, <1>4, <1>5, <1>6, <1>13, <1>14

\* What is known of the next line and the state it is folded in.
Next1 == prods[1].sp
LEMMA Merging ==
  ASSUME TypeInv, TextInv, Merge
  PROVE  /\ StageInv /\ ProdsInv /\ AttachInv /\ MergedInv /\ BaseInv /\ LinesInv /\ ValueInv
         /\ phase = "merge" /\ outcome = "none" /\ Positions # {}
         /\ Scanned = Annotations /\ ~ AnnotationFault
         /\ AsWritten(prods[1]) /\ prods[1].name \in Names
         /\ Next1 \in Positions /\ Next1 \notin Processed /\ Processed' = Processed \union {Next1}
         /\ \A j \in Processed : j < Next1
         /\ \A j \in Positions : j < Next1 => j \in Processed
         /\ ProdsInv' /\ AttachInv' /\ UNCHANGED <<text, comment, idx>>
         /\ Len(merged) \in Nat /\ Next1 \in Nat /\ Processed \subseteq Positions
<1>1. /\ phase = "merge" /\ UNCHANGED <<text, comment, idx>> /\ Len(prods) > 0 /\ Len(prods) \in Nat
      /\ Len(prods') = Len(prods) - 1
      /\ \A k \in 1 .. Len(prods') : prods'[k] = prods[k + 1]
      /\ prods[1].name \in Names
  BY MergeDoes, TypeFacts DEF Merge, TypeInv
<1>2. StageInv /\ ProdsInv /\ AttachInv /\ FoldInv
  BY <1>1 DEF TextInv, Going, Early
<1>3. outcome = "none" /\ Positions # {} /\ comment = Len(text) + 1
  BY <1>1, <1>2 DEF StageInv, Early
<1>4. Scanned = Annotations /\ ~ AnnotationFault
  BY <1>2, <1>3, NoAnnotationFault
<1>5. AsWritten(prods[1])
  <2>1. 1 \in 1 .. Len(prods)
    BY <1>1
  <2>2. QED
    BY <1>2, <2>1 DEF ProdsInv
<1>6. /\ Next1 \in Positions /\ Next1 \notin Processed /\ Processed' = Processed \union {Next1}
      /\ \A j \in Processed : j < Next1
      /\ \A j \in Positions : j < Next1 => j \in Processed
      /\ ProdsInv'
  BY <1>2, ProcessedNext DEF Next1
<1>7. AttachInv'
  <2>1. \A k \in 1 .. Len(prods') : k + 1 \in 1 .. Len(prods) /\ prods'[k] = prods[k + 1]
    BY <1>1
  <2>2. Scanned' = Scanned
    BY <1>1, SameText DEF Scanned
  <2>3. \A k \in 1 .. Len(prods') : prods'[k].sp < comment
    <3>1. \A i \in Positions : i \in Nat /\ i <= Len(text) /\ Len(text) \in Nat
      BY PositionsAre DEF TypeInv
    <3>2. \A i \in Positions : i < comment
      BY <1>3, <3>1
    <3>3. \A k \in 1 .. Len(prods) : prods[k].sp \in Positions
      BY <1>2 DEF ProdsInv, AsWritten
    <3>4. QED
      BY <2>1, <3>2, <3>3
  <2>4. \A at : Followed(at)' = Followed(at) /\ ValueOf(at)' = ValueOf(at)
    BY <1>1, SameText
  <2>5. \A k \in 1 .. Len(prods') : prods'[k].value # NoValue =>
          \E at \in Scanned : Followed(at) = prods'[k].sp /\ prods'[k].value = ValueOf(at)
    BY <1>2, <2>1 DEF AttachInv
  <2>6. \A at \in Scanned : \A k \in 1 .. Len(prods') : prods'[k].sp = Followed(at) => prods'[k].value = ValueOf(at)
    BY <1>2, <2>1 DEF AttachInv
  <2>7. QED
    BY <1>1, <1>2, <2>2, <2>3, <2>4, <2>5, <2>6 DEF AttachInv
<1>8. Next1 \in Nat /\ Len(merged) \in Nat
  BY <1>6, PositionsAre, TypeFacts DEF TypeInv
<1>9. Processed \subseteq Positions
  BY DEF Processed
<1> HIDE DEF Next1
<1>10. QED
  BY <1>1, <1>2, <1>3, <1>4, <1>5, <1>6, <1>7, <1>8, <1>9 DEF FoldInv

\* byName leads to the base of the next line.
LEMMA LatestBase ==
  ASSUME TypeInv, TextInv, Merge, IsIncremental(prods[1])
  PROVE  LET b == byName[prods[1].name] IN
         /\ Next1 \notin Plain
         /\ b = 0 => BaseOf(Next1) = 0
         /\ b # 0 => /\ b \in 1 .. Len(merged) /\ BaseOf(Next1) = merged[b].sp
                     /\ merged[b].sp \in Plain \intersect Processed
<1> DEFINE n == prods[1].name
           b == byName[n]
           S == {j \in Plain : j < Next1 /\ text[j].name = n}
<1>1. /\ MergedInv /\ BaseInv /\ n \in Names /\ n = text[Next1].name /\ b \in 0 .. Len(merged)
      /\ Len(merged) \in Nat
  BY Merging, MergeDoes DEF AsWritten, Next1
<1>2. Next1 \notin Plain
  BY DEF IsIncremental, Plain, Next1
<1>3. BaseOf(Next1) = Greatest(S) /\ Len(text) \in Nat /\ S \in SUBSET (1 .. Len(text))
  BY <1>1, <1>2, PositionsAre DEF BaseOf, TypeInv
<1>4. ASSUME NEW j \in S
      PROVE  \E k \in 1 .. Len(merged) : merged[k].sp = j /\ merged[k].name = n
  <2>1. j \in Plain \intersect Processed
    BY Merging DEF Plain
  <2>2. PICK k \in 1 .. Len(merged) : merged[k].sp = j
    BY <1>1, <2>1 DEF MergedInv
  <2>3. merged[k].name = text[j].name
    BY <1>1, <2>2 DEF MergedInv
  <2>4. QED
    BY <2>2, <2>3
<1> HIDE DEF n, Next1
<1>5. CASE b = 0
  <2>1. \A k \in 1 .. Len(merged) : merged[k].name # n
    BY <1>1, <1>5 DEF BaseInv, IsLatest
  <2>2. S = {}
    BY <1>4, <2>1
  <2> HIDE DEF S
  <2>3. QED
    BY <1>2, <1>3, <1>5, <2>2, GreatestIs DEF n
<1>6. CASE b # 0
  <2>1. b \in 1 .. Len(merged)
    BY <1>1, <1>6
  <2>2. merged[b].name = n /\ \A k \in 1 .. Len(merged) : b < k => merged[k].name # n
    BY <1>1, <1>6 DEF BaseInv, IsLatest
  <2>3. merged[b].sp \in Plain \intersect Processed /\ text[merged[b].sp].name = n
    BY <1>1, <2>1, <2>2 DEF MergedInv
  <2>4. merged[b].sp \in S
    BY <2>3, Merging
  <2>5. \A j \in S : j <= merged[b].sp
    <3> SUFFICES ASSUME NEW j \in S PROVE j <= merged[b].sp
      OBVIOUS
    <3>1. PICK k \in 1 .. Len(merged) : merged[k].sp = j /\ merged[k].name = n
      BY <1>4
    <3>2. k = b \/ k < b
      BY <1>1, <2>1, <2>2, <3>1
    <3>3. k = b \/ merged[k].sp < merged[b].sp
      BY <1>1, <2>1, <3>2 DEF MergedInv
    <3>4. merged[k].sp \in Nat /\ merged[b].sp \in Nat
      BY <1>1, <2>1, PositionsAre DEF MergedInv, TypeInv
    <3>5. QED
      BY <3>1, <3>3, <3>4
  <2> HIDE DEF S, b
  <2>6. Greatest(S) = merged[b].sp
    BY <1>3, <2>4, <2>5, GreatestUnique
  <2>7. QED
    BY <1>2, <1>3, <1>6, <2>1, <2>3, <2>6 DEF n, b
<1>7. QED
  BY <1>5, <1>6

\* A line without a base, or with an annotation where its base has one.
LEMMA MergeRefused ==
  ASSUME TypeInv, TextInv, Merge, outcome' = "merge"
  PROVE  TextInv'
<1> DEFINE b == byName[prods[1].name]
<1>1. outcome = "none" /\ Positions # {} /\ UNCHANGED text
  BY Merging
<1>2. /\ IsIncremental(prods[1]) /\ phase' = "idle"
      /\ b = 0 \/ (prods[1].value # NoValue /\ merged[b].value # NoValue)
  BY <1>1, MergeDoes
<1>3. MergeFault
  <2>1. CASE b = 0
    BY <1>2, <2>1, LatestBase, Merging DEF MergeFault
  <2>2. CASE b # 0
    <3>1. b \in 1 .. Len(merged) /\ BaseOf(Next1) = merged[b].sp
      BY <1>2, <2>2, LatestBase
    <3>2. prods[1].value # NoValue /\ merged[b].value # NoValue /\ 1 \in 1 .. Len(prods)
      BY <1>2, <2>2, MergeDoes, TypeFacts DEF TypeInv
    <3>3. PICK at \in Scanned : Followed(at) = Next1
      BY <3>2, Merging DEF AttachInv, Next1
    <3> HIDE DEF b
    <3>4. PICK other \in Moved : BaseOf(Followed(other)) = merged[b].sp
      BY <3>1, <3>2, Merging DEF ValueInv
    <3>5. at \in Annotations /\ other \in Annotations /\ Followed(other) \in Processed
      BY DEF Scanned, Moved
    <3>6. at # other
      BY <3>3, <3>5, Merging
    <3>7. QED
      BY <3>1, <3>3, <3>4, <3>5, <3>6 DEF MergeFault
  <2>3. QED
    BY <2>1, <2>2
<1>4. Verdict' = "merge"
  BY <1>1, <1>3, Merging, VerdictIs, SameVerdict
<1>5. QED
  BY <1>2, <1>4 DEF TextInv, Going, Returned, VerdictFollowsText, HandedOver

\* What both ways of folding a line owe for the state after.
LEMMA FoldedOn ==
  ASSUME TypeInv, TextInv, Merge, outcome' # "merge", FoldInv'
  PROVE  TextInv'
<1>1. /\ StageInv /\ ProdsInv' /\ AttachInv' /\ phase = "merge" /\ outcome = "none"
      /\ UNCHANGED <<text, comment>> /\ Positions # {}
  BY Merging
<1>2. phase' = "merge" /\ outcome' = "none"
  BY <1>1, MergeDoes
<1>3. Positions' = Positions /\ comment = Len(text) + 1
  BY <1>1, SameText DEF StageInv, Early
<1>4. StageInv'
  BY <1>1, <1>2, <1>3 DEF StageInv, Early
<1>5. QED
  BY <1>1, <1>2, <1>4 DEF TextInv, Going, Early, Returned, VerdictFollowsText, HandedOver

LEMMA OneMore ==
  ASSUME NEW T, NEW s \in Seq(T), NEW t \in Seq(T), Len(t) = 1
  PROVE  /\ Len(s \o t) = Len(s) + 1 /\ (s \o t)[Len(s) + 1] = t[1]
         /\ \A k \in 1 .. Len(s) : (s \o t)[k] = s[k]
<1>1. Len(s) \in Nat
  BY LenProperties
<1>2. /\ Len(s \o t) = Len(s) + Len(t)
      /\ \A k \in 1 .. Len(s) + Len(t) : (s \o t)[k] = IF k <= Len(s) THEN s[k] ELSE t[k - Len(s)]
  BY ConcatProperties, Zenon
<1>3. /\ Len(s \o t) = Len(s) + 1
      /\ \A k \in 1 .. Len(s) + 1 : (s \o t)[k] = IF k <= Len(s) THEN s[k] ELSE t[k - Len(s)]
  BY <1>2, Zenon
<1>4. Len(s) + 1 \in 1 .. Len(s) + 1 /\ ~ (Len(s) + 1 <= Len(s)) /\ (Len(s) + 1) - Len(s) = 1
  BY <1>1
<1>5. \A k \in 1 .. Len(s) : k \in 1 .. Len(s) + 1 /\ k <= Len(s)
  BY <1>1
<1>6. (s \o t)[Len(s) + 1] = t[1]
  BY <1>3, <1>4
<1>7. \A k \in 1 .. Len(s) : (s \o t)[k] = s[k]
  BY <1>3, <1>5
<1>8. QED
  BY <1>2, <1>6, <1>7

LEMMA LinesStay ==
  ASSUME UNCHANGED text, NEW alts, NEW b, HasLines(alts, b), Folding(b)' = Folding(b)
  PROVE  HasLines(alts, b)'
BY SameText DEF HasLines

\* A line more of the rule that stands at b.
LEMMA LinesGrow ==
  ASSUME TypeOK, UNCHANGED text, NEW i \in Positions, i \notin Processed,
         Processed' = Processed \union {i}, \A j \in Processed : j < i,
         \A j \in Positions : j < i => j \in Processed,
         NEW b, BaseOf(i) = b, NEW alts, NEW more, Len(alts) \in Nat, Len(more) = Len(alts) + 1,
         \A j \in 1 .. Len(alts) : more[j] = alts[j], IsLine(more[Len(more)], i),
         HasLines(alts, b)
  PROVE  HasLines(more, b)'
<1> DEFINE L == LinesOf(b)
           F == Folding(b)
<1>1. L \subseteq Positions /\ i \in L /\ F \subseteq L /\ i \notin F
  BY DEF LinesOf, Folding
<1>2. Folding(b)' = F \union {i} /\ LinesOf(b)' = L
  BY <1>1, SameText DEF Folding
<1>3. IsFiniteSet(F) /\ Cardinality(F) \in Nat /\ Cardinality(F \union {i}) = Cardinality(F) + 1
  <2>1. IsFiniteSet(F) /\ Cardinality(F) \in Nat
    BY <1>1, TextFinite
  <2>2. QED
    BY <1>1, <2>1, FS_AddElement
<1>4. Place(i, L) = Cardinality(F) + 1
  <2>1. L \in SUBSET (1 .. Len(text)) /\ Len(text) \in Nat
    BY <1>1, PositionsAre
  <2>2. {j \in L : j < i} = F
    BY <1>1 DEF Folding
  <2> HIDE DEF L, F
  <2>3. QED
    BY <1>1, <2>1, <2>2, PlaceNext
<1>5. Len(alts) = Cardinality(F) /\ Len(more) = Len(alts) + 1 /\ Len(more) \in 1 .. Len(more)
      /\ 1 .. Len(alts) \subseteq 1 .. Len(more)
  BY DEF HasLines
<1>6. \A k \in F : Place(k, L) \in 1 .. Len(alts) /\ IsLine(alts[Place(k, L)], k)
  BY DEF HasLines
<1>7. \A j \in 1 .. Len(alts) : \E k \in F : IsLine(alts[j], k)
  BY DEF HasLines
<1> HIDE DEF L, F
<1>8. \A k \in F \union {i} : Place(k, L) \in 1 .. Len(more) /\ IsLine(more[Place(k, L)], k)
  BY <1>4, <1>5, <1>6
<1>9. \A j \in 1 .. Len(more) : \E k \in F \union {i} : IsLine(more[j], k)
  <2> SUFFICES ASSUME NEW j \in 1 .. Len(more) PROVE \E k \in F \union {i} : IsLine(more[j], k)
    OBVIOUS
  <2>1. j \in 1 .. Len(alts) \/ j = Len(more)
    BY <1>5
  <2>2. QED
    BY <1>7, <2>1
<1>10. \A a, k : IsLine(a, k)' <=> IsLine(a, k)
  BY SameText
<1>11. Len(more) = Cardinality(Folding(b)')
  BY <1>2, <1>3, <1>5
<1>12. \A k \in Folding(b)' : Place(k, L) \in 1 .. Len(more) /\ IsLine(more[Place(k, L)], k)
  BY <1>2, <1>8, <1>10
<1>13. \A j \in 1 .. Len(more) : \E k \in Folding(b)' : IsLine(more[j], k)'
  BY <1>2, <1>9, <1>10
<1>14. QED
  BY <1>2, <1>10, <1>11, <1>12, <1>13 DEF HasLines

\* The annotation of the next line, if it has one.
LEMMA NextValue ==
  ASSUME TypeInv, TextInv, Merge
  PROVE  /\ \A at \in Moved' : at \in Moved \/ (at \in Annotations /\ Followed(at) = Next1)
         /\ \A at \in Annotations : Followed(at) = Next1 => at \in Moved' /\ prods[1].value = ValueOf(at)
         /\ Moved \subseteq Moved' /\ Moved \subseteq Annotations
         /\ \A at \in Moved : Followed(at) # Next1
         /\ \A a, b \in Annotations : Followed(a) = Next1 /\ Followed(b) = Next1 => a = b
         /\ prods[1].value # NoValue => \E at \in Annotations : Followed(at) = Next1
         /\ \A at \in Annotations : ValueOf(at) # NoValue
<1>1. /\ Scanned = Annotations /\ AttachInv /\ Processed' = Processed \union {Next1} /\ UNCHANGED text
      /\ Next1 \notin Processed
  BY Merging
<1>2. 1 \in 1 .. Len(prods)
  BY MergeDoes, TypeFacts DEF TypeInv
<1>3. Moved' = {at \in Annotations : Followed(at) \in Processed \union {Next1}}
  BY <1>1, SameText DEF Moved
<1>4. \A at \in Annotations : Followed(at) = Next1 => prods[1].value = ValueOf(at)
  BY <1>1, <1>2 DEF AttachInv, Next1
<1>5. prods[1].value # NoValue => \E at \in Annotations : Followed(at) = Next1
  BY <1>1, <1>2 DEF AttachInv, Next1
<1>6. \A at \in Annotations : ValueOf(at) # NoValue
  BY ValueIsSome DEF TypeInv
<1>7. \A a, b \in Annotations : Followed(a) = Next1 /\ Followed(b) = Next1 => a = b
  BY <1>1 DEF AttachInv
<1> HIDE DEF Next1
<1>8. QED
  BY <1>1, <1>3, <1>4, <1>5, <1>6, <1>7 DEF Moved

LEMMA LineFolded ==
  ASSUME TypeInv, TextInv, Merge, IsIncremental(prods[1]), outcome' # "merge"
  PROVE  FoldInv'
<1> DEFINE b == byName[prods[1].name]
           s == merged[b].sp
           p == prods[1]
<1>1. /\ MergedInv /\ BaseInv /\ LinesInv /\ ValueInv /\ AsWritten(p) /\ UNCHANGED text
      /\ Next1 \in Positions /\ Next1 \notin Processed /\ Processed' = Processed \union {Next1}
      /\ \A j \in Processed : j < Next1
      /\ \A j \in Positions : j < Next1 => j \in Processed
      /\ Len(merged) \in Nat
  BY Merging
<1>2. /\ b \in 1 .. Len(merged) /\ UNCHANGED byName
      /\ p.value = NoValue \/ merged[b].value = NoValue
      /\ merged' = [merged EXCEPT ![b] = Folded(@, p)]
      /\ p \in RuleType(1 .. fresh, DOMAIN text)
  BY MergeDoes
<1>3. Next1 \notin Plain /\ BaseOf(Next1) = s /\ s \in Plain \intersect Processed
  <2>1. b # 0
    BY <1>1, <1>2
  <2>2. QED
    BY <2>1, LatestBase
<1>4. /\ merged \in Seq(RuleType(1 .. fresh, DOMAIN text)) /\ DOMAIN merged = 1 .. Len(merged)
      /\ merged[b] \in RuleType(1 .. fresh, DOMAIN text)
  BY <1>2, LenProperties, ElementOfSeq DEF TypeInv, TypeOK
<1>5. Len(merged') = Len(merged)
  <2>1. Len([merged EXCEPT ![b] = Folded(merged[b], p)]) = Len(merged)
    BY <1>2, <1>4
  <2>2. QED
    BY <1>2, <2>1
<1>6. ASSUME NEW k \in 1 .. Len(merged)
      PROVE  /\ merged'[k].sp = merged[k].sp /\ merged'[k].name = merged[k].name
             /\ merged'[k].core = merged[k].core
             /\ k # b => merged'[k] = merged[k]
             /\ k = b => /\ merged'[k].alts = merged[b].alts \o p.alts
                         /\ merged'[k].value = IF p.value # NoValue THEN p.value ELSE merged[b].value
  <2>1. merged'[k] = IF k = b THEN Folded(merged[b], p) ELSE merged[k]
    BY <1>2, <1>4
  <2>2. /\ Folded(merged[b], p).sp = merged[b].sp /\ Folded(merged[b], p).name = merged[b].name
        /\ Folded(merged[b], p).core = merged[b].core
        /\ Folded(merged[b], p).alts = merged[b].alts \o p.alts
        /\ Folded(merged[b], p).value = IF p.value # NoValue THEN p.value ELSE merged[b].value
    BY <1>4 DEF Folded, RuleType
  <2> HIDE DEF b, p
  <2>3. QED
    BY <2>1, <2>2
<1>7. \A k \in 1 .. Len(merged) : k # b => merged[k].sp # s
  <2> SUFFICES ASSUME NEW k \in 1 .. Len(merged), k # b PROVE merged[k].sp # s
    OBVIOUS
  <2>1. k < b \/ b < k
    BY <1>1, <1>2
  <2>2. merged[k].sp \in Nat /\ s \in Nat
    BY <1>1, <1>3, PositionsAre DEF MergedInv, TypeInv
  <2>3. merged[k].sp < s \/ s < merged[k].sp
    BY <1>1, <1>2, <2>1 DEF MergedInv
  <2>4. QED
    BY <2>2, <2>3
<1> HIDE DEF b, s, p
<1>8. MergedInv'
  <2>1. Plain' = Plain /\ Plain \intersect Processed' = Plain \intersect Processed
    BY <1>1, <1>3, SameText
  <2>2. Len(merged') = Cardinality((Plain \intersect Processed)')
    BY <1>1, <1>5, <2>1 DEF MergedInv
  <2>3. ASSUME NEW k \in 1 .. Len(merged')
        PROVE  /\ merged'[k].sp \in (Plain \intersect Processed)' /\ merged'[k].core = FALSE
               /\ merged'[k].name = text'[merged'[k].sp].name /\ Place(merged'[k].sp, Plain') = k
    <3>1. k \in 1 .. Len(merged) /\ text' = text
      BY <1>1, <1>5
    <3>2. /\ merged[k].sp \in Plain \intersect Processed /\ merged[k].core = FALSE
          /\ merged[k].name = text[merged[k].sp].name /\ Place(merged[k].sp, Plain) = k
      BY <1>1, <3>1 DEF MergedInv
    <3>3. merged'[k].sp = merged[k].sp /\ merged'[k].name = merged[k].name /\ merged'[k].core = merged[k].core
      BY <1>6, <3>1
    <3>4. QED
      BY <2>1, <3>1, <3>2, <3>3
  <2>4. \A i \in (Plain \intersect Processed)' : \E k \in 1 .. Len(merged') : merged'[k].sp = i
    <3> SUFFICES ASSUME NEW i \in Plain \intersect Processed
                 PROVE  \E k \in 1 .. Len(merged') : merged'[k].sp = i
      BY <2>1
    <3>1. PICK k \in 1 .. Len(merged) : merged[k].sp = i
      BY <1>1 DEF MergedInv
    <3>2. merged'[k].sp = i
      BY <1>6, <3>1
    <3>3. QED
      BY <1>5, <3>2
  <2>5. \A j, k \in 1 .. Len(merged') : j < k => merged'[j].sp < merged'[k].sp
    BY <1>1, <1>5, <1>6 DEF MergedInv
  <2>6. QED
    BY <2>2, <2>3, <2>4, <2>5 DEF MergedInv
<1>9. BaseInv'
  <2>1. \A n \in Names : IsLatest(n)'
    <3>1. byName \in [Names -> 0 .. Len(merged)]
      BY DEF TypeInv, TypeOK
    <3>2. \A n \in Names : byName[n] # 0 => byName[n] \in 1 .. Len(merged)
      BY <1>1, <3>1
    <3>3. \A n \in Names : IsLatest(n)
      BY <1>1 DEF BaseInv
    <3>4. \A k \in 1 .. Len(merged) : merged'[k].name = merged[k].name
      BY <1>6
    <3>5. QED
      BY <1>2, <1>5, <3>2, <3>3, <3>4 DEF IsLatest
  <2>2. Plain' = Plain /\ \A i : BaseOf(i)' = BaseOf(i)
    BY <1>1, SameText
  <2>3. \A i \in Processed' : BaseOf(i) \in Plain \intersect Processed'
    BY <1>1, <1>3 DEF BaseInv
  <2>4. QED
    BY <2>1, <2>2, <2>3 DEF BaseInv
<1>10. LinesInv'
  <2> SUFFICES ASSUME NEW k \in 1 .. Len(merged) PROVE HasLines(merged[k].alts, merged[k].sp)'
    BY <1>5 DEF LinesInv
  <2>1. HasLines(merged[k].alts, merged[k].sp)
    BY <1>1 DEF LinesInv
  <2>2. CASE k = b
    <3>1. merged[b].alts \in Seq(LineType(1 .. fresh)) /\ p.alts \in Seq(LineType(1 .. fresh))
      BY <1>2, <1>4 DEF RuleType
    <3>2. Len(p.alts) = 1 /\ IsLine(p.alts[1], Next1)
      BY <1>1 DEF AsWritten, Next1, p
    <3>3. PICK c, alts, more : c = s /\ alts = merged[b].alts /\ more = merged[b].alts \o p.alts
      OBVIOUS
    <3>4. alts \in Seq(LineType(1 .. fresh)) /\ more = alts \o p.alts /\ Len(alts) \in Nat
      BY <3>1, <3>3, LenProperties
    <3> DEFINE T == LineType(1 .. fresh)
               more1 == p.alts
    <3> HIDE DEF T, more1
    <3>5. alts \in Seq(T) /\ more1 \in Seq(T) /\ Len(more1) = 1 /\ more = alts \o more1
      BY <3>1, <3>2, <3>4 DEF T, more1
    <3>6. Len(more) = Len(alts) + 1
      BY <3>5, ConcatProperties
    <3>7. (\A j \in 1 .. Len(alts) : more[j] = alts[j]) /\ more[Len(alts) + 1] = p.alts[1]
      BY <3>4, <3>5, OneMore DEF more1
    <3>8. IsLine(more[Len(more)], Next1)
      BY <3>2, <3>6, <3>7
    <3>9. HasLines(alts, c) /\ BaseOf(Next1) = c
      BY <1>3, <2>1, <2>2, <3>3 DEF s
    <3>10. HasLines(more, c)'
      BY <1>1, <3>4, <3>6, <3>7, <3>8, <3>9, LinesGrow DEF TypeInv
    <3>11. merged'[k].alts = more /\ merged'[k].sp = c
      BY <1>6, <2>2, <3>3 DEF s
    <3>12. QED
      BY <3>10, <3>11
  <2>3. CASE k # b
    <3>1. Next1 \notin LinesOf(merged[k].sp)
      BY <1>3, <1>7, <2>3 DEF LinesOf
    <3>2. Folding(merged[k].sp) = LinesOf(merged[k].sp) \intersect Processed'
      BY <1>1, <3>1 DEF Folding
    <3>3. \A i : LinesOf(i)' = LinesOf(i)
      BY <1>1, SameText
    <3>4. PICK c, alts : c = merged[k].sp /\ alts = merged[k].alts
      OBVIOUS
    <3>5. Folding(c)' = Folding(c) /\ HasLines(alts, c)
      BY <2>1, <3>2, <3>3, <3>4 DEF Folding
    <3>6. HasLines(alts, c)'
      BY <1>1, <3>5, LinesStay
    <3>7. merged'[k].alts = alts /\ merged'[k].sp = c
      BY <1>6, <2>3, <3>4
    <3>8. QED
      BY <3>6, <3>7
  <2>4. QED
    BY <2>2, <2>3
<1>11. ValueInv'
  <2>1. (\A at : Followed(at)' = Followed(at) /\ ValueOf(at)' = ValueOf(at)) /\ \A i : BaseOf(i)' = BaseOf(i)
    BY <1>1, SameText
  <2>2. ASSUME NEW k \in 1 .. Len(merged), merged'[k].value # NoValue
        PROVE  \E at \in Moved' : BaseOf(Followed(at)) = merged[k].sp /\ merged'[k].value = ValueOf(at)
    <3>1. CASE k = b /\ p.value # NoValue
      <4>1. PICK at \in Annotations : Followed(at) = Next1
        BY <3>1, NextValue DEF p
      <4>2. at \in Moved' /\ p.value = ValueOf(at)
        BY <4>1, NextValue DEF p
      <4>3. QED
        BY <1>3, <1>6, <3>1, <4>1, <4>2 DEF s
    <3>2. CASE ~ (k = b /\ p.value # NoValue)
      <4>1. merged'[k].value = merged[k].value
        BY <1>6, <3>2
      <4>2. PICK at \in Moved : BaseOf(Followed(at)) = merged[k].sp /\ merged[k].value = ValueOf(at)
        BY <1>1, <2>2, <4>1 DEF ValueInv
      <4>3. QED
        BY <4>1, <4>2, NextValue
    <3>3. QED
      BY <3>1, <3>2
  <2>3. \A at \in Moved : BaseOf(Followed(at)) = s => merged[b].value = ValueOf(at) /\ merged[b].value # NoValue
    BY <1>1, <1>2, NextValue DEF ValueInv, s
  <2>4. ASSUME NEW at \in Moved', NEW k \in 1 .. Len(merged), merged[k].sp = BaseOf(Followed(at))
        PROVE  merged'[k].value = ValueOf(at)
    <3>1. CASE at \in Moved
      <4>1. merged[k].value = ValueOf(at)
        BY <1>1, <2>4, <3>1 DEF ValueInv
      <4>2. k = b => p.value = NoValue
        BY <1>2, <2>3, <2>4, <3>1 DEF s
      <4>3. QED
        BY <1>6, <4>1, <4>2
    <3>2. CASE at \notin Moved
      <4>1. at \in Annotations /\ Followed(at) = Next1
        BY <3>2, NextValue
      <4>2. k = b
        BY <1>3, <1>7, <2>4, <4>1
      <4>3. p.value = ValueOf(at) /\ p.value # NoValue
        BY <4>1, NextValue DEF p
      <4>4. QED
        BY <1>6, <4>2, <4>3
    <3>3. QED
      BY <3>1, <3>2
  <2>5. ASSUME NEW at \in Moved', NEW other \in Moved' \ {at}
        PROVE  BaseOf(Followed(other)) # BaseOf(Followed(at))
    <3>1. CASE at \in Moved /\ other \in Moved
      BY <1>1, <3>1 DEF ValueInv
    <3>2. CASE at \in Moved /\ other \notin Moved
      <4>1. other \in Annotations /\ Followed(other) = Next1 /\ p.value # NoValue
        BY <3>2, NextValue DEF p
      <4>2. QED
        BY <1>2, <1>3, <2>3, <3>2, <4>1
    <3>3. CASE at \notin Moved /\ other \in Moved
      <4>1. at \in Annotations /\ Followed(at) = Next1 /\ p.value # NoValue
        BY <3>3, NextValue DEF p
      <4>2. QED
        BY <1>2, <1>3, <2>3, <3>3, <4>1
    <3>4. CASE at \notin Moved /\ other \notin Moved
      BY <3>4, NextValue
    <3>5. QED
      BY <3>1, <3>2, <3>3, <3>4
  <2>6. \A k \in 1 .. Len(merged) : merged'[k].sp = merged[k].sp
    BY <1>6
  <2>7. \A k \in 1 .. Len(merged') : merged'[k].value # NoValue =>
          \E at \in Moved' : BaseOf(Followed(at)) = merged'[k].sp /\ merged'[k].value = ValueOf(at)
    BY <1>5, <2>2, <2>6
  <2>8. \A at \in Moved' :
          /\ \A k \in 1 .. Len(merged') : merged'[k].sp = BaseOf(Followed(at)) => merged'[k].value = ValueOf(at)
          /\ \A other \in Moved' \ {at} : BaseOf(Followed(other)) # BaseOf(Followed(at))
    BY <1>5, <2>4, <2>5, <2>6
  <2>9. \A at : BaseOf(Followed(at))' = BaseOf(Followed(at))
    BY <2>1
  <2>10. QED
    BY <2>1, <2>7, <2>8, <2>9 DEF ValueInv
<1>12. QED
  BY <1>8, <1>9, <1>10, <1>11 DEF FoldInv

\* A plain line makes a rule of its own.
LEMMA LineKept ==
  ASSUME TypeInv, TextInv, Merge, ~ IsIncremental(prods[1])
  PROVE  FoldInv'
<1> DEFINE p == prods[1]
           new == Kept(p)
           last == Len(merged) + 1
<1>1. /\ MergedInv /\ BaseInv /\ LinesInv /\ ValueInv /\ AsWritten(p) /\ UNCHANGED text
      /\ Next1 \in Positions /\ Next1 \notin Processed /\ Processed' = Processed \union {Next1}
      /\ \A j \in Processed : j < Next1
      /\ \A j \in Positions : j < Next1 => j \in Processed
      /\ Len(merged) \in Nat /\ Processed \subseteq Positions
  BY Merging
<1>2. /\ merged' = Append(merged, new) /\ byName' = [byName EXCEPT ![p.name] = last]
      /\ p.name \in Names
  BY MergeDoes
<1>3. Next1 \in Plain /\ BaseOf(Next1) = Next1
  <2>1. Next1 \in Plain
    BY <1>1 DEF Plain, IsIncremental, Next1
  <2>2. QED
    BY <2>1 DEF BaseOf
<1>4. /\ new.sp = Next1 /\ new.name = p.name /\ p.name = text[Next1].name /\ new.core = FALSE
      /\ new.value = p.value /\ new.alts = p.alts /\ Len(p.alts) = 1 /\ IsLine(p.alts[1], Next1)
  BY <1>1 DEF Kept, Rule, AsWritten, Next1
<1>5. merged \in Seq(RuleType(1 .. fresh, DOMAIN text)) /\ byName \in [Names -> 0 .. Len(merged)]
  BY DEF TypeInv, TypeOK
<1> HIDE DEF new, p
<1>6. /\ Len(merged') = last /\ merged'[last] = new
      /\ \A k \in 1 .. Len(merged) : merged'[k] = merged[k]
  BY <1>2, <1>5, AppendIs
<1>7. /\ last \in 1 .. last /\ last # 0 /\ 1 .. Len(merged) \subseteq 1 .. last
      /\ \A k \in 1 .. last : k \in 1 .. Len(merged) \/ k = last
      /\ \A k \in 1 .. Len(merged) : k < last /\ ~ (last < k) /\ k # last
      /\ ~ (last < last)
  BY <1>1
<1>8. \A k \in 1 .. Len(merged) : merged[k].sp \in Plain \intersect Processed
  BY <1>1 DEF MergedInv
<1> HIDE DEF last, Next1
<1>9. /\ Plain' = Plain /\ \A i : BaseOf(i)' = BaseOf(i)
      /\ (\A at : Followed(at)' = Followed(at) /\ ValueOf(at)' = ValueOf(at))
      /\ Plain \intersect Processed' = (Plain \intersect Processed) \union {Next1}
      /\ Next1 \notin Plain \intersect Processed
  BY <1>1, <1>3, SameText
<1>10. MergedInv'
  <2>1. /\ Cardinality((Plain \intersect Processed) \union {Next1}) = last
        /\ Place(Next1, Plain) = last
    <3>1. Len(merged) = Cardinality(Plain \intersect Processed)
      BY <1>1 DEF MergedInv
    <3>2. IsFiniteSet(Plain \intersect Processed)
      BY <1>1, TextFinite DEF TypeInv
    <3>3. Plain \in SUBSET (1 .. Len(text)) /\ Len(text) \in Nat /\ Plain \subseteq Positions
      BY PositionsAre DEF TypeInv
    <3>4. {j \in Plain : j < Next1} = Plain \intersect Processed
      BY <1>1, <3>3
    <3>5. Place(Next1, Plain) = Cardinality(Plain \intersect Processed) + 1
      BY <1>3, <3>3, <3>4, PlaceNext
    <3>6. Cardinality((Plain \intersect Processed) \union {Next1}) = Cardinality(Plain \intersect Processed) + 1
      BY <1>9, <3>2, FS_AddElement
    <3>7. QED
      BY <3>1, <3>5, <3>6 DEF last
  <2>2. Len(merged') = Cardinality((Plain \intersect Processed)')
    BY <1>6, <1>9, <2>1
  <2>3. \A k \in 1 .. Len(merged') :
          /\ merged'[k].sp \in (Plain \intersect Processed)' /\ merged'[k].core = FALSE
          /\ merged'[k].name = text'[merged'[k].sp].name /\ Place(merged'[k].sp, Plain') = k
    <3> SUFFICES ASSUME NEW k \in 1 .. last
                 PROVE  /\ merged'[k].sp \in (Plain \intersect Processed) \union {Next1} /\ merged'[k].core = FALSE
                        /\ merged'[k].name = text[merged'[k].sp].name /\ Place(merged'[k].sp, Plain) = k
      BY <1>1, <1>6, <1>9
    <3>1. CASE k = last
      BY <1>4, <1>6, <2>1, <3>1
    <3>2. CASE k \in 1 .. Len(merged)
      BY <1>1, <1>6, <3>2 DEF MergedInv
    <3>3. QED
      BY <1>7, <3>1, <3>2
  <2>4. \A i \in (Plain \intersect Processed)' : \E k \in 1 .. Len(merged') : merged'[k].sp = i
    <3> SUFFICES ASSUME NEW i \in (Plain \intersect Processed) \union {Next1}
                 PROVE  \E k \in 1 .. last : merged'[k].sp = i
      BY <1>6, <1>9
    <3>1. CASE i = Next1
      BY <1>4, <1>6, <1>7, <3>1
    <3>2. CASE i \in Plain \intersect Processed
      <4>1. PICK k \in 1 .. Len(merged) : merged[k].sp = i
        BY <1>1, <3>2 DEF MergedInv
      <4>2. QED
        BY <1>6, <1>7, <4>1
    <3>3. QED
      BY <3>1, <3>2
  <2>5. \A j, k \in 1 .. Len(merged') : j < k => merged'[j].sp < merged'[k].sp
    <3> SUFFICES ASSUME NEW j \in 1 .. last, NEW k \in 1 .. last, j < k
                 PROVE  merged'[j].sp < merged'[k].sp
      BY <1>6
    <3>1. j \in 1 .. Len(merged)
      BY <1>7
    <3>2. CASE k = last
      BY <1>1, <1>4, <1>6, <1>8, <3>1, <3>2
    <3>3. CASE k \in 1 .. Len(merged)
      BY <1>1, <1>6, <3>1, <3>3 DEF MergedInv
    <3>4. QED
      BY <1>7, <3>2, <3>3
  <2>6. QED
    BY <2>2, <2>3, <2>4, <2>5 DEF MergedInv
<1>11. BaseInv'
  <2>1. ASSUME NEW n \in Names PROVE IsLatest(n)'
    <3>1. CASE n = p.name
      <4>1. byName'[n] = last
        BY <1>2, <1>5, <3>1
      <4>2. QED
        BY <1>4, <1>6, <1>7, <3>1, <4>1 DEF IsLatest
    <3>2. CASE n # p.name
      <4>1. byName'[n] = byName[n] /\ (byName[n] = 0 \/ byName[n] \in 1 .. Len(merged))
        BY <1>1, <1>2, <1>5, <3>2
      <4>2. IsLatest(n)
        BY <1>1 DEF BaseInv
      <4>3. CASE byName[n] = 0
        <5>1. \A k \in 1 .. Len(merged) : merged[k].name # n
          BY <4>2, <4>3 DEF IsLatest
        <5>2. \A k \in 1 .. last : merged'[k].name # n
          BY <1>4, <1>6, <1>7, <3>2, <5>1
        <5>3. QED
          BY <1>6, <4>1, <4>3, <5>2 DEF IsLatest
      <4>4. CASE byName[n] # 0
        <5>1. /\ byName[n] \in 1 .. Len(merged) /\ merged[byName[n]].name = n
              /\ \A k \in 1 .. Len(merged) : byName[n] < k => merged[k].name # n
          BY <4>1, <4>2, <4>4 DEF IsLatest
        <5>2. \A k \in 1 .. last : byName[n] < k => merged'[k].name # n
          BY <1>4, <1>6, <1>7, <3>2, <5>1
        <5>3. merged'[byName[n]].name = n
          BY <1>6, <5>1
        <5>4. QED
          BY <1>6, <4>1, <4>4, <5>2, <5>3 DEF IsLatest
      <4>5. QED
        BY <4>3, <4>4
    <3>3. QED
      BY <3>1, <3>2
  <2>2. \A i \in Processed' : BaseOf(i) \in (Plain \intersect Processed) \union {Next1}
    BY <1>1, <1>3 DEF BaseInv
  <2>3. QED
    BY <1>9, <2>1, <2>2 DEF BaseInv
<1>12. Folding(Next1) = {}
  <2>1. \A j \in Processed : BaseOf(j) \in Processed
    BY <1>1 DEF BaseInv
  <2>2. QED
    BY <1>1, <2>1 DEF Folding, LinesOf
<1>13. LinesInv'
  <2> SUFFICES ASSUME NEW k \in 1 .. last PROVE HasLines(merged[k].alts, merged[k].sp)'
    BY <1>6 DEF LinesInv
  <2>1. CASE k = last
    <3>1. PICK c, alts, more : c = Next1 /\ alts = <<>> /\ more = p.alts
      OBVIOUS
    <3>2. Len(alts) = 0 /\ Len(alts) \in Nat /\ ~ \E j : j \in 1 .. Len(alts)
      BY <3>1
    <3>3. HasLines(alts, c)
      BY <1>12, <3>1, <3>2, FS_EmptySet DEF HasLines
    <3>4. Len(more) = Len(alts) + 1 /\ IsLine(more[Len(more)], c)
      BY <1>4, <3>1, <3>2
    <3>5. HasLines(more, c)'
      BY <1>1, <1>3, <3>1, <3>2, <3>3, <3>4, LinesGrow DEF TypeInv
    <3>6. merged'[k].alts = more /\ merged'[k].sp = c
      BY <1>4, <1>6, <2>1, <3>1
    <3>7. QED
      BY <3>5, <3>6
  <2>2. CASE k \in 1 .. Len(merged)
    <3>1. Next1 \notin LinesOf(merged[k].sp)
      BY <1>1, <1>3, <1>8, <2>2 DEF LinesOf
    <3>2. Folding(merged[k].sp) = LinesOf(merged[k].sp) \intersect Processed'
      BY <1>1, <3>1 DEF Folding
    <3>3. \A i : LinesOf(i)' = LinesOf(i)
      BY <1>1, SameText
    <3>4. PICK c, alts : c = merged[k].sp /\ alts = merged[k].alts
      OBVIOUS
    <3>5. HasLines(merged[k].alts, merged[k].sp)
      BY <1>1, <2>2 DEF LinesInv
    <3>6. Folding(c)' = Folding(c) /\ HasLines(alts, c)
      BY <3>2, <3>3, <3>4, <3>5 DEF Folding
    <3>7. HasLines(alts, c)'
      BY <1>1, <3>6, LinesStay
    <3>8. merged'[k].alts = alts /\ merged'[k].sp = c
      BY <1>6, <2>2, <3>4
    <3>9. QED
      BY <3>7, <3>8
  <2>3. QED
    BY <1>7, <2>1, <2>2
<1>14. ValueInv'
  <2>1. \A at \in Moved : BaseOf(Followed(at)) # Next1
    BY <1>1 DEF Moved, BaseInv
  <2>2. \A at \in Moved' : at \in Moved \/ (/\ at \in Annotations /\ Followed(at) = Next1
                                            /\ BaseOf(Followed(at)) = Next1 /\ p.value = ValueOf(at))
    BY <1>3, NextValue DEF p
  <2>3. ASSUME NEW k \in 1 .. last, merged'[k].value # NoValue
        PROVE  \E at \in Moved' : BaseOf(Followed(at)) = merged'[k].sp /\ merged'[k].value = ValueOf(at)
    <3>1. CASE k = last
      <4>1. p.value # NoValue
        BY <1>4, <1>6, <2>3, <3>1
      <4>2. PICK at \in Annotations : Followed(at) = Next1
        BY <4>1, NextValue DEF p
      <4>3. at \in Moved' /\ p.value = ValueOf(at)
        BY <4>2, NextValue DEF p
      <4>4. QED
        BY <1>3, <1>4, <1>6, <3>1, <4>2, <4>3
    <3>2. CASE k \in 1 .. Len(merged)
      <4>1. merged'[k] = merged[k]
        BY <1>6, <3>2
      <4>2. PICK at \in Moved : BaseOf(Followed(at)) = merged[k].sp /\ merged[k].value = ValueOf(at)
        BY <1>1, <2>3, <3>2, <4>1 DEF ValueInv
      <4>3. QED
        BY <4>1, <4>2, NextValue
    <3>3. QED
      BY <1>7, <3>1, <3>2
  <2>4. ASSUME NEW at \in Moved', NEW k \in 1 .. last, merged'[k].sp = BaseOf(Followed(at))
        PROVE  merged'[k].value = ValueOf(at)
    <3>1. CASE at \in Moved
      <4>1. k # last
        BY <1>4, <1>6, <2>1, <2>4, <3>1
      <4>2. k \in 1 .. Len(merged)
        BY <1>7, <4>1
      <4>3. QED
        BY <1>1, <1>6, <2>4, <3>1, <4>2 DEF ValueInv
    <3>2. CASE at \notin Moved
      <4>1. BaseOf(Followed(at)) = Next1 /\ p.value = ValueOf(at)
        BY <2>2, <3>2
      <4>2. k \notin 1 .. Len(merged)
        BY <1>1, <1>6, <1>8, <2>4, <4>1
      <4>3. QED
        BY <1>4, <1>6, <1>7, <4>1, <4>2
    <3>3. QED
      BY <3>1, <3>2
  <2>5. ASSUME NEW at \in Moved', NEW other \in Moved' \ {at}
        PROVE  BaseOf(Followed(other)) # BaseOf(Followed(at))
    <3>1. CASE at \in Moved /\ other \in Moved
      BY <1>1, <3>1 DEF ValueInv
    <3>2. CASE at \in Moved /\ other \notin Moved
      BY <2>1, <2>2, <3>2
    <3>3. CASE at \notin Moved /\ other \in Moved
      BY <2>1, <2>2, <3>3
    <3>4. CASE at \notin Moved /\ other \notin Moved
      BY <3>4, NextValue
    <3>5. QED
      BY <3>1, <3>2, <3>3, <3>4
  <2>6. \A at \in Moved' :
          /\ \A k \in 1 .. Len(merged') : merged'[k].sp = BaseOf(Followed(at)) => merged'[k].value = ValueOf(at)
          /\ \A other \in Moved' \ {at} : BaseOf(Followed(other)) # BaseOf(Followed(at))
    BY <1>6, <2>4, <2>5
  <2>7. \A k \in 1 .. Len(merged') : merged'[k].value # NoValue =>
          \E at \in Moved' : BaseOf(Followed(at)) = merged'[k].sp /\ merged'[k].value = ValueOf(at)
    BY <1>6, <2>3
  <2>8. \A at : BaseOf(Followed(at))' = BaseOf(Followed(at))
    BY <1>9
  <2>9. QED
    BY <1>9, <2>6, <2>7, <2>8 DEF ValueInv
<1>15. QED
  BY <1>10, <1>11, <1>13, <1>14 DEF FoldInv

LEMMA MergeAnswers ==
  ASSUME TypeInv, TextInv, Merge PROVE TextInv'
BY MergeRefused, LineFolded, LineKept, FoldedOn

-----------------------------------------------------------------------------
(* After folding.                                                          *)

\* The stages after folding leave the text and the rules alone.
LEMMA SameRules ==
  ASSUME Going, ~ Early, TextInv, UNCHANGED <<text, prods, comment, idx, merged, byName>>
  PROVE  /\ ProdsInv' /\ AttachInv' /\ FoldInv' /\ Processed' = Processed
         /\ Positions' = Positions /\ (NoHole => NoHole')
<1>1. ProdsInv /\ AttachInv /\ FoldInv
  BY DEF TextInv
<1>2. Positions' = Positions /\ (NoHole => NoHole')
  BY SameText DEF NoHole
<1>3. QED
  BY <1>1, <1>2, SameProds, SameAttached, SameFolded

LEMMA MergedAnswers ==
  ASSUME TypeInv, TextInv, Merged PROVE TextInv'
<1>1. /\ phase = "merge" /\ phase' = "holes" /\ prods = <<>>
      /\ UNCHANGED <<text, prods, comment, idx, merged, byName, outcome>>
  BY DEF Merged, work
<1>2. Going /\ ~ Early /\ StageInv
  BY <1>1 DEF TextInv, Going, Early
<1>3. Len(prods') = 0 /\ outcome' = "none" /\ Positions # {} /\ comment = Len(text) + 1
  BY <1>1, <1>2, EmptySeq DEF StageInv
<1>4. StageInv'
  BY <1>1, <1>3, SameText DEF StageInv, Early
<1>5. QED
  BY <1>1, <1>2, <1>3, <1>4, SameRules DEF TextInv, Going, Early, Returned, VerdictFollowsText, HandedOver

\* All lines are folded, and the text has no fault but perhaps a hole,
\* which is then in a rule.
LEMMA AllFolded ==
  ASSUME TypeInv, TextInv, Going, phase \in {"holes", "core", "idle"}
  PROVE  /\ ~ Early /\ StageInv /\ FoldInv /\ Positions # {} /\ Processed = Positions
         /\ Scanned = Annotations /\ Moved = Annotations
         /\ ~ AnnotationFault /\ ~ MergeFault
<1>1. ~ Early /\ StageInv /\ ProdsInv /\ AttachInv /\ FoldInv
  BY DEF TextInv, Early
<1>2. Positions # {} /\ comment = Len(text) + 1 /\ Len(prods) = 0
  BY <1>1 DEF StageInv
<1>3. Scanned = Annotations /\ ~ AnnotationFault
  BY <1>1, <1>2, NoAnnotationFault
<1>4. Processed = Positions
  <2>1. \A k \in 1 .. 0 : FALSE
    OBVIOUS
  <2>2. QED
    BY <1>2, <2>1 DEF Processed
<1>5. \A at \in Annotations : Followed(at) \in Positions
  <2>1. \A at \in Annotations : Followed(at) # 0
    BY <1>1, <1>3 DEF AttachInv
  <2>2. \A at \in Annotations : at \in Nat
    BY PositionsAre DEF TypeInv
  <2>3. QED
    BY <2>1, <2>2, FollowedIs DEF TypeInv
<1>6. Moved = Annotations
  BY <1>4, <1>5 DEF Moved
<1>7. ~ MergeFault
  <2>1. \A i \in Positions : i # 0
    BY PositionsAre DEF TypeInv
  <2>2. \A i \in Positions : BaseOf(i) \in Positions
    BY <1>1, <1>4 DEF FoldInv, BaseInv
  <2>3. \A a, b \in Annotations : a # b => BaseOf(Followed(a)) # BaseOf(Followed(b))
    BY <1>1, <1>6 DEF FoldInv, ValueInv
  <2>4. QED
    BY <2>1, <2>2, <2>3 DEF MergeFault
<1>8. QED
  BY <1>1, <1>2, <1>3, <1>4, <1>6, <1>7

LEMMA HolesAreSeen ==
  ASSUME TypeInv, TextInv, Going, phase \in {"holes", "core", "idle"}
  PROVE  Holed(merged) <=> ~ NoHole
<1>1. FoldInv /\ Processed = Positions /\ TypeOK
  BY AllFolded DEF TypeInv
<1>2. /\ DOMAIN merged = 1 .. Len(merged) /\ Len(merged) \in Nat
      /\ \A k \in 1 .. Len(merged) : DOMAIN merged[k].alts = 1 .. Len(merged[k].alts)
  <2>1. /\ merged \in Seq(RuleType(1 .. fresh, DOMAIN text)) /\ Len(merged) \in Nat
        /\ DOMAIN merged = 1 .. Len(merged)
    BY <1>1, LenProperties DEF TypeOK
  <2>2. \A k \in 1 .. Len(merged) : merged[k] \in RuleType(1 .. fresh, DOMAIN text)
    BY <2>1, ElementOfSeq
  <2>3. \A k \in 1 .. Len(merged) : merged[k].alts \in Seq(LineType(1 .. fresh))
    BY <2>2 DEF RuleType
  <2>4. QED
    BY <2>1, <2>3, LenProperties
<1>3. Holed(merged) <=> \E k \in 1 .. Len(merged) : \E j \in 1 .. Len(merged[k].alts) : merged[k].alts[j].hole
  <2>1. \A k \in 1 .. Len(merged) :
          ToSet(merged[k].alts) = {merged[k].alts[j] : j \in 1 .. Len(merged[k].alts)}
    BY <1>2 DEF ToSet
  <2>2. ToSet(merged) = {merged[k] : k \in 1 .. Len(merged)}
    BY <1>2 DEF ToSet
  <2>3. Holed(merged) <=> \E k \in 1 .. Len(merged) : \E line \in ToSet(merged[k].alts) : line.hole
    BY <2>2 DEF Holed
  <2>4. ASSUME NEW k \in 1 .. Len(merged)
        PROVE  (\E line \in ToSet(merged[k].alts) : line.hole)
                 <=> \E j \in 1 .. Len(merged[k].alts) : merged[k].alts[j].hole
    BY <2>1
  <2>5. QED
    BY <2>3, <2>4
<1>4. ASSUME NEW k \in 1 .. Len(merged), NEW j \in 1 .. Len(merged[k].alts), merged[k].alts[j].hole
      PROVE  ~ NoHole
  <2>1. PICK i \in Folding(merged[k].sp) : IsLine(merged[k].alts[j], i)
    BY <1>1 DEF FoldInv, LinesInv, HasLines
  <2>2. i \in Positions /\ text[i].hole
    BY <1>4, <2>1 DEF IsLine, Folding, LinesOf
  <2>3. QED
    BY <2>2 DEF NoHole
<1>5. ASSUME ~ NoHole
      PROVE  \E k \in 1 .. Len(merged) : \E j \in 1 .. Len(merged[k].alts) : merged[k].alts[j].hole
  <2>1. PICK i \in Positions : text[i].hole
    BY <1>5 DEF NoHole
  <2>2. BaseOf(i) \in Plain \intersect Processed
    BY <1>1 DEF FoldInv, BaseInv
  <2>3. PICK k \in 1 .. Len(merged) : merged[k].sp = BaseOf(i)
    BY <1>1, <2>2 DEF FoldInv, MergedInv
  <2>4. i \in Folding(merged[k].sp)
    BY <1>1, <2>3 DEF Folding, LinesOf
  <2>5. PICK j \in 1 .. Len(merged[k].alts) : IsLine(merged[k].alts[j], i)
    BY <1>1, <2>4 DEF FoldInv, LinesInv, HasLines
  <2>6. merged[k].alts[j].hole
    BY <2>1, <2>5 DEF IsLine
  <2>7. QED
    BY <2>6
<1>6. QED
  BY <1>3, <1>4, <1>5

LEMMA RejectHolesAnswers ==
  ASSUME TypeInv, TextInv, RejectHoles PROVE TextInv'
<1>1. phase = "holes" /\ UNCHANGED <<text, prods, comment, idx, merged, byName>>
  BY DEF RejectHoles
<1>2. Going /\ ~ Early /\ StageInv /\ Positions # {} /\ ~ AnnotationFault /\ ~ MergeFault
      /\ (Holed(merged) <=> ~ NoHole)
  BY <1>1, AllFolded, HolesAreSeen DEF Going
<1>3. CASE Holed(merged)
  <2>1. phase' = "idle" /\ outcome' = "hole"
    BY <1>3 DEF RejectHoles, Refuse
  <2>2. Verdict' = "hole"
    BY <1>1, <1>2, <1>3, VerdictIs, SameVerdict
  <2>3. QED
    BY <2>1, <2>2 DEF TextInv, Going, Returned, VerdictFollowsText, HandedOver
<1>4. CASE ~ Holed(merged)
  <2>1. phase' = "core" /\ outcome' = outcome /\ outcome = "none"
    BY <1>1, <1>2, <1>4 DEF RejectHoles, StageInv
  <2>2. StageInv'
    BY <1>1, <1>2, <2>1, SameText DEF StageInv, Early
  <2>3. ProdsInv' /\ AttachInv' /\ FoldInv' /\ NoHole'
    BY <1>1, <1>2, <1>4, SameRules
  <2>4. QED
    BY <2>1, <2>2, <2>3 DEF TextInv, Going, Early, Returned, VerdictFollowsText, HandedOver
<1>5. QED
  BY <1>3, <1>4

\* Core rules are added after the text is done with.
LEMMA CoreAnswers ==
  ASSUME TypeInv, TextInv, AddCore \/ NextPass PROVE TextInv'
<1>1. /\ phase = "core" /\ UNCHANGED <<phase, text, prods, comment, idx, merged, byName, outcome>>
  BY DEF AddCore, NextPass
<1>2. Going /\ ~ Early /\ StageInv /\ NoHole /\ outcome = "none" /\ Positions # {}
  BY <1>1, AllFolded DEF TextInv, Going, StageInv
<1>3. ProdsInv' /\ AttachInv' /\ FoldInv' /\ NoHole' /\ Processed' = Processed /\ Positions' = Positions
  BY <1>1, <1>2, SameRules
<1>4. StageInv'
  BY <1>1, <1>2, <1>3 DEF StageInv, Early
<1>5. QED
  BY <1>1, <1>2, <1>3, <1>4 DEF TextInv, Going, Early, Returned, VerdictFollowsText, HandedOver

LEMMA ReturnAnswers ==
  ASSUME TypeInv, TextInv, Return PROVE TextInv'
<1>1. /\ phase = "core" /\ phase' = "idle" /\ outcome' = "grammar"
      /\ grammars' = Append(grammars, merged \o core)
      /\ UNCHANGED <<text, prods, comment, idx, merged, byName, core>>
  BY DEF Return, work
<1>2. /\ Going /\ ~ Early /\ StageInv /\ NoHole /\ Positions # {}
      /\ ~ AnnotationFault /\ ~ MergeFault /\ Len(prods) = 0
  BY <1>1, AllFolded DEF TextInv, Going, StageInv
<1>3. /\ ProdsInv' /\ AttachInv' /\ FoldInv' /\ NoHole' /\ Processed' = Processed
      /\ Positions' = Positions
  BY <1>1, <1>2, SameRules
<1>4. StageInv'
  BY <1>1, <1>2, <1>3 DEF StageInv, Early
<1>5. Verdict' = "grammar"
  BY <1>1, <1>2, VerdictIs, SameVerdict
<1>6. grammars' # <<>> /\ Last(grammars') = merged \o core
  <2> DEFINE G == Seq(RuleType(1 .. fresh, 0 .. MaxItems))
             g == merged \o core
  <2>1. grammars \in Seq(G) /\ grammars' = Append(grammars, g)
    BY <1>1 DEF TypeInv, TypeOK
  <2> HIDE DEF G, g
  <2>2. Len(grammars') = Len(grammars) + 1 /\ grammars'[Len(grammars) + 1] = g /\ Len(grammars) \in Nat
    BY <2>1, AppendIs, LenProperties
  <2>3. grammars' # <<>> /\ Last(grammars') = g
    BY <2>2, EmptySeq DEF Last
  <2>4. QED
    BY <2>3 DEF g
<1>7. HandedOver'
  BY <1>1, <1>6 DEF HandedOver
<1>8. QED
  BY <1>1, <1>3, <1>4, <1>5, <1>7 DEF TextInv, Going, Early, Returned, VerdictFollowsText

\* Nor does what the callers do concern the text.
LEMMA IdleAnswers ==
  ASSUME TypeInv, TextInv, CallerWrites \/ UNCHANGED vars PROVE TextInv'
<1>1. UNCHANGED <<phase, text, prods, comment, idx, merged, byName, core, outcome, grammars>>
  BY DEF CallerWrites, vars, work
<1>2. Going' = Going /\ Early' = Early /\ Returned' = Returned /\ HandedOver'
  BY <1>1 DEF TextInv, Going, Early, Returned, HandedOver
<1>3. Going => StageInv' /\ ProdsInv' /\ AttachInv'
  <2> SUFFICES ASSUME Going PROVE StageInv' /\ ProdsInv' /\ AttachInv'
    OBVIOUS
  <2>1. StageInv /\ ProdsInv /\ AttachInv
    BY DEF TextInv
  <2>2. ProdsInv' /\ AttachInv' /\ Processed' = Processed /\ Positions' = Positions
    BY <1>1, <2>1, SameProds, SameAttached, SameText
  <2>3. StageInv'
    BY <1>1, <2>1, <2>2 DEF StageInv, Early
  <2>4. QED
    BY <2>2, <2>3
<1>4. Going /\ ~ Early => FoldInv'
  BY <1>1, SameFolded DEF TextInv
<1>5. phase = "core" \/ Returned => NoHole'
  BY <1>1, SameText DEF TextInv, NoHole
<1>6. VerdictFollowsText'
  BY <1>1, SameVerdict DEF TextInv, VerdictFollowsText
<1>7. QED
  BY <1>1, <1>2, <1>3, <1>4, <1>5, <1>6 DEF TextInv

LEMMA AnswersNext == TypeInv /\ TextInv /\ [Next]_vars => TextInv'
<1> SUFFICES ASSUME TypeInv, TextInv, [Next]_vars PROVE TextInv'
  OBVIOUS
<1>1. CASE Call
  BY <1>1, CallAnswers
<1>2. CASE ReadProduction
  BY <1>2, ReadProductionAnswers
<1>3. CASE ReadComment
  BY <1>3, ReadCommentAnswers
<1>4. CASE ParseError \/ ReadAll
  BY <1>4, ReadAllAnswers
<1>5. CASE AttachAnnotation
  BY <1>5, AttachAnswers
<1>6. CASE AllAttached
  BY <1>6, AllAttachedAnswers
<1>7. CASE Merge
  BY <1>7, MergeAnswers
<1>8. CASE Merged
  BY <1>8, MergedAnswers
<1>9. CASE RejectHoles
  BY <1>9, RejectHolesAnswers
<1>10. CASE AddCore \/ NextPass
  BY <1>10, CoreAnswers
<1>11. CASE Return
  BY <1>11, ReturnAnswers
<1>12. CASE CallerWrites \/ UNCHANGED vars
  BY <1>12, IdleAnswers
<1>13. QED
  BY <1>1, <1>2, <1>3, <1>4, <1>5, <1>6, <1>7, <1>8, <1>9, <1>10, <1>11, <1>12 DEF Next, Proceed

\* For every text, whatever its length: it is refused exactly when it has a
\* fault, and for the fault that comes first; with no fault it becomes a
\* grammar (parseAbnf: attachValueAnnotations, mergeIncrementals,
\* rejectHoles, in that order).
THEOREM FaultsAreReported == Spec => []VerdictFollowsText
<1>1. TextInv => VerdictFollowsText
  BY DEF TextInv
<1>2. QED
  BY <1>1, AnswersInit, AnswersNext, TypeInit, TypeNext, PTL DEF Spec

-----------------------------------------------------------------------------
(***************************************************************************)
(* The grammar parseAbnf hands over: the core rules added to it            *)
(* (withCoreRules), the order they are in, and the grammar's own rules     *)
(* with their element lists and value annotations.                         *)
(***************************************************************************)
-----------------------------------------------------------------------------
(* The table of core rules: names that differ, references to rules that    *)
(* the table declares before.                                              *)
LEMMA CoreNames ==
  \A i, j \in 1 .. 16 : CoreRules[i].name = CoreRules[j].name => i = j
<1>1. \A i \in 1 .. 16 : CoreRules[i].name =
        <<"ALPHA", "BIT", "CHAR", "CR", "LF", "CRLF", "CTL", "DIGIT", "DQUOTE", "HEXDIG", "HTAB",
          "OCTET", "SP", "VCHAR", "WSP", "LWSP">>[i]
  BY DEF CoreRules
<1>2. QED
  BY <1>1

LEMMA CoreRefs ==
  \A i, j \in 1 .. 16 : CoreRules[j].name \in CoreRules[i].refs => j < i
<1>1. \A i \in 1 .. 16 : CoreRules[i].refs # {} => i \in {6, 10, 15, 16}
  BY DEF CoreRules
<1>2. /\ CoreRules[6].refs = {"CR", "LF"} /\ CoreRules[10].refs = {"DIGIT"}
      /\ CoreRules[15].refs = {"SP", "HTAB"} /\ CoreRules[16].refs = {"WSP", "CRLF"}
  BY DEF CoreRules
<1>3. /\ "CR" = CoreRules[4].name /\ "LF" = CoreRules[5].name /\ "CRLF" = CoreRules[6].name
      /\ "DIGIT" = CoreRules[8].name /\ "HTAB" = CoreRules[11].name
      /\ "SP" = CoreRules[13].name /\ "WSP" = CoreRules[15].name
  BY DEF CoreRules
<1> HIDE DEF CoreRules
<1>4. /\ \A j \in 1 .. 16 : CoreRules[j].name \in CoreRules[6].refs => j = 4 \/ j = 5
      /\ \A j \in 1 .. 16 : CoreRules[j].name \in CoreRules[10].refs => j = 8
      /\ \A j \in 1 .. 16 : CoreRules[j].name \in CoreRules[15].refs => j = 13 \/ j = 11
      /\ \A j \in 1 .. 16 : CoreRules[j].name \in CoreRules[16].refs => j = 15 \/ j = 6
  BY <1>2, <1>3, CoreNames
<1>5. QED
  BY <1>1, <1>4

-----------------------------------------------------------------------------
(* The invariants: the rules added are clones of the table's, and they are *)
(* reached; the ones that the grammar refers to itself come first.         *)
IsCoreRule(r, c) ==
  /\ r.name = CoreRules[c].name /\ r.sp = 0 /\ r.core = TRUE /\ r.value = NoValue
  /\ Len(r.alts) = 1 /\ r.alts[1].refs = CoreRules[c].refs
CacheInv == cache = <<>> \/ (Len(cache) = 16 /\ \A i \in 1 .. 16 : IsCoreRule(cache[i], i))

\* Where the table declares a rule added.
At(k) == CoreIndex(core[k])
CoreTyped == \A k \in 1 .. Len(core) : At(k) \in 1 .. 16 /\ IsCoreRule(core[k], At(k))
AddedOnce ==
  /\ \A k \in 1 .. Len(core) : core[k].name \notin RuleNames(merged)
  /\ \A j, k \in 1 .. Len(core) : core[j].name = core[k].name => j = k

ReachInv ==
  /\ defined = RuleNames(merged) \union RuleNames(core)
  /\ needed = Refs(merged) \union Refs(core)
  /\ \A T \in SUBSET RuleNames(CoreRules) : Closed(T, merged) => RuleNames(core) \subseteq T
  /\ phase = "core" /\ ~ added => scanned = 0
  /\ Returned => \A i \in 1 .. 16 : CoreRules[i].name \in needed => CoreRules[i].name \in defined

Direct == (Refs(merged) \intersect RuleNames(CoreRules)) \ RuleNames(merged)
Leading(m) == {core[k].name : k \in 1 .. m}
\* The first m rules added are direct ones, in the table's order.
FirstPass(m) ==
  /\ Leading(m) \subseteq Direct
  /\ \A j, k \in 1 .. m : j < k => At(j) < At(k)
\* Either the first m rules are all the direct ones, and the next falls, or
\* the first pass is still on and has added those it has been over.
PassInv(m) ==
  /\ m < Len(core) => m > 0 /\ At(m + 1) < At(m)
  /\ \/ Direct \subseteq Leading(m)
     \/ /\ phase = "core" /\ m = Len(core) /\ (m > 0 => At(m) <= scanned)
        /\ \A i \in 1 .. scanned : CoreRules[i].name \in Direct => CoreRules[i].name \in Leading(m)
OrderInv == \E m \in 0 .. Len(core) : FirstPass(m) /\ PassInv(m)

CoreInv ==
  /\ CacheInv /\ CoreTyped
  /\ phase \in {"read", "annotate", "merge", "holes"} => Len(core) = 0 /\ scanned = 0 /\ added = FALSE
  /\ phase \in {"holes", "core"} => Len(cache) = 16
  /\ phase = "core" \/ Returned => AddedOnce /\ ReachInv /\ OrderInv

-----------------------------------------------------------------------------
(* Names and references of rules.                                          *)
LEMMA CoreIndexIs ==
  ASSUME NEW r, NEW c \in 1 .. 16, r.name = CoreRules[c].name
  PROVE  CoreIndex(r) = c
<1>1. \A i \in DOMAIN CoreRules : CoreRules[i].name = r.name => i = c
  BY CoreNames, CoreRulesTyped
<1>2. QED
  BY <1>1, CoreRulesTyped DEF CoreIndex

LEMMA TableNames ==
  /\ RuleNames(CoreRules) = {CoreRules[i].name : i \in 1 .. 16}
  /\ \A d \in ToSet(CoreRules) : \E i \in 1 .. 16 : d = CoreRules[i]
  /\ \A i \in 1 .. 16 : CoreRules[i] \in ToSet(CoreRules)
BY CoreRulesTyped DEF RuleNames, ToSet

RefsOf(r) == UNION {a.refs : a \in ToSet(r.alts)}

LEMMA NamesAre ==
  ASSUME NEW S, NEW s \in Seq(S)
  PROVE  /\ Len(s) \in Nat /\ DOMAIN s = 1 .. Len(s)
         /\ RuleNames(s) = {s[k].name : k \in 1 .. Len(s)}
         /\ Refs(s) = UNION {RefsOf(s[k]) : k \in 1 .. Len(s)}
<1>1. Len(s) \in Nat /\ DOMAIN s = 1 .. Len(s)
  BY LenProperties
<1>2. ToSet(s) = {s[k] : k \in 1 .. Len(s)}
  BY <1>1 DEF ToSet
<1>3. RuleNames(s) = {s[k].name : k \in 1 .. Len(s)}
  BY <1>2 DEF RuleNames
<1>4. Refs(s) = UNION {RefsOf(s[k]) : k \in 1 .. Len(s)}
  BY <1>2 DEF Refs, RefsOf
<1>5. QED
  BY <1>1, <1>3, <1>4

LEMMA NamesOfAppend ==
  ASSUME NEW S, NEW s \in Seq(S), NEW r, NEW D, r.alts \in Seq(D), Len(r.alts) = 1
  PROVE  /\ RuleNames(Append(s, r)) = RuleNames(s) \union {r.name}
         /\ Refs(Append(s, r)) = Refs(s) \union r.alts[1].refs
<1>1. s \in Seq(S \union {r}) /\ Append(s, r) \in Seq(S \union {r})
  BY AppendProperties
<1>2. Len(Append(s, r)) = Len(s) + 1 /\ Append(s, r)[Len(s) + 1] = r /\ Len(s) \in Nat
      /\ \A k \in 1 .. Len(s) : Append(s, r)[k] = s[k]
  BY AppendIs, LenProperties
<1>3. ToSet(r.alts) = {r.alts[1]}
  BY LenProperties DEF ToSet
<1> DEFINE t == Append(s, r)
<1> HIDE DEF t
<1>4. /\ RuleNames(s) = {s[k].name : k \in 1 .. Len(s)} /\ RuleNames(t) = {t[k].name : k \in 1 .. Len(t)}
      /\ Refs(s) = UNION {RefsOf(s[k]) : k \in 1 .. Len(s)}
      /\ Refs(t) = UNION {RefsOf(t[k]) : k \in 1 .. Len(t)}
  BY <1>1, NamesAre DEF t
<1>5. /\ Len(s) + 1 \in 1 .. Len(s) + 1 /\ 1 .. Len(s) \subseteq 1 .. Len(s) + 1
      /\ \A k \in 1 .. Len(s) + 1 : k \in 1 .. Len(s) \/ k = Len(s) + 1
  BY <1>2
<1>6. /\ Len(t) = Len(s) + 1 /\ t[Len(s) + 1] = r /\ \A k \in 1 .. Len(s) : t[k] = s[k]
  BY <1>2 DEF t
<1>7. RuleNames(t) = RuleNames(s) \union {r.name}
  BY <1>4, <1>5, <1>6
<1>8. ASSUME NEW n PROVE n \in Refs(t) <=> n \in Refs(s) \/ n \in RefsOf(r)
  <2>1. n \in Refs(t) <=> \E k \in 1 .. Len(t) : n \in RefsOf(t[k])
    BY <1>4
  <2>2. n \in Refs(s) <=> \E k \in 1 .. Len(s) : n \in RefsOf(s[k])
    BY <1>4
  <2>3. (\E k \in 1 .. Len(t) : n \in RefsOf(t[k]))
          <=> n \in RefsOf(r) \/ \E k \in 1 .. Len(s) : n \in RefsOf(s[k])
    BY <1>5, <1>6
  <2>4. QED
    BY <2>1, <2>2, <2>3
<1>9. RefsOf(r) = r.alts[1].refs
  BY <1>3 DEF RefsOf
<1>10. Refs(t) = Refs(s) \union r.alts[1].refs
  BY <1>8, <1>9
<1>11. QED
  BY <1>7, <1>10 DEF t

\* The rules added refer to what the table's do.
LEMMA CoreRefsAre ==
  ASSUME TypeOK, CoreTyped
  PROVE  /\ \A k \in 1 .. Len(core) : CoreRules[At(k)].refs \subseteq Refs(core)
         /\ \A n \in Refs(core) : \E k \in 1 .. Len(core) : n \in CoreRules[At(k)].refs
<1>1. core \in Seq(RuleType(1 .. fresh, {0})) /\ DOMAIN core = 1 .. Len(core)
  BY LenProperties DEF TypeOK
<1>2. \A k \in 1 .. Len(core) : core[k].alts \in Seq(LineType(1 .. fresh))
  <2>1. \A k \in 1 .. Len(core) : core[k] \in RuleType(1 .. fresh, {0})
    BY <1>1, ElementOfSeq
  <2>2. QED
    BY <2>1 DEF RuleType
<1>3. \A k \in 1 .. Len(core) : Len(core[k].alts) = 1 /\ core[k].alts[1].refs = CoreRules[At(k)].refs
  BY DEF CoreTyped, IsCoreRule
<1>4. \A k \in 1 .. Len(core) : ToSet(core[k].alts) = {core[k].alts[1]}
  BY <1>2, <1>3, LenProperties DEF ToSet
<1>5. \A k \in 1 .. Len(core) : RefsOf(core[k]) = CoreRules[At(k)].refs
  BY <1>3, <1>4 DEF RefsOf
<1>6. Refs(core) = UNION {RefsOf(core[k]) : k \in 1 .. Len(core)}
  BY <1>1, NamesAre
<1>7. QED
  BY <1>5, <1>6

LEMMA RefsOfOne ==
  ASSUME NEW r, NEW D, r.alts \in Seq(D), Len(r.alts) = 1
  PROVE  Refs(<<r>>) = r.alts[1].refs
<1>1. ToSet(r.alts) = {r.alts[1]}
  BY LenProperties DEF ToSet
<1>2. RefsOf(r) = r.alts[1].refs
  BY <1>1 DEF RefsOf
<1>3. ToSet(<<r>>) = {r}
  BY DEF ToSet
<1>4. QED
  BY <1>2, <1>3 DEF Refs, RefsOf

LEMMA ClosedIs ==
  ASSUME NEW S, NEW own
  PROVE  Closed(S, own) <=> \A i \in 1 .. 16 :
           (\/ CoreRules[i].name \in Refs(own)
            \/ \E j \in 1 .. 16 : CoreRules[j].name \in S /\ CoreRules[i].name \in CoreRules[j].refs)
             => CoreRules[i].name \in S \/ CoreRules[i].name \in RuleNames(own)
<1>1. DOMAIN CoreRules = 1 .. 16
  BY CoreRulesTyped
<1>2. ASSUME NEW n
      PROVE  n \in UNION {d.refs : d \in {e \in ToSet(CoreRules) : e.name \in S}}
               <=> \E j \in 1 .. 16 : CoreRules[j].name \in S /\ n \in CoreRules[j].refs
  <2>1. n \in UNION {d.refs : d \in {e \in ToSet(CoreRules) : e.name \in S}}
          <=> \E d \in ToSet(CoreRules) : d.name \in S /\ n \in d.refs
    OBVIOUS
  <2>2. (\E d \in ToSet(CoreRules) : d.name \in S /\ n \in d.refs)
          <=> \E j \in 1 .. 16 : CoreRules[j].name \in S /\ n \in CoreRules[j].refs
    BY TableNames
  <2>3. QED
    BY <2>1, <2>2
<1>3. QED
  BY <1>1, <1>2 DEF Closed

-----------------------------------------------------------------------------
(* The invariant holds.                                                    *)
LEMMA CoreInit == Init => CoreInv
<1> SUFFICES ASSUME Init PROVE CoreInv
  OBVIOUS
<1>1. core = <<>> /\ cache = <<>> /\ phase = "idle" /\ outcome = "none" /\ Len(core) = 0
  BY EmptySeq DEF Init
<1>2. CoreTyped
  <2>1. \A k \in 1 .. 0 : FALSE
    OBVIOUS
  <2>2. QED
    BY <1>1, <2>1 DEF CoreTyped
<1>3. QED
  BY <1>1, <1>2 DEF CoreInv, CacheInv, Returned

\* The stages before leave the core rules alone.
LEMMA BeforeCore ==
  ASSUME TypeInv, TextInv, CoreInv,
         \/ ReadProduction \/ ReadComment \/ ParseError \/ ReadAll
         \/ AttachAnnotation \/ AllAttached \/ Merge
  PROVE  CoreInv'
<1>1. phase \in {"read", "annotate", "merge"} /\ UNCHANGED <<core, cache, scanned, added>>
  BY DEF ReadProduction, ReadComment, ParseError, ReadAll, AttachAnnotation, AllAttached, Merge, work
<1>2. outcome = "none"
  BY <1>1 DEF TextInv, Going, StageInv
<1>3. phase' \in {"read", "annotate", "merge", "idle"} /\ outcome' # "grammar"
  <2>1. CASE AttachAnnotation
    BY <1>2, <2>1, AttachDoes
  <2>2. CASE Merge
    BY <1>2, <2>2, MergeDoes
  <2>3. CASE ReadProduction \/ ReadComment \/ ParseError \/ ReadAll \/ AllAttached
    BY <1>1, <1>2, <2>3 DEF ReadProduction, ReadComment, ParseError, ReadAll, AllAttached, Refuse
  <2>4. QED
    BY <2>1, <2>2, <2>3
<1>4. CacheInv' /\ CoreTyped'
  BY <1>1 DEF CoreInv, CacheInv, CoreTyped, At, IsCoreRule
<1>5. QED
  BY <1>1, <1>3, <1>4 DEF CoreInv, Returned

LEMMA CallCore ==
  ASSUME CoreInv, Call PROVE CoreInv'
<1>1. /\ phase' = "read" /\ outcome' = "none" /\ core' = <<>> /\ scanned' = 0 /\ added' = FALSE
      /\ cache' = cache /\ Len(core') = 0
  BY EmptySeq DEF Call
<1>2. CoreTyped'
  <2>1. \A k \in 1 .. 0 : FALSE
    OBVIOUS
  <2>2. QED
    BY <1>1, <2>1 DEF CoreTyped
<1>3. QED
  BY <1>1, <1>2 DEF CoreInv, CacheInv, IsCoreRule, Returned

\* The table is parsed on first use.
LEMMA MergedCore ==
  ASSUME TypeInv, TextInv, CoreInv, Merged PROVE CoreInv'
<1>1. phase = "merge" /\ phase' = "holes" /\ UNCHANGED <<core, scanned, added, outcome>>
  BY DEF Merged, work
<1>2. outcome = "none"
  BY <1>1 DEF TextInv, Going, StageInv
<1>3. Len(cache') = 16 /\ \A i \in 1 .. 16 : IsCoreRule(cache'[i], i)
  <2>1. CASE cache # <<>>
    BY <2>1 DEF Merged, CoreInv, CacheInv
  <2>2. CASE cache = <<>>
    <3>1. cache' = Parsed
      BY <2>2 DEF Merged
    <3>2. Len(Parsed) = 16 /\ \A i \in 1 .. 16 : Parsed[i] = ParsedRule(i)
      BY ParsedTyped, TypeFacts DEF TypeInv
    <3>3. \A i \in 1 .. 16 : IsCoreRule(ParsedRule(i), i)
      BY DEF ParsedRule, Rule, IsCoreRule
    <3>4. QED
      BY <3>1, <3>2, <3>3
  <2>3. QED
    BY <2>1, <2>2
<1>4. CacheInv' /\ CoreTyped'
  BY <1>1, <1>3 DEF CoreInv, CacheInv, CoreTyped, At, IsCoreRule
<1>5. QED
  BY <1>1, <1>2, <1>3, <1>4 DEF CoreInv, Returned

LEMMA RejectHolesCore ==
  ASSUME TypeInv, TextInv, CoreInv, RejectHoles PROVE CoreInv'
<1>1. phase = "holes" /\ UNCHANGED <<merged, core, cache, scanned, added>>
  BY DEF RejectHoles
<1>2. outcome = "none" /\ Len(core) = 0 /\ scanned = 0 /\ added = FALSE /\ Len(cache) = 16
  BY <1>1 DEF TextInv, Going, StageInv, CoreInv
<1>3. CacheInv' /\ CoreTyped'
  BY <1>1 DEF CoreInv, CacheInv, CoreTyped, At, IsCoreRule
<1>4. CASE Holed(merged)
  <2>1. phase' = "idle" /\ outcome' = "hole"
    BY <1>4 DEF RejectHoles, Refuse
  <2>2. QED
    BY <1>3, <2>1 DEF CoreInv, Returned
<1>5. CASE ~ Holed(merged)
  <2>1. phase' = "core" /\ outcome' = "none" /\ defined' = RuleNames(merged) /\ needed' = Refs(merged)
    BY <1>2, <1>5 DEF RejectHoles
  <2>2. core = <<>> /\ ~ \E k : k \in 1 .. 0
    BY <1>2, EmptySeq DEF TypeInv, TypeOK
  <2>3. RuleNames(core) = {} /\ Refs(core) = {}
    BY <2>2 DEF RuleNames, Refs, ToSet
  <2>4. ReachInv'
    BY <1>1, <1>2, <2>1, <2>3 DEF ReachInv, Returned
  <2>5. AddedOnce'
    BY <1>1, <1>2, <2>2 DEF AddedOnce
  <2>6. (FirstPass(0) /\ PassInv(0))'
    <3>1. Leading(0)' = {}
      BY <2>2 DEF Leading
    <3>2. QED
      BY <1>1, <1>2, <2>1, <2>2, <3>1 DEF FirstPass, PassInv
  <2>7. OrderInv'
    BY <1>1, <1>2, <2>6 DEF OrderInv
  <2>8. QED
    BY <1>1, <1>2, <1>3, <2>1, <2>4, <2>5, <2>7 DEF CoreInv
<1>6. QED
  BY <1>4, <1>5

\* The rules of the table that the rules added refer to, directly or on the
\* way, are declared before them.
LEMMA NeededBefore ==
  ASSUME TypeOK, CoreTyped, NEW i \in 1 .. 16, CoreRules[i].name \in Refs(core)
  PROVE  \E k \in 1 .. Len(core) : CoreRules[i].name \in CoreRules[At(k)].refs /\ i < At(k)
<1>1. PICK k \in 1 .. Len(core) : CoreRules[i].name \in CoreRules[At(k)].refs
  BY CoreRefsAre
<1>2. At(k) \in 1 .. 16
  BY DEF CoreTyped
<1>3. QED
  BY <1>1, <1>2, CoreRefs

\* The last of the leading rules is the one declared last.
LEMMA LastLeads ==
  ASSUME CoreTyped, Len(core) \in Nat, NEW m \in 0 .. Len(core), FirstPass(m), NEW k \in 1 .. m
  PROVE  m > 0 /\ m \in 1 .. m /\ At(m) \in 1 .. 16 /\ At(k) \in 1 .. 16 /\ At(k) <= At(m)
<1>1. m > 0 /\ m \in 1 .. m /\ k \in 1 .. Len(core) /\ m \in 1 .. Len(core)
  OBVIOUS
<1>2. At(m) \in 1 .. 16 /\ At(k) \in 1 .. 16
  BY <1>1 DEF CoreTyped
<1>3. k = m \/ k < m
  OBVIOUS
<1>4. k = m \/ At(k) < At(m)
  BY <1>1, <1>3 DEF FirstPass
<1>5. At(k) <= At(m)
  <2>1. CASE k = m
    <3>1. At(k) = At(m)
      BY <2>1
    <3> HIDE DEF At
    <3>2. QED
      BY <1>2, <3>1
  <2>2. CASE At(k) < At(m)
    <3>1. PICK a, b : a = At(k) /\ b = At(m)
      OBVIOUS
    <3>2. a \in Nat /\ b \in Nat /\ a < b
      BY <1>2, <2>2, <3>1
    <3>3. a <= b
      BY <3>2
    <3>4. QED
      BY <3>1, <3>3
  <2>3. QED
    BY <1>4, <2>1, <2>2
<1>6. QED
  BY <1>1, <1>2, <1>5

LEMMA CoreNamesLead ==
  ASSUME TypeOK
  PROVE  /\ Len(core) \in Nat /\ RuleNames(core) = Leading(Len(core))
         /\ \A m \in 0 .. Len(core) : Leading(m) \subseteq RuleNames(core)
<1>1. core \in Seq(RuleType(1 .. fresh, {0}))
  BY DEF TypeOK
<1>2. Len(core) \in Nat /\ RuleNames(core) = Leading(Len(core))
  BY <1>1, NamesAre DEF Leading
<1>3. \A m \in 0 .. Len(core) : 1 .. m \subseteq 1 .. Len(core)
  BY <1>2
<1>4. \A m \in 0 .. Len(core) : Leading(m) \subseteq Leading(Len(core))
  BY <1>3 DEF Leading
<1>5. QED
  BY <1>2, <1>4

\* A pass that ends has added every rule that the grammar refers to.
LEMMA PassEnds ==
  ASSUME TypeInv, CoreInv, phase = "core", NothingWanted
  PROVE  \E m \in 0 .. Len(core) :
           FirstPass(m) /\ (m < Len(core) => m > 0 /\ At(m + 1) < At(m)) /\ Direct \subseteq Leading(m)
<1>1. ReachInv /\ OrderInv /\ CacheInv /\ Len(cache) = 16 /\ scanned \in 0 .. 16
      /\ \A i \in 1 .. 16 : IsCoreRule(cache[i], i)
  <2>1. ReachInv /\ OrderInv /\ CacheInv /\ Len(cache) = 16
    BY DEF CoreInv
  <2>2. cache # <<>>
    BY <2>1, EmptySeq
  <2>3. scanned \in 0 .. Len(cache)
    BY DEF TypeInv, TypeOK
  <2>4. QED
    BY <2>1, <2>2, <2>3 DEF CacheInv
<1>2. PICK m \in 0 .. Len(core) : FirstPass(m) /\ PassInv(m)
  BY <1>1 DEF OrderInv
<1>3. Direct \subseteq Leading(m)
  <2> SUFFICES ASSUME NEW d \in Direct, m = Len(core),
                      \A i \in 1 .. scanned : CoreRules[i].name \in Direct => CoreRules[i].name \in Leading(m)
               PROVE  d \in Leading(m)
    BY <1>2 DEF PassInv
  <2>1. PICK q \in 1 .. 16 : d = CoreRules[q].name
    BY TableNames DEF Direct
  <2>2. CASE q <= scanned
    <3>1. q \in 1 .. scanned
      BY <1>1, <2>2
    <3>2. QED
      BY <2>1, <3>1
  <2>3. CASE ~ (q <= scanned)
    <3>1. q \in scanned + 1 .. Len(cache) /\ cache[q].name = d
      <4>1. q \in 1 .. Len(cache) /\ IsCoreRule(cache[q], q)
        BY <1>1, <2>1
      <4>2. cache[q].name = d
        BY <2>1, <4>1 DEF IsCoreRule
      <4>3. q \in scanned + 1 .. Len(cache)
        BY <1>1, <2>3, <4>1
      <4>4. QED
        BY <4>2, <4>3
    <3>2. ~ (d \in needed \ defined)
      BY <3>1 DEF NothingWanted, Wanted
    <3>3. d \in RuleNames(core)
      BY <1>1, <3>2 DEF Direct, ReachInv
    <3>4. QED
      BY <3>3, CoreNamesLead DEF TypeInv
  <2>4. QED
    BY <2>2, <2>3
<1>4. QED
  BY <1>2, <1>3 DEF PassInv

LEMMA NextPassCore ==
  ASSUME TypeInv, TextInv, CoreInv, NextPass PROVE CoreInv'
<1>1. /\ phase = "core" /\ NothingWanted /\ scanned' = 0 /\ added' = FALSE
      /\ UNCHANGED <<phase, merged, defined, needed, core, cache, outcome>>
  BY DEF NextPass
<1>2. outcome = "none"
  BY <1>1 DEF TextInv, Going, StageInv
<1>3. CacheInv' /\ CoreTyped' /\ AddedOnce'
  BY <1>1 DEF CoreInv, CacheInv, CoreTyped, At, IsCoreRule, AddedOnce
<1>4. ReachInv'
  BY <1>1, <1>2 DEF CoreInv, ReachInv, Returned
<1>5. PICK m \in 0 .. Len(core) :
           FirstPass(m) /\ (m < Len(core) => m > 0 /\ At(m + 1) < At(m)) /\ Direct \subseteq Leading(m)
  BY <1>1, PassEnds
<1>6. Direct' = Direct /\ Leading(m)' = Leading(m) /\ \A k : At(k)' = At(k)
  BY <1>1 DEF Direct, Leading, At
<1>7. (FirstPass(m) /\ PassInv(m))'
  BY <1>1, <1>5, <1>6 DEF FirstPass, PassInv
<1>8. OrderInv'
  BY <1>1, <1>7 DEF OrderInv
<1>9. QED
  BY <1>1, <1>2, <1>3, <1>4, <1>8 DEF CoreInv

LEMMA ReturnCore ==
  ASSUME TypeInv, TextInv, CoreInv, Return PROVE CoreInv'
<1>1. /\ phase = "core" /\ NothingWanted /\ ~ added /\ phase' = "idle" /\ outcome' = "grammar"
      /\ UNCHANGED <<merged, defined, needed, core, cache, scanned, added>>
  BY DEF Return, work
<1>2. CacheInv' /\ CoreTyped' /\ AddedOnce'
  BY <1>1 DEF CoreInv, CacheInv, CoreTyped, At, IsCoreRule, AddedOnce
<1>3. \A i \in 1 .. 16 : CoreRules[i].name \in needed => CoreRules[i].name \in defined
  <2>1. Len(cache) = 16 /\ scanned = 0 /\ CacheInv
    BY <1>1 DEF CoreInv, ReachInv
  <2>2. \A i \in 1 .. 16 : cache[i].name = CoreRules[i].name
    <3>1. cache # <<>>
      BY <2>1, EmptySeq
    <3>2. QED
      BY <2>1, <3>1 DEF CacheInv, IsCoreRule
  <2>3. \A i \in 1 .. 16 : ~ Wanted(i)
    BY <1>1, <2>1 DEF NothingWanted
  <2>4. QED
    BY <2>2, <2>3 DEF Wanted
<1>4. ReachInv'
  BY <1>1, <1>3 DEF CoreInv, ReachInv, Returned
<1>5. PICK m \in 0 .. Len(core) :
           FirstPass(m) /\ (m < Len(core) => m > 0 /\ At(m + 1) < At(m)) /\ Direct \subseteq Leading(m)
  BY <1>1, PassEnds
<1>6. Direct' = Direct /\ Leading(m)' = Leading(m) /\ \A k : At(k)' = At(k)
  BY <1>1 DEF Direct, Leading, At
<1>7. (FirstPass(m) /\ PassInv(m))'
  BY <1>1, <1>5, <1>6 DEF FirstPass, PassInv
<1>8. OrderInv'
  BY <1>1, <1>7 DEF OrderInv
<1>9. QED
  BY <1>1, <1>2, <1>4, <1>8 DEF CoreInv

LEMMA IdleCore ==
  ASSUME CoreInv, CallerWrites \/ UNCHANGED vars PROVE CoreInv'
<1>1. UNCHANGED <<phase, merged, defined, needed, core, scanned, added, cache, outcome>>
  BY DEF CallerWrites, vars, work
<1>2. CacheInv' /\ CoreTyped'
  BY <1>1 DEF CoreInv, CacheInv, CoreTyped, At, IsCoreRule
<1>3. phase = "core" \/ Returned => AddedOnce' /\ ReachInv'
  BY <1>1 DEF CoreInv, AddedOnce, ReachInv, Returned
<1>4. phase = "core" \/ Returned => OrderInv'
  <2> SUFFICES ASSUME phase = "core" \/ Returned PROVE OrderInv'
    OBVIOUS
  <2>1. PICK m \in 0 .. Len(core) : FirstPass(m) /\ PassInv(m)
    BY DEF CoreInv, OrderInv
  <2>2. Direct' = Direct /\ Leading(m)' = Leading(m) /\ \A k : At(k)' = At(k)
    BY <1>1 DEF Direct, Leading, At
  <2>3. (FirstPass(m) /\ PassInv(m))'
    BY <1>1, <2>1, <2>2 DEF FirstPass, PassInv
  <2>4. QED
    BY <1>1, <2>3 DEF OrderInv
<1>5. QED
  BY <1>1, <1>2, <1>3, <1>4 DEF CoreInv, Returned

\* The next rule that is wanted, cloned.
LEMMA Adding ==
  ASSUME TypeInv, TextInv, CoreInv, AddCore
  PROVE  \E i \in 1 .. 16 :
           /\ scanned < i /\ CoreRules[i].name \in needed /\ CoreRules[i].name \notin defined
           /\ \A j \in scanned + 1 .. i - 1 : CoreRules[j].name \in needed => CoreRules[j].name \in defined
           /\ scanned' = i /\ added' = TRUE /\ phase = "core" /\ outcome = "none"
           /\ scanned \in 0 .. 16 /\ Len(cache) = 16
           /\ UNCHANGED <<phase, outcome, merged, cache>>
           /\ Len(core) \in Nat /\ Len(core') = Len(core) + 1
           /\ \A k \in 1 .. Len(core) : core'[k] = core[k]
           /\ IsCoreRule(core'[Len(core) + 1], i)
           /\ defined' = defined \union {CoreRules[i].name}
           /\ needed' = needed \union CoreRules[i].refs
           /\ RuleNames(core') = RuleNames(core) \union {CoreRules[i].name}
           /\ Refs(core') = Refs(core) \union CoreRules[i].refs
<1>1. PICK i \in 1 .. Len(cache) :
           /\ scanned < i /\ Wanted(i) /\ \A j \in scanned + 1 .. i - 1 : ~ Wanted(j)
           /\ cache[i] \in RuleType(1 .. fresh, {0}) /\ Len(cache[i].alts) \in Nat
           /\ scanned' = i /\ added' = TRUE
           /\ core' = Append(core, Clone(cache[i])) /\ fresh' = fresh + 1 + Len(cache[i].alts)
           /\ defined' = defined \union {cache[i].name}
           /\ needed' = needed \union Refs(<<cache[i]>>)
  BY AddCoreDoes
<1>2. phase = "core" /\ UNCHANGED <<phase, outcome, merged, cache>>
  BY DEF AddCore
<1>3. outcome = "none" /\ Len(cache) = 16 /\ CacheInv
  BY <1>2 DEF TextInv, Going, StageInv, CoreInv
<1>4. \A j \in 1 .. 16 : IsCoreRule(cache[j], j)
  <2>1. cache # <<>>
    BY <1>3, EmptySeq
  <2>2. QED
    BY <1>3, <2>1 DEF CacheInv
<1>5. i \in 1 .. 16 /\ scanned \in 0 .. 16
  BY <1>1, <1>3 DEF TypeInv, TypeOK
<1>6. \A j \in scanned + 1 .. i - 1 : j \in 1 .. 16
  BY <1>5
<1>7. /\ IsCoreRule(cache[i], i) /\ cache[i].alts \in Seq(LineType(1 .. fresh))
      /\ fresh \in Nat \ {0}
  BY <1>1, <1>4, <1>5, TypeFacts DEF TypeInv, RuleType
<1> DEFINE new == Clone(cache[i])
<1>8. /\ new.name = cache[i].name /\ new.sp = cache[i].sp /\ new.value = cache[i].value
      /\ new.core = cache[i].core /\ Len(new.alts) = Len(cache[i].alts)
      /\ \A k \in 1 .. Len(cache[i].alts) : new.alts[k] = [cache[i].alts[k] EXCEPT !.obj = fresh + k]
      /\ new \in RuleType(1 .. fresh + 1 + Len(cache[i].alts), {0})
  BY <1>1, <1>7, CloneIs
<1>9. new.alts[1].refs = cache[i].alts[1].refs
  <2>1. 1 \in 1 .. Len(cache[i].alts) /\ cache[i].alts[1] \in LineType(1 .. fresh)
    BY <1>7, ElementOfSeq DEF IsCoreRule
  <2>2. new.alts[1] = [cache[i].alts[1] EXCEPT !.obj = fresh + 1]
    BY <1>8, <2>1
  <2>3. QED
    BY <2>1, <2>2 DEF LineType
<1>10. new.alts \in Seq(LineType(1 .. fresh + 1 + Len(cache[i].alts)))
  BY <1>8 DEF RuleType
<1> HIDE DEF new
<1>11. IsCoreRule(new, i)
  BY <1>7, <1>8, <1>9 DEF IsCoreRule
<1>12. core \in Seq(RuleType(1 .. fresh, {0})) /\ core' = Append(core, new) /\ Len(core) \in Nat
  BY <1>1, LenProperties DEF new, TypeInv, TypeOK
<1>13. /\ Len(core') = Len(core) + 1 /\ core'[Len(core) + 1] = new
       /\ \A k \in 1 .. Len(core) : core'[k] = core[k]
  BY <1>12, AppendIs
<1>14. /\ RuleNames(core') = RuleNames(core) \union {CoreRules[i].name}
       /\ Refs(core') = Refs(core) \union CoreRules[i].refs
  <2>1. Len(new.alts) = 1 /\ new.name = CoreRules[i].name /\ new.alts[1].refs = CoreRules[i].refs
    BY <1>11 DEF IsCoreRule
  <2>2. /\ RuleNames(Append(core, new)) = RuleNames(core) \union {new.name}
        /\ Refs(Append(core, new)) = Refs(core) \union new.alts[1].refs
    BY <1>10, <1>12, <2>1, NamesOfAppend
  <2>3. QED
    BY <1>12, <2>1, <2>2
<1>15. Refs(<<cache[i]>>) = CoreRules[i].refs
  BY <1>7, RefsOfOne DEF IsCoreRule
<1>16. /\ CoreRules[i].name \in needed /\ CoreRules[i].name \notin defined
       /\ defined' = defined \union {CoreRules[i].name}
  BY <1>1, <1>7 DEF Wanted, IsCoreRule
<1>17. \A j \in scanned + 1 .. i - 1 : CoreRules[j].name \in needed => CoreRules[j].name \in defined
  BY <1>1, <1>4, <1>6 DEF Wanted, IsCoreRule
<1>18. QED
  BY <1>1, <1>2, <1>3, <1>5, <1>11, <1>12, <1>13, <1>14, <1>15, <1>16, <1>17

LEMMA AddCoreReaches ==
  ASSUME TypeInv, TextInv, CoreInv, AddCore PROVE ReachInv' /\ AddedOnce' /\ CoreTyped'
<1>1. PICK i \in 1 .. 16 :
           /\ scanned < i /\ CoreRules[i].name \in needed /\ CoreRules[i].name \notin defined
           /\ scanned' = i /\ added' = TRUE /\ phase = "core" /\ outcome = "none"
           /\ UNCHANGED <<phase, outcome, merged, cache>>
           /\ Len(core) \in Nat /\ Len(core') = Len(core) + 1
           /\ \A k \in 1 .. Len(core) : core'[k] = core[k]
           /\ IsCoreRule(core'[Len(core) + 1], i)
           /\ defined' = defined \union {CoreRules[i].name}
           /\ needed' = needed \union CoreRules[i].refs
           /\ RuleNames(core') = RuleNames(core) \union {CoreRules[i].name}
           /\ Refs(core') = Refs(core) \union CoreRules[i].refs
  BY Adding
<1>2. CoreTyped /\ AddedOnce /\ ReachInv /\ TypeOK
  BY <1>1 DEF CoreInv, TypeInv
<1>3. \A k \in 1 .. Len(core) + 1 : k \in 1 .. Len(core) \/ k = Len(core) + 1
  BY <1>1
<1>4. CoreTyped'
  <2> SUFFICES ASSUME NEW k \in 1 .. Len(core) + 1
               PROVE  CoreIndex(core'[k]) \in 1 .. 16 /\ IsCoreRule(core'[k], CoreIndex(core'[k]))
    BY <1>1 DEF CoreTyped, At
  <2>1. CASE k = Len(core) + 1
    <3>1. CoreIndex(core'[k]) = i
      BY <1>1, <2>1, CoreIndexIs DEF IsCoreRule
    <3>2. QED
      BY <1>1, <2>1, <3>1
  <2>2. CASE k \in 1 .. Len(core)
    BY <1>1, <1>2, <2>2 DEF CoreTyped, At
  <2>3. QED
    BY <1>3, <2>1, <2>2
<1>5. CoreRules[i].name \notin RuleNames(merged) /\ CoreRules[i].name \notin RuleNames(core)
  BY <1>1, <1>2 DEF ReachInv
<1>6. AddedOnce'
  <2>1. core'[Len(core) + 1].name = CoreRules[i].name
    BY <1>1 DEF IsCoreRule
  <2>2. \A k \in 1 .. Len(core) : core'[k].name \in RuleNames(core)
    <3>1. core \in Seq(RuleType(1 .. fresh, {0}))
      BY <1>2 DEF TypeOK
    <3>2. RuleNames(core) = {core[k].name : k \in 1 .. Len(core)}
      BY <3>1, NamesAre
    <3>3. QED
      BY <1>1, <3>2
  <2>3. \A k \in 1 .. Len(core') : core'[k].name \notin RuleNames(merged)
    BY <1>1, <1>2, <1>3, <1>5, <2>1 DEF AddedOnce
  <2>4. \A j, k \in 1 .. Len(core') : core'[j].name = core'[k].name => j = k
    <3> SUFFICES ASSUME NEW j \in 1 .. Len(core) + 1, NEW k \in 1 .. Len(core) + 1,
                        core'[j].name = core'[k].name
                 PROVE  j = k
      BY <1>1
    <3>1. CASE j \in 1 .. Len(core) /\ k \in 1 .. Len(core)
      BY <1>1, <1>2, <3>1 DEF AddedOnce
    <3>2. CASE j = Len(core) + 1 \/ k = Len(core) + 1
      BY <1>3, <1>5, <2>1, <2>2, <3>2
    <3>3. QED
      BY <1>3, <3>1, <3>2
  <2>5. QED
    BY <1>1, <2>3, <2>4 DEF AddedOnce
<1>7. \A T \in SUBSET RuleNames(CoreRules) : Closed(T, merged) => CoreRules[i].name \in T
  <2> SUFFICES ASSUME NEW T \in SUBSET RuleNames(CoreRules), Closed(T, merged)
               PROVE  CoreRules[i].name \in T
    OBVIOUS
  <2>1. RuleNames(core) \subseteq T
    BY <1>2 DEF ReachInv
  <2>2. \/ CoreRules[i].name \in Refs(merged)
        \/ \E j \in 1 .. 16 : CoreRules[j].name \in T /\ CoreRules[i].name \in CoreRules[j].refs
    <3>1. CASE CoreRules[i].name \in Refs(merged)
      BY <3>1
    <3>2. CASE CoreRules[i].name \in Refs(core)
      <4>1. PICK k \in 1 .. Len(core) : CoreRules[i].name \in CoreRules[At(k)].refs
        BY <1>2, <3>2, NeededBefore
      <4>2. At(k) \in 1 .. 16 /\ core[k].name = CoreRules[At(k)].name
        BY <1>2 DEF CoreTyped, IsCoreRule
      <4>3. core[k].name \in RuleNames(core)
        <5>1. core \in Seq(RuleType(1 .. fresh, {0}))
          BY <1>2 DEF TypeOK
        <5>2. RuleNames(core) = {core[q].name : q \in 1 .. Len(core)}
          BY <5>1, NamesAre
        <5>3. QED
          BY <5>2
      <4>4. QED
        BY <2>1, <4>1, <4>2, <4>3
    <3>3. QED
      BY <1>1, <1>2, <3>1, <3>2 DEF ReachInv
  <2>3. CoreRules[i].name \in T \/ CoreRules[i].name \in RuleNames(merged)
    BY <2>2, ClosedIs
  <2>4. QED
    BY <1>5, <2>3
<1>8. ReachInv'
  <2>1. /\ defined' = RuleNames(merged') \union RuleNames(core')
        /\ needed' = Refs(merged') \union Refs(core')
    BY <1>1, <1>2 DEF ReachInv
  <2>2. \A T \in SUBSET RuleNames(CoreRules) : Closed(T, merged) => RuleNames(core') \subseteq T
    BY <1>1, <1>2, <1>7 DEF ReachInv
  <2>3. QED
    BY <1>1, <2>1, <2>2 DEF ReachInv, Returned
<1>9. QED
  BY <1>4, <1>6, <1>8

\* The pass adds the direct rules in the table's order; the first that is
\* not one was needed by one of them, which the table declares after it.
LEMMA AddCoreOrders ==
  ASSUME TypeInv, TextInv, CoreInv, AddCore PROVE OrderInv'
<1>1. PICK i \in 1 .. 16 :
           /\ scanned < i /\ CoreRules[i].name \in needed /\ CoreRules[i].name \notin defined
           /\ \A j \in scanned + 1 .. i - 1 : CoreRules[j].name \in needed => CoreRules[j].name \in defined
           /\ scanned' = i /\ added' = TRUE /\ phase = "core"
           /\ scanned \in 0 .. 16
           /\ UNCHANGED <<phase, outcome, merged, cache>>
           /\ Len(core) \in Nat /\ Len(core') = Len(core) + 1
           /\ \A k \in 1 .. Len(core) : core'[k] = core[k]
           /\ IsCoreRule(core'[Len(core) + 1], i)
  BY Adding
<1>2. CoreTyped /\ ReachInv /\ OrderInv /\ TypeOK
  BY <1>1 DEF CoreInv, TypeInv
<1>3. PICK m \in 0 .. Len(core) : FirstPass(m) /\ PassInv(m)
  BY <1>2 DEF OrderInv
<1> PICK last, name : last = Len(core) + 1 /\ name = CoreRules[i].name
  OBVIOUS
<1>4. /\ \A k \in 1 .. Len(core) : At(k)' = At(k) /\ core'[k].name = core[k].name
      /\ At(last)' = i /\ core'[last].name = name
  <2>1. \A k \in 1 .. Len(core) : CoreIndex(core'[k]) = CoreIndex(core[k]) /\ core'[k].name = core[k].name
    BY <1>1
  <2>2. core'[last].name = name
    BY <1>1 DEF IsCoreRule
  <2>3. CoreIndex(core'[last]) = i
    BY <2>2, CoreIndexIs
  <2>4. QED
    BY <2>1, <2>2, <2>3 DEF At
<1>5. /\ name \in RuleNames(CoreRules) /\ name \notin RuleNames(merged) /\ name \notin Leading(m)
      /\ name \in Refs(merged) \union Refs(core)
  <2>1. name \in RuleNames(CoreRules)
    BY TableNames
  <2>2. name \notin RuleNames(merged) /\ name \notin RuleNames(core) /\ name \in Refs(merged) \union Refs(core)
    BY <1>1, <1>2 DEF ReachInv
  <2>3. name \notin Leading(m)
    BY <1>2, <2>2, CoreNamesLead
  <2>4. QED
    BY <2>1, <2>2, <2>3
<1>6. name \notin Direct /\ m = Len(core) => m > 0 /\ i < At(m)
  <2> SUFFICES ASSUME name \notin Direct, m = Len(core) PROVE m > 0 /\ i < At(m)
    OBVIOUS
  <2>1. name \in Refs(core)
    BY <1>5 DEF Direct
  <2>2. PICK k \in 1 .. Len(core) : i < At(k)
    BY <1>2, <2>1, NeededBefore
  <2>3. m > 0 /\ At(m) \in 1 .. 16 /\ At(k) \in 1 .. 16 /\ At(k) <= At(m)
    BY <1>1, <1>2, <1>3, LastLeads
  <2>4. PICK a, b : a = At(k) /\ b = At(m)
    OBVIOUS
  <2>5. a \in Nat /\ b \in Nat /\ i < a /\ a <= b
    <3>1. a \in 1 .. 16 /\ b \in 1 .. 16 /\ i < a /\ a <= b
      BY <2>2, <2>3, <2>4, Zenon
    <3>2. QED
      BY <3>1
  <2>6. i < b
    BY <2>5
  <2>7. QED
    BY <2>3, <2>4, <2>6
<1>7. Direct' = Direct
  BY <1>1 DEF Direct
<1>8. /\ Leading(m)' = Leading(m)
      /\ \A j, k \in 1 .. m : j < k => At(j)' < At(k)'
  BY <1>1, <1>3, <1>4 DEF Leading, FirstPass
<1>9. last \in 1 .. last /\ m \in 0 .. last /\ last \in Nat /\ Len(core) < last
  BY <1>1
<1>10. CASE Direct \subseteq Leading(m)
  <2>1. name \notin Direct
    BY <1>5, <1>10
  <2>2. m < last => m > 0 /\ At(m + 1)' < At(m)'
    <3>1. CASE m = Len(core)
      BY <1>4, <1>6, <2>1, <3>1
    <3>2. CASE m < Len(core)
      <4>1. m > 0 /\ At(m + 1) < At(m)
        BY <1>3, <3>2 DEF PassInv
      <4>2. m \in 1 .. Len(core) /\ m + 1 \in 1 .. Len(core)
        BY <1>1, <3>2, <4>1
      <4>3. QED
        BY <1>4, <4>1, <4>2
    <3>3. QED
      BY <1>1, <3>1, <3>2
  <2>3. (FirstPass(m) /\ PassInv(m))'
    BY <1>1, <1>3, <1>7, <1>8, <1>10, <2>2 DEF FirstPass, PassInv
  <2>4. QED
    BY <1>1, <1>9, <2>3 DEF OrderInv
<1>11. CASE ~ (Direct \subseteq Leading(m))
  <2>1. /\ m = Len(core) /\ (m > 0 => At(m) <= scanned)
        /\ \A q \in 1 .. scanned : CoreRules[q].name \in Direct => CoreRules[q].name \in Leading(m)
    BY <1>3, <1>11 DEF PassInv
  <2>2. \A k \in 1 .. m : At(k) < i
    <3> SUFFICES ASSUME NEW k \in 1 .. m PROVE At(k) < i
      OBVIOUS
    <3>1. m > 0 /\ At(m) \in 1 .. 16 /\ At(k) \in 1 .. 16 /\ At(k) <= At(m)
      BY <1>1, <1>2, <1>3, LastLeads
    <3>2. PICK a, b : a = At(k) /\ b = At(m)
      OBVIOUS
    <3>3. a \in Nat /\ b \in Nat /\ a <= b /\ b <= scanned /\ scanned < i /\ scanned \in Nat
      <4>1. a \in 1 .. 16 /\ b \in 1 .. 16 /\ a <= b
        BY <3>1, <3>2, Zenon
      <4>2. b <= scanned
        BY <2>1, <3>1, <3>2, Zenon
      <4>3. scanned < i /\ scanned \in Nat
        BY <1>1
      <4>4. QED
        BY <4>1, <4>2, <4>3
    <3>4. a < i
      BY <3>3
    <3>5. QED
      BY <3>2, <3>4
  <2>3. name \in Direct
    <3> SUFFICES ASSUME name \notin Direct PROVE FALSE
      OBVIOUS
    <3>1. m > 0 /\ i < At(m) /\ m \in 1 .. m
      BY <1>6, <2>1
    <3>2. At(m) < i /\ At(m) \in 1 .. 16
      BY <1>2, <2>1, <2>2, <3>1 DEF CoreTyped
    <3>3. PICK b : b = At(m)
      OBVIOUS
    <3>4. b \in 1 .. 16 /\ i < b /\ b < i
      BY <3>1, <3>2, <3>3, Zenon
    <3>5. i \in 1 .. 16
      BY <1>1
    <3>6. QED
      BY <3>4, <3>5
  <2>4. Leading(last)' = Leading(m) \union {name}
    <3>1. \A k \in 1 .. last : k \in 1 .. m \/ k = last
      BY <1>1, <2>1
    <3>2. 1 .. m \subseteq 1 .. last
      BY <1>1, <2>1
    <3>3. QED
      BY <1>4, <1>9, <2>1, <3>1, <3>2 DEF Leading
  <2>5. FirstPass(last)'
    <3>1. Leading(last)' \subseteq Direct'
      BY <1>3, <1>7, <2>3, <2>4 DEF FirstPass
    <3>2. \A j, k \in 1 .. last : j < k => At(j)' < At(k)'
      <4> SUFFICES ASSUME NEW j \in 1 .. last, NEW k \in 1 .. last, j < k PROVE At(j)' < At(k)'
        OBVIOUS
      <4>1. j \in 1 .. m
        BY <1>1, <2>1
      <4>2. CASE k = last
        BY <1>4, <2>1, <2>2, <4>1, <4>2
      <4>3. CASE k \in 1 .. m
        BY <1>8, <4>1, <4>3
      <4>4. QED
        BY <1>1, <2>1, <4>2, <4>3
    <3>3. QED
      BY <3>1, <3>2 DEF FirstPass
  <2>6. \A q \in 1 .. i : CoreRules[q].name \in Direct => CoreRules[q].name \in Leading(m) \union {name}
    <3> SUFFICES ASSUME NEW q \in 1 .. i, CoreRules[q].name \in Direct, q # i
                 PROVE  CoreRules[q].name \in Leading(m)
      OBVIOUS
    <3>1. CASE q <= scanned
      <4>1. q \in 1 .. scanned
        BY <1>1, <3>1
      <4>2. QED
        BY <2>1, <4>1
    <3>2. CASE ~ (q <= scanned)
      <4>1. q \in scanned + 1 .. i - 1
        BY <1>1, <3>2
      <4>2. CoreRules[q].name \in needed => CoreRules[q].name \in defined
        BY <1>1, <4>1
      <4>3. CoreRules[q].name \in RuleNames(core)
        BY <1>2, <4>2 DEF Direct, ReachInv
      <4>4. QED
        BY <1>2, <2>1, <4>3, CoreNamesLead
    <3>3. QED
      BY <3>1, <3>2
  <2>7. PassInv(last)'
    <3>1. i <= i /\ ~ (last < last)
      BY <1>9
    <3>2. \A q \in 1 .. scanned' : CoreRules[q].name \in Direct' => CoreRules[q].name \in Leading(last)'
      BY <1>1, <1>7, <2>4, <2>6
    <3>3. phase' = "core" /\ last = Len(core') /\ At(last)' <= scanned'
      BY <1>1, <1>4, <3>1
    <3>4. QED
      BY <3>1, <3>2, <3>3 DEF PassInv
  <2>8. QED
    BY <1>1, <1>9, <2>5, <2>7 DEF OrderInv
<1>12. QED
  BY <1>10, <1>11

LEMMA AddCoreCore ==
  ASSUME TypeInv, TextInv, CoreInv, AddCore PROVE CoreInv'
<1>1. phase = "core" /\ UNCHANGED <<phase, cache, outcome>>
  BY DEF AddCore
<1>2. CacheInv' /\ outcome = "none" /\ Len(cache) = 16
  BY <1>1 DEF CoreInv, CacheInv, IsCoreRule, TextInv, Going, StageInv
<1>3. QED
  BY <1>1, <1>2, AddCoreReaches, AddCoreOrders DEF CoreInv

LEMMA CoreNext == TypeInv /\ TextInv /\ CoreInv /\ [Next]_vars => CoreInv'
<1> SUFFICES ASSUME TypeInv, TextInv, CoreInv, [Next]_vars PROVE CoreInv'
  OBVIOUS
<1>1. CASE Call
  BY <1>1, CallCore
<1>2. CASE \/ ReadProduction \/ ReadComment \/ ParseError \/ ReadAll
           \/ AttachAnnotation \/ AllAttached \/ Merge
  BY <1>2, BeforeCore
<1>3. CASE Merged
  BY <1>3, MergedCore
<1>4. CASE RejectHoles
  BY <1>4, RejectHolesCore
<1>5. CASE AddCore
  BY <1>5, AddCoreCore
<1>6. CASE NextPass
  BY <1>6, NextPassCore
<1>7. CASE Return
  BY <1>7, ReturnCore
<1>8. CASE CallerWrites \/ UNCHANGED vars
  BY <1>8, IdleCore
<1>9. QED
  BY <1>1, <1>2, <1>3, <1>4, <1>5, <1>6, <1>7, <1>8 DEF Next, Proceed

-----------------------------------------------------------------------------
(* The grammar handed over: its own rules, and the rules added.            *)
LEMMA PartsOfConcat ==
  ASSUME NEW R, NEW s \in Seq(R), NEW t \in Seq(R)
  PROVE  /\ SubSeq(s \o t, 1, Len(s)) = s
         /\ SubSeq(s \o t, Len(s) + 1, Len(s) + Len(t)) = t
<1>1. Len(s) \in Nat /\ Len(t) \in Nat
  BY LenProperties
<1>2. SubSeq(s, 1, Len(s)) = s /\ SubSeq(t, 1, Len(t)) = t
  BY SubSeqFull
<1>3. SubSeq(s \o t, 1, Len(s)) = SubSeq(s, 1, Len(s))
  <2>1. CASE Len(s) = 0
    <3>1. SubSeq(s \o t, 1, 0) = <<>> /\ SubSeq(s, 1, 0) = <<>>
      BY SubSeqEmpty
    <3>2. QED
      BY <2>1, <3>1
  <2>2. CASE Len(s) # 0
    <3>1. 1 \in 1 .. Len(s) /\ Len(s) \in 1 .. Len(s)
      BY <1>1, <2>2
    <3>2. QED
      BY <3>1, SubSeqOfConcat1
  <2>3. QED
    BY <2>1, <2>2
<1>4. SubSeq(s \o t, Len(s) + 1, Len(s) + Len(t)) = SubSeq(t, 1, Len(t))
  <2>1. CASE Len(t) = 0
    <3>1. SubSeq(s \o t, Len(s) + 1, Len(s)) = <<>> /\ SubSeq(t, 1, 0) = <<>>
      BY <1>1, SubSeqEmpty
    <3>2. Len(s) + 0 = Len(s)
      BY <1>1
    <3>3. QED
      BY <2>1, <3>1, <3>2
  <2>2. CASE Len(t) # 0
    <3>1. /\ (Len(s) + 1) - Len(s) = 1 /\ (Len(s) + Len(t)) - Len(s) = Len(t)
          /\ Len(s) + 1 \in Len(s) + 1 .. Len(s) + Len(t)
          /\ Len(s) + Len(t) \in Len(s) + 1 .. Len(s) + Len(t)
      BY <1>1, <2>2
    <3>2. SubSeq(s \o t, Len(s) + 1, Len(s) + Len(t))
            = SubSeq(t, (Len(s) + 1) - Len(s), (Len(s) + Len(t)) - Len(s))
      BY <3>1, SubSeqOfConcat2, ZenonT(60)
    <3>3. QED
      BY <3>1, <3>2
  <2>3. QED
    BY <2>1, <2>2
<1>5. QED
  BY <1>2, <1>3, <1>4

LEMMA HandsOver ==
  ASSUME TypeInv, TextInv, CoreInv, Returned
  PROVE  /\ phase = "idle" /\ FoldInv /\ Processed = Positions /\ Moved = Annotations
         /\ Grammar = merged \o core /\ Own = merged /\ Added = core
         /\ Len(merged) \in Nat /\ Len(core) \in Nat
         /\ ToSet(merged) = {merged[k] : k \in 1 .. Len(merged)}
         /\ ToSet(core) = {core[k] : k \in 1 .. Len(core)}
         /\ ToSet(Grammar) = ToSet(merged) \union ToSet(core)
<1>1. phase = "idle" /\ FoldInv /\ Processed = Positions /\ Moved = Annotations
  <2>1. Going /\ StageInv
    BY DEF TextInv, Going
  <2>2. phase = "idle"
    BY <2>1 DEF StageInv, Returned
  <2>3. QED
    BY <2>1, <2>2, AllFolded
<1>2. Grammar = merged \o core
  BY DEF TextInv, HandedOver, Grammar
<1> DEFINE R == RuleType(1 .. fresh, 0 .. MaxItems)
           n == Len(merged)
<1>3. merged \in Seq(R) /\ core \in Seq(R)
  <2>1. fresh \in Nat /\ fresh <= fresh /\ DOMAIN text \subseteq 0 .. MaxItems /\ {0} \subseteq 0 .. MaxItems
    BY TypeFacts, ConverterAssumption DEF TypeInv, TypeOK
  <2>2. /\ Seq(RuleType(1 .. fresh, DOMAIN text)) \subseteq Seq(R)
        /\ Seq(RuleType(1 .. fresh, {0})) \subseteq Seq(R)
    BY <2>1, RulesStay
  <2>3. QED
    BY <2>2 DEF TypeInv, TypeOK
<1> HIDE DEF R
<1>4. /\ Len(merged) \in Nat /\ Len(core) \in Nat /\ DOMAIN merged = 1 .. Len(merged)
      /\ DOMAIN core = 1 .. Len(core)
  BY <1>3, LenProperties
<1>5. /\ Grammar \in Seq(R) /\ Len(Grammar) = Len(merged) + Len(core)
      /\ \A i \in 1 .. Len(merged) + Len(core) :
           Grammar[i] = IF i <= Len(merged) THEN merged[i] ELSE core[i - Len(merged)]
  <2>1. /\ merged \o core \in Seq(R) /\ Len(merged \o core) = Len(merged) + Len(core)
        /\ \A i \in 1 .. Len(merged) + Len(core) :
             (merged \o core)[i] = IF i <= Len(merged) THEN merged[i] ELSE core[i - Len(merged)]
    BY <1>3, ConcatProperties, Zenon
  <2>2. QED
    BY <1>2, <2>1
<1> HIDE DEF Grammar
<1>6. DOMAIN Grammar = 1 .. Len(merged) + Len(core)
  BY <1>5, LenProperties
<1>7. \A i \in 1 .. Len(merged) : Grammar[i] = merged[i] /\ i \in 1 .. Len(merged) + Len(core)
  BY <1>4, <1>5
<1>8. \A k \in 1 .. Len(core) : Grammar[Len(merged) + k] = core[k] /\ Len(merged) + k \in 1 .. Len(merged) + Len(core)
  <2> SUFFICES ASSUME NEW k \in 1 .. Len(core)
               PROVE  Grammar[n + k] = core[k] /\ n + k \in 1 .. n + Len(core)
    OBVIOUS
  <2>1. n \in Nat /\ Len(core) \in Nat
    BY <1>4
  <2>2. \A i \in 1 .. n + Len(core) : Grammar[i] = IF i <= n THEN merged[i] ELSE core[i - n]
    BY <1>5
  <2> HIDE DEF n
  <2>3. n + k \in 1 .. n + Len(core) /\ ~ (n + k <= n) /\ (n + k) - n = k
    BY <2>1
  <2>4. QED
    BY <2>2, <2>3
<1>9. \A i \in 1 .. Len(merged) + Len(core) : i \in 1 .. Len(merged) \/ \E k \in 1 .. Len(core) : i = Len(merged) + k
  <2> SUFFICES ASSUME NEW i \in 1 .. Len(merged) + Len(core), i \notin 1 .. Len(merged)
               PROVE  \E k \in 1 .. Len(core) : i = Len(merged) + k
    OBVIOUS
  <2>1. i - Len(merged) \in 1 .. Len(core) /\ i = Len(merged) + (i - Len(merged))
    BY <1>4
  <2>2. QED
    BY <2>1
<1>10. /\ \A k \in 1 .. Len(merged) : merged[k].core = FALSE
       /\ \A k \in 1 .. Len(core) : core[k].core = TRUE
  BY <1>1 DEF FoldInv, MergedInv, CoreInv, CoreTyped, IsCoreRule
<1>11. {i \in DOMAIN Grammar : ~ Grammar[i].core} = 1 .. Len(merged)
  <2>1. \A i \in 1 .. Len(merged) : i \in DOMAIN Grammar /\ ~ Grammar[i].core
    BY <1>6, <1>7, <1>10
  <2>2. ASSUME NEW i \in DOMAIN Grammar, ~ Grammar[i].core PROVE i \in 1 .. Len(merged)
    <3>1. i \in 1 .. Len(merged) + Len(core)
      BY <1>6
    <3>2. \A k \in 1 .. Len(core) : i # Len(merged) + k
      BY <1>8, <1>10, <2>2
    <3>3. QED
      BY <1>9, <3>1, <3>2
  <2>3. QED
    BY <2>1, <2>2
<1>12. OwnCount = Len(merged)
  <2>1. n \in Nat /\ n \in Int /\ 1 \in Int
    BY <1>4
  <2> HIDE DEF n
  <2>2. Cardinality(1 .. n) = IF 1 > n THEN 0 ELSE n - 1 + 1
    BY <2>1, FS_Interval, Zenon
  <2>3. Cardinality(1 .. n) = n
    BY <2>1, <2>2
  <2>4. QED
    BY <1>11, <2>3 DEF OwnCount, n
<1>13. Own = merged /\ Added = core
  <2>1. /\ SubSeq(merged \o core, 1, Len(merged)) = merged
        /\ SubSeq(merged \o core, Len(merged) + 1, Len(merged) + Len(core)) = core
    BY <1>3, PartsOfConcat
  <2>2. QED
    BY <1>2, <1>5, <1>12, <2>1 DEF Own, Added
<1>14. \A k \in 1 .. Len(core) : Len(merged) + k \in 1 .. Len(merged) + Len(core)
  BY <1>8
<1>15. /\ ToSet(merged) = {merged[k] : k \in 1 .. Len(merged)}
       /\ ToSet(core) = {core[k] : k \in 1 .. Len(core)}
       /\ ToSet(Grammar) = {Grammar[i] : i \in 1 .. Len(merged) + Len(core)}
  BY <1>4, <1>6 DEF ToSet
<1>16. ToSet(Grammar) = ToSet(merged) \union ToSet(core)
  <2>1. \A r \in ToSet(Grammar) : r \in ToSet(merged) \union ToSet(core)
    <3> SUFFICES ASSUME NEW i \in 1 .. Len(merged) + Len(core)
                 PROVE  Grammar[i] \in ToSet(merged) \union ToSet(core)
      BY <1>15
    <3>1. CASE i \in 1 .. Len(merged)
      BY <1>7, <1>15, <3>1
    <3>2. CASE \E k \in 1 .. Len(core) : i = Len(merged) + k
      BY <1>8, <1>15, <3>2
    <3>3. QED
      BY <1>9, <3>1, <3>2
  <2>2. \A r \in ToSet(merged) : r \in ToSet(Grammar)
    BY <1>7, <1>15
  <2>3. \A r \in ToSet(core) : r \in ToSet(Grammar)
    BY <1>8, <1>15
  <2>4. QED
    BY <2>1, <2>2, <2>3
<1>17. QED
  BY <1>1, <1>2, <1>4, <1>13, <1>14, <1>15, <1>16

\* A value annotation, wherever it stands in a text that is accepted, is on
\* the rule it follows, or on that rule's base; no rule has another.
LEMMA AnnotationsKept ==
  TypeInv /\ TextInv /\ CoreInv => AnnotationsStay
<1> SUFFICES ASSUME TypeInv, TextInv, CoreInv, Returned
             PROVE  /\ \A at \in Annotations : \E r \in ToSet(Own) :
                         r.sp = BaseOf(Followed(at)) /\ r.value = ValueOf(at)
                    /\ \A r \in ToSet(Grammar) : r.value # NoValue =>
                         \E at \in Annotations : r.sp = BaseOf(Followed(at))
  BY DEF AnnotationsStay, ValueOf
<1>1. /\ FoldInv /\ Processed = Positions /\ Moved = Annotations /\ Own = merged
      /\ ToSet(merged) = {merged[k] : k \in 1 .. Len(merged)}
      /\ ToSet(core) = {core[k] : k \in 1 .. Len(core)}
      /\ ToSet(Grammar) = ToSet(merged) \union ToSet(core)
  BY HandsOver
<1>2. ASSUME NEW at \in Annotations
      PROVE  \E r \in ToSet(merged) : r.sp = BaseOf(Followed(at)) /\ r.value = ValueOf(at)
  <2>1. BaseOf(Followed(at)) \in Plain \intersect Processed
    BY <1>1 DEF FoldInv, BaseInv, Moved
  <2>2. PICK k \in 1 .. Len(merged) : merged[k].sp = BaseOf(Followed(at))
    BY <1>1, <2>1 DEF FoldInv, MergedInv
  <2>3. merged[k].value = ValueOf(at)
    BY <1>1, <2>2 DEF FoldInv, ValueInv
  <2>4. QED
    BY <1>1, <2>2, <2>3
<1>3. ASSUME NEW r \in ToSet(Grammar), r.value # NoValue
      PROVE  \E at \in Annotations : r.sp = BaseOf(Followed(at))
  <2>1. \A k \in 1 .. Len(core) : core[k].value = NoValue
    BY DEF CoreInv, CoreTyped, IsCoreRule
  <2>2. PICK k \in 1 .. Len(merged) : r = merged[k]
    BY <1>1, <1>3, <2>1
  <2>3. QED
    BY <1>1, <1>3, <2>2 DEF FoldInv, ValueInv
<1>4. QED
  BY <1>1, <1>2, <1>3

\* The own rules of a grammar are the plain lines of its text, in order, and
\* the element lists of each are those of its lines, in order.
LEMMA AlternativesKept ==
  TypeInv /\ TextInv /\ CoreInv => AlternativesGathered
<1> SUFFICES ASSUME TypeInv, TextInv, CoreInv, Returned
             PROVE  /\ Len(Own) = Cardinality(Plain) /\ \A i \in Plain : Own[Place(i, Plain)].sp = i
                    /\ \A r \in ToSet(Own) :
                         /\ Len(r.alts) = Cardinality(LinesOf(r.sp))
                         /\ \A i \in LinesOf(r.sp) : r.alts[Place(i, LinesOf(r.sp))].refs = text[i].refs
  BY DEF AlternativesGathered
<1>1. /\ FoldInv /\ Processed = Positions /\ Own = merged
      /\ ToSet(merged) = {merged[k] : k \in 1 .. Len(merged)}
  BY HandsOver
<1>2. Plain \intersect Processed = Plain
  BY <1>1 DEF Plain
<1>3. Len(merged) = Cardinality(Plain)
  BY <1>1, <1>2 DEF FoldInv, MergedInv
<1>4. ASSUME NEW i \in Plain PROVE merged[Place(i, Plain)].sp = i
  <2>1. PICK k \in 1 .. Len(merged) : merged[k].sp = i
    BY <1>1, <1>2 DEF FoldInv, MergedInv
  <2>2. Place(i, Plain) = k
    BY <1>1, <2>1 DEF FoldInv, MergedInv
  <2>3. QED
    BY <2>1, <2>2
<1>5. ASSUME NEW k \in 1 .. Len(merged)
      PROVE  LET L == LinesOf(merged[k].sp) IN
             /\ Len(merged[k].alts) = Cardinality(L)
             /\ \A i \in L : merged[k].alts[Place(i, L)].refs = text[i].refs
  <2>1. Folding(merged[k].sp) = LinesOf(merged[k].sp)
    BY <1>1 DEF Folding, LinesOf
  <2>2. HasLines(merged[k].alts, merged[k].sp)
    BY <1>1 DEF FoldInv, LinesInv
  <2>3. QED
    BY <2>1, <2>2 DEF HasLines, IsLine
<1>6. QED
  BY <1>1, <1>3, <1>4, <1>5

\* The core rules added are those reached, each once, and no other.
LEMMA CoreReached ==
  TypeInv /\ TextInv /\ CoreInv => CoreRulesAreReached
<1> DEFINE S == RuleNames(Added)
<1> SUFFICES ASSUME TypeInv, TextInv, CoreInv, Returned
             PROVE  /\ Cardinality(S) = Len(Added) /\ S \intersect RuleNames(Own) = {}
                    /\ Closed(S, Own)
                    /\ \A T \in SUBSET S : Closed(T, Own) => T = S
                    /\ \A r \in ToSet(Added) : r.sp = 0
  BY DEF CoreRulesAreReached
<1>1. /\ Own = merged /\ Added = core /\ Len(core) \in Nat
      /\ ToSet(core) = {core[k] : k \in 1 .. Len(core)}
  BY HandsOver
<1>2. CoreTyped /\ AddedOnce /\ ReachInv /\ TypeOK
  BY DEF CoreInv, TypeInv
<1>3. S = {core[k].name : k \in 1 .. Len(core)}
  <2>1. core \in Seq(RuleType(1 .. fresh, {0}))
    BY <1>2 DEF TypeOK
  <2>2. QED
    BY <1>1, <2>1, NamesAre
<1> HIDE DEF S
<1>4. Cardinality(S) = Len(core)
  <2> DEFINE f == [k \in 1 .. Len(core) |-> core[k].name]
  <2>1. \A j, k \in 1 .. Len(core) : f[j] = f[k] => j = k
    BY <1>2 DEF AddedOnce
  <2>2. f \in Bijection(1 .. Len(core), S)
    <3>1. f \in [1 .. Len(core) -> S]
      BY <1>3
    <3>2. \A n \in S : \E k \in 1 .. Len(core) : f[k] = n
      BY <1>3
    <3> HIDE DEF f
    <3>3. QED
      BY <2>1, <3>1, <3>2, Fun_IsBij
  <2>3. ExistsBijection(1 .. Len(core), S)
    BY <2>2 DEF ExistsBijection
  <2>4. QED
    BY <1>1, <2>3, FS_CountingElements
<1>5. S \intersect RuleNames(merged) = {}
  BY <1>2, <1>3 DEF AddedOnce
<1>6. S = RuleNames(core)
  BY <1>1 DEF S
<1>7. Closed(S, merged)
  <2> SUFFICES ASSUME NEW i \in 1 .. 16,
                      \/ CoreRules[i].name \in Refs(merged)
                      \/ \E j \in 1 .. 16 : CoreRules[j].name \in S /\ CoreRules[i].name \in CoreRules[j].refs
               PROVE  CoreRules[i].name \in S \/ CoreRules[i].name \in RuleNames(merged)
    BY ClosedIs
  <2>1. CoreRules[i].name \in needed
    <3>1. CASE CoreRules[i].name \in Refs(merged)
      BY <1>2, <3>1 DEF ReachInv
    <3>2. CASE \E j \in 1 .. 16 : CoreRules[j].name \in S /\ CoreRules[i].name \in CoreRules[j].refs
      <4>1. PICK j \in 1 .. 16 : CoreRules[j].name \in S /\ CoreRules[i].name \in CoreRules[j].refs
        BY <3>2
      <4>2. PICK k \in 1 .. Len(core) : core[k].name = CoreRules[j].name
        BY <1>3, <4>1
      <4>3. At(k) = j
        BY <4>2, CoreIndexIs DEF At
      <4>4. CoreRules[i].name \in Refs(core)
        BY <1>2, <4>1, <4>3, CoreRefsAre
      <4>5. QED
        BY <1>2, <4>4 DEF ReachInv
    <3>3. QED
      BY <3>1, <3>2
  <2>2. CoreRules[i].name \in defined
    BY <1>2, <2>1 DEF ReachInv
  <2>3. QED
    BY <1>2, <1>6, <2>2 DEF ReachInv
<1>8. S \subseteq RuleNames(CoreRules)
  <2>1. \A k \in 1 .. Len(core) : At(k) \in 1 .. 16 /\ core[k].name = CoreRules[At(k)].name
    BY <1>2 DEF CoreTyped, IsCoreRule
  <2>2. QED
    BY <1>3, <2>1, TableNames
<1>9. \A T \in SUBSET S : Closed(T, merged) => T = S
  BY <1>2, <1>6, <1>8 DEF ReachInv
<1>10. \A r \in ToSet(core) : r.sp = 0
  BY <1>1, <1>2 DEF CoreTyped, IsCoreRule
<1>11. QED
  BY <1>1, <1>4, <1>5, <1>7, <1>9, <1>10

\* The rules before the first that falls are those the grammar's own rules
\* refer to.
LEMMA OrderTells ==
  TypeInv /\ TextInv /\ CoreInv => OrderTellsDirectCore
<1> SUFFICES ASSUME TypeInv, TextInv, CoreInv, Returned
             PROVE  DirectCore(core) = Direct
  BY HandsOver DEF OrderTellsDirectCore, Direct
<1>1. CoreTyped /\ OrderInv /\ TypeOK /\ Len(core) \in Nat /\ DOMAIN core = 1 .. Len(core) /\ phase # "core"
  <2>1. phase = "idle" /\ Len(core) \in Nat
    BY HandsOver
  <2>2. core \in Seq(RuleType(1 .. fresh, {0}))
    BY DEF TypeInv, TypeOK
  <2>3. QED
    BY <2>1, <2>2, LenProperties DEF CoreInv, TypeInv
<1>2. PICK m \in 0 .. Len(core) : FirstPass(m) /\ PassInv(m)
  BY <1>1 DEF OrderInv
<1>3. Direct = Leading(m) /\ (m < Len(core) => m > 0 /\ At(m + 1) < At(m))
  BY <1>1, <1>2 DEF PassInv, FirstPass
<1>4. /\ \A f \in Falls(core) : f \in 1 .. Len(core) /\ f > 1 /\ At(f) < At(f - 1)
      /\ \A f \in 1 .. Len(core) : f > 1 /\ At(f) < At(f - 1) => f \in Falls(core)
  BY <1>1 DEF Falls, At
<1>5. \A f \in Falls(core) : m < f
  <2> SUFFICES ASSUME NEW f \in Falls(core), ~ (m < f) PROVE FALSE
    OBVIOUS
  <2>1. f \in 1 .. m /\ f - 1 \in 1 .. m /\ f - 1 < f /\ f \in 1 .. Len(core) /\ f - 1 \in 1 .. Len(core)
    BY <1>1, <1>4
  <2>2. At(f - 1) < At(f) /\ At(f) < At(f - 1)
    BY <1>2, <1>4, <2>1 DEF FirstPass
  <2>3. PICK a, b : a = At(f - 1) /\ b = At(f)
    OBVIOUS
  <2>4. a \in 1 .. 16 /\ b \in 1 .. 16 /\ a < b /\ b < a
    BY <1>1, <2>1, <2>2, <2>3 DEF CoreTyped
  <2>5. QED
    BY <2>4
<1>6. ASSUME NEW j \in 1 .. Len(core), m < j
      PROVE  \E f \in Falls(core) : ~ (j < f)
  <2>1. m < Len(core) /\ m + 1 \in 1 .. Len(core) /\ m + 1 > 1 /\ (m + 1) - 1 = m /\ ~ (j < m + 1)
    <3>1. m < Len(core)
      BY <1>1, <1>6
    <3>2. m > 0
      BY <1>3, <3>1
    <3>3. QED
      BY <1>1, <1>6, <3>1, <3>2
  <2>2. At(m + 1) < At((m + 1) - 1)
    BY <1>3, <2>1
  <2>3. m + 1 \in Falls(core)
    BY <1>4, <2>1, <2>2
  <2>4. QED
    BY <2>1, <2>3
<1>7. {j \in 1 .. Len(core) : \A f \in Falls(core) : j < f} = 1 .. m
  <2>1. ASSUME NEW j \in 1 .. m, NEW f \in Falls(core) PROVE j \in 1 .. Len(core) /\ j < f
    <3>1. m < f /\ f \in Nat
      BY <1>1, <1>4, <1>5
    <3>2. QED
      BY <1>1, <3>1
  <2>2. \A j \in 1 .. m : j \in 1 .. Len(core)
    BY <1>1
  <2>3. \A j \in 1 .. Len(core) : j \notin 1 .. m => m < j
    BY <1>1
  <2>4. QED
    BY <1>6, <2>1, <2>2, <2>3
<1>8. QED
  BY <1>1, <1>3, <1>7 DEF DirectCore, Leading

-----------------------------------------------------------------------------
(* The theorems.                                                           *)
ConverterInv == TypeInv /\ TextInv /\ CoreInv

LEMMA ConverterInvariant == Spec => []ConverterInv
<1>1. Init => ConverterInv
  BY TypeInit, AnswersInit, CoreInit DEF ConverterInv
<1>2. ConverterInv /\ [Next]_vars => ConverterInv'
  BY TypeNext, AnswersNext, CoreNext DEF ConverterInv
<1>3. QED
  BY <1>1, <1>2, PTL DEF Spec

\* In every grammar returned, for any text: each value annotation is on the
\* rule it follows in the source, moved to its base from a `=/` line, and
\* there is none that nobody wrote (attachValueAnnotations, then
\* mergeIncrementals, converter.ts).
THEOREM AnnotationsAreKept == Spec => []AnnotationsStay
<1>1. ConverterInv => AnnotationsStay
  BY AnnotationsKept DEF ConverterInv
<1>2. QED
  BY <1>1, ConverterInvariant, PTL

\* In every grammar returned, for any text: the grammar's own rules are the
\* plain lines in order, and each has its `=/` lines' element lists after
\* its own, in order (mergeIncrementals).
THEOREM AlternativesAreGathered == Spec => []AlternativesGathered
<1>1. ConverterInv => AlternativesGathered
  BY AlternativesKept DEF ConverterInv
<1>2. QED
  BY <1>1, ConverterInvariant, PTL

\* In every grammar returned, for any text: the core rules added are the
\* least set that closes the references without redefining a rule
\* (withCoreRules).
THEOREM CoreIsReached == Spec => []CoreRulesAreReached
<1>1. ConverterInv => CoreRulesAreReached
  BY CoreReached DEF ConverterInv
<1>2. QED
  BY <1>1, ConverterInvariant, PTL

\* In every grammar returned, for any text: the core rules up to the first
\* that the table declares before its predecessor are those that the
\* grammar's own rules refer to, as the render assumes.
THEOREM OrderIsTelling == Spec => []OrderTellsDirectCore
<1>1. ConverterInv => OrderTellsDirectCore
  BY OrderTells DEF ConverterInv
<1>2. QED
  BY <1>1, ConverterInvariant, PTL
=============================================================================
