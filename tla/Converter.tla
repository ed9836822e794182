----------------------------- MODULE Converter -----------------------------
(***************************************************************************)
(* parseAbnf (ts/src/converter.ts): what happens to the productions the    *)
(* meta-parser read, up to the grammar the caller gets.  Value annotations *)
(* written in comments are attached to the productions they follow,        *)
(* `name =/ alt` productions are folded into their base, malformed         *)
(* elements are refused, and the RFC 5234 core rules the grammar refers    *)
(* to are added from a table cached in the process.                        *)
(*                                                                         *)
(* A text is the sequence of its productions and comments, in source       *)
(* order; a position in it stands for a source offset.  A production is    *)
(* written with one list of elements, of which the model keeps the rule    *)
(* names referred to and whether a hole is among them (MetaParser tells    *)
(* how a hole comes about).  Every production and every element list is an *)
(* object with an identity, since callers keep and write on what parseAbnf *)
(* returns.                                                                *)
(***************************************************************************)
EXTENDS Naturals, FiniteSets, SequencesExt

CONSTANTS
  Words,         (* the words of the texts: rule names and members        *)
  Productions,   (* the productions a text may have: Written records    *)
  Comments,      (* the comments a text may have: Comment records       *)
  Names,         (* the rule names the productions define               *)
  MemberNames,   (* the words that are rule names, for @object members  *)
  MaxItems,      (* bound: productions and comments of one text         *)
  MaxCalls,      (* bound: calls of parseAbnf in the process            *)
  MaxWrites      (* bound: writes of the callers on what was returned   *)

Written == [tag: {"production"}, name: Names, incremental: BOOLEAN,
            refs: SUBSET Words, hole: BOOLEAN]
Comment == [tag: {"comment"}, kind: {"object", "array", "other"}, members: Seq(Words)]

ASSUME ConverterAssumption ==
  /\ Productions \subseteq Written /\ Comments \subseteq Comment
  /\ MaxItems \in Nat /\ MaxCalls \in Nat /\ MaxWrites \in Nat

VARIABLES
  phase,      (* "idle" or the stage of the running call                    *)
  text,       (* the productions and comments read so far                   *)
  prods,      (* the productions, annotated so far, and not yet folded      *)
  comment,    (* the position the scan for annotations has reached          *)
  idx,        (* how many productions begin before the comments scanned     *)
  merged,     (* the productions left after folding                         *)
  byName,     (* name -> where in merged its latest base is, 0 if nowhere   *)
  defined,    (* the rule names the grammar defines                         *)
  needed,     (* the rule names it refers to                                *)
  core,       (* the core rules added                                       *)
  scanned,    (* the core rules this pass has been over                     *)
  added,      (* whether this pass added one                                *)
  cache,      (* the process's core rules; <<>> until they are first needed *)
  fresh,      (* the next object                                            *)
  calls,      (* how many calls there were                                  *)
  outcome,    (* what the last call came to                                 *)
  grammars,   (* the grammars returned so far                               *)
  marked      (* the objects the callers have written on                    *)

vars == <<phase, text, prods, comment, idx, merged, byName, defined, needed, core,
          scanned, added, cache, fresh, calls, outcome, grammars, marked>>
work == <<prods, comment, idx, merged, byName, defined, needed, core, scanned, added>>

(* The core rules in the order CORE_RULES_ABNF declares them. *)
CoreRules == <<
  [name |-> "ALPHA",  refs |-> {}],        [name |-> "BIT",    refs |-> {}],
  [name |-> "CHAR",   refs |-> {}],        [name |-> "CR",     refs |-> {}],
  [name |-> "LF",     refs |-> {}],        [name |-> "CRLF",   refs |-> {"CR", "LF"}],
  [name |-> "CTL",    refs |-> {}],        [name |-> "DIGIT",  refs |-> {}],
  [name |-> "DQUOTE", refs |-> {}],        [name |-> "HEXDIG", refs |-> {"DIGIT"}],
  [name |-> "HTAB",   refs |-> {}],        [name |-> "OCTET",  refs |-> {}],
  [name |-> "SP",     refs |-> {}],        [name |-> "VCHAR",  refs |-> {}],
  [name |-> "WSP",    refs |-> {"SP", "HTAB"}],
  [name |-> "LWSP",   refs |-> {"WSP", "CRLF"}] >>

NoValue == [kind |-> "none", members |-> <<>>]

(* A production: where its name stands (0: nowhere), its element lists,    *)
(* the value annotation it carries and whether it is one of the core rules.*)
Rule(obj, name, alts, sp, value, isCore) ==
  [obj |-> obj, name |-> name, alts |-> alts, sp |-> sp, value |-> value, core |-> isCore]
Refs(rules) == UNION {a.refs : a \in UNION {ToSet(r.alts) : r \in ToSet(rules)}}
RuleNames(rules) == {r.name : r \in ToSet(rules)}
Holed_FirstLine(rules) == \E r \in ToSet(rules) : Head(r.alts).hole  (* slip: the first line only *)
Holed(rules) == \E r \in ToSet(rules) : \E a \in ToSet(r.alts) : a.hole
Objects(rules) == {r.obj : r \in ToSet(rules)}
                    \union {a.obj : a \in UNION {ToSet(r.alts) : r \in ToSet(rules)}}

Init ==
  /\ phase = "idle" /\ text = <<>> /\ prods = <<>> /\ comment = 1 /\ idx = 0
  /\ merged = <<>> /\ byName = [n \in Names |-> 0]
  /\ defined = {} /\ needed = {} /\ core = <<>> /\ scanned = 0 /\ added = FALSE
  /\ cache = <<>> /\ fresh = 1 /\ calls = 0 /\ outcome = "none" /\ grammars = <<>> /\ marked = {}

(* A call begins, with nothing kept of the call before it but the cache. *)
Call ==
  /\ phase = "idle" /\ calls < MaxCalls
  /\ phase' = "read" /\ text' = <<>> /\ prods' = <<>> /\ comment' = 1 /\ idx' = 0
  /\ merged' = <<>> /\ byName' = [n \in Names |-> 0]
  /\ defined' = {} /\ needed' = {} /\ core' = <<>> /\ scanned' = 0 /\ added' = FALSE
  /\ outcome' = "none" /\ calls' = calls + 1
  /\ UNCHANGED <<cache, fresh, grammars, marked>>

Refuse(reason) ==
  /\ phase' = "idle" /\ outcome' = reason
  /\ UNCHANGED <<grammars, calls, marked>>

(* The meta-parser pushes a production, with the span of its name. *)
ReadProduction ==
  /\ phase = "read" /\ Len(text) < MaxItems
  /\ \E p \in Productions :
       /\ text' = Append(text, p)
       /\ prods' = Append(prods,
            Rule(fresh, p.name, <<[obj |-> fresh + 1, refs |-> p.refs, hole |-> p.hole]>>,
                 Len(text) + 1, NoValue, FALSE))
  /\ fresh' = fresh + 2
  /\ UNCHANGED <<phase, comment, idx, merged, byName, defined, needed, core, scanned,
                 added, cache, outcome, grammars, calls, marked>>

(* The lexer passes over a comment. *)
ReadComment ==
  /\ phase = "read" /\ Len(text) < MaxItems
  /\ \E c \in Comments : text' = Append(text, c)
  /\ UNCHANGED <<phase, work, cache, fresh, outcome, grammars, calls, marked>>

(* The meta-parser refuses the text somewhere. *)
ParseError ==
  /\ phase = "read"
  /\ Refuse("parse error")
  /\ UNCHANGED <<text, work, cache, fresh>>

ReadAll ==
  /\ phase = "read"
  /\ IF prods = <<>> THEN Refuse("no productions")
     ELSE phase' = "annotate" /\ UNCHANGED <<outcome, grammars, calls, marked>>
  /\ UNCHANGED <<text, work, cache, fresh>>

(* ----------------------- attachValueAnnotations ----------------------- *)
Claims(item) == item.tag = "comment" /\ item.kind # "other"

(* Slips, for the mutation runs, come before the definition they replace. *)
(* Here: the members of @array are not looked at.                         *)
WellFormed_AnyArray(c) ==
  c.kind = "array" \/ (ToSet(c.members) \subseteq MemberNames /\ IsInjective(c.members))

(* @array takes no members; those of @object are rule names, each once.    *)
WellFormed(c) ==
  IF c.kind = "array" THEN c.members = <<>>
  ELSE ToSet(c.members) \subseteq MemberNames /\ IsInjective(c.members)

(* The productions are in source order, as the code sorts them.  idx moves   *)
(* those that begin before the comment, and never back.                 *)
Forward(at) == CHOOSE i \in idx .. Len(prods) :
  /\ \A j \in idx + 1 .. i : prods[j].sp < at
  /\ i < Len(prods) => prods[i + 1].sp >= at

AttachAnnotation ==
  /\ phase = "annotate" /\ comment <= Len(text)
  /\ comment' = comment + 1
  /\ IF ~ Claims(text[comment])
     THEN UNCHANGED <<phase, prods, idx, outcome, grammars, calls, marked>>
     ELSE LET c == text[comment]
              owner == Forward(comment)
          IN /\ idx' = owner
             /\ IF owner = 0 \/ ~ WellFormed(c) \/ prods[owner].value # NoValue
                THEN Refuse("annotation") /\ UNCHANGED prods
                ELSE /\ prods' = [prods EXCEPT ![owner].value =
                                    [kind |-> c.kind, members |-> c.members]]
                     /\ UNCHANGED <<phase, outcome, grammars, calls, marked>>
  /\ UNCHANGED <<text, merged, byName, defined, needed, core, scanned, added, cache, fresh>>

AllAttached ==
  /\ phase = "annotate" /\ comment > Len(text)
  /\ phase' = "merge"
  /\ UNCHANGED <<text, work, cache, fresh, outcome, grammars, calls, marked>>

(* -------------------------- mergeIncrementals -------------------------- *)
IsIncremental(p) == text[p.sp].incremental

(* Slip: the first base of a name keeps getting its `=/` lines. *)
Keep_FirstBase(p) ==
  /\ merged' = Append(merged, Rule(fresh, p.name, p.alts, p.sp, p.value, p.core))
  /\ byName' = [byName EXCEPT ![p.name] = IF @ = 0 THEN Len(merged) + 1 ELSE @]
  /\ fresh' = fresh + 1
  /\ UNCHANGED <<phase, outcome, grammars, calls, marked>>

(* Slip: the rebuilt production leaves its annotation behind. *)
Keep_NoValue(p) ==
  /\ merged' = Append(merged, Rule(fresh, p.name, p.alts, p.sp, NoValue, p.core))
  /\ byName' = [byName EXCEPT ![p.name] = Len(merged) + 1]
  /\ fresh' = fresh + 1
  /\ UNCHANGED <<phase, outcome, grammars, calls, marked>>

(* Keep a plain production, rebuilt field by field; the element lists and   *)
(* the annotation go with it.                                               *)
Keep(p) ==
  /\ merged' = Append(merged, Rule(fresh, p.name, p.alts, p.sp, p.value, p.core))
  /\ byName' = [byName EXCEPT ![p.name] = Len(merged) + 1]
  /\ fresh' = fresh + 1
  /\ UNCHANGED <<phase, outcome, grammars, calls, marked>>

(* Slip: the later annotation replaces the earlier. *)
Fold_Replaces(p) ==
  LET base == byName[p.name] IN
  /\ IF base = 0 THEN Refuse("merge") /\ UNCHANGED merged
     ELSE /\ merged' = [merged EXCEPT
               ![base].alts = @ \o p.alts,
               ![base].value = IF p.value # NoValue THEN p.value ELSE @]
          /\ UNCHANGED <<phase, outcome, grammars, calls, marked>>
  /\ UNCHANGED <<byName, fresh>>

(* Fold a `=/` production into its base: its element lists and its          *)
(* annotation, which the base may not have as well.                         *)
Fold(p) ==
  LET base == byName[p.name] IN
  /\ IF base = 0 \/ (p.value # NoValue /\ merged[base].value # NoValue)
     THEN Refuse("merge") /\ UNCHANGED merged
     ELSE /\ merged' = [merged EXCEPT
               ![base].alts = @ \o p.alts,
               ![base].value = IF p.value # NoValue THEN p.value ELSE @]
          /\ UNCHANGED <<phase, outcome, grammars, calls, marked>>
  /\ UNCHANGED <<byName, fresh>>

Merge ==
  /\ phase = "merge" /\ prods # <<>>
  /\ prods' = Tail(prods)
  /\ IF IsIncremental(Head(prods)) THEN Fold(Head(prods)) ELSE Keep(Head(prods))
  /\ UNCHANGED <<text, comment, idx, defined, needed, core, scanned, added, cache>>

(* ---------------------------- withCoreRules ---------------------------- *)
(* getCoreRules: the table, parsed on first use, without spans. *)
Parsed == [i \in DOMAIN CoreRules |->
  Rule(fresh + 2 * i - 2, CoreRules[i].name,
       <<[obj |-> fresh + 2 * i - 1, refs |-> CoreRules[i].refs, hole |-> FALSE]>>,
       0, NoValue, TRUE)]

Merged ==
  /\ phase = "merge" /\ prods = <<>>
  /\ IF cache = <<>> THEN cache' = Parsed /\ fresh' = fresh + 2 * Len(CoreRules)
     ELSE UNCHANGED <<cache, fresh>>
  /\ phase' = "holes"
  /\ UNCHANGED <<text, work, outcome, grammars, calls, marked>>

(* rejectHoles, and the first scan of the references. *)
RejectHoles ==
  /\ phase = "holes"
  /\ IF Holed(merged) THEN Refuse("hole") /\ UNCHANGED <<defined, needed>>
     ELSE /\ phase' = "core" /\ defined' = RuleNames(merged) /\ needed' = Refs(merged)
          /\ UNCHANGED <<outcome, grammars, calls, marked>>
  /\ UNCHANGED <<text, prods, comment, idx, merged, byName, core, scanned, added, cache, fresh>>

Wanted(i) == cache[i].name \in needed \ defined

(* Slip: a shallow copy. *)
Clone_Shallow(r) == [r EXCEPT !.obj = fresh]

(* cloneProduction: the production and its element lists, as new objects. *)
Clone(r) == [r EXCEPT !.obj = fresh, !.alts = [i \in DOMAIN @ |-> [@[i] EXCEPT !.obj = fresh + i]]]

(* Slip: the references of an added rule are not scanned. *)
AddCore_NoScan ==
  /\ phase = "core"
  /\ \E i \in scanned + 1 .. Len(cache) :
       /\ Wanted(i) /\ \A j \in scanned + 1 .. i - 1 : ~ Wanted(j)
       /\ scanned' = i
       /\ core' = Append(core, Clone(cache[i]))
       /\ defined' = defined \union {cache[i].name}
       /\ fresh' = fresh + 1 + Len(cache[i].alts)
  /\ added' = TRUE
  /\ UNCHANGED <<phase, text, prods, comment, idx, merged, byName, needed, cache, outcome,
                 grammars, calls, marked>>

(* The pass over the table comes to the next rule that is wanted. *)
AddCore ==
  /\ phase = "core"
  /\ \E i \in scanned + 1 .. Len(cache) :
       /\ Wanted(i) /\ \A j \in scanned + 1 .. i - 1 : ~ Wanted(j)
       /\ scanned' = i
       /\ core' = Append(core, Clone(cache[i]))
       /\ defined' = defined \union {cache[i].name}
       /\ needed' = needed \union Refs(<<cache[i]>>)
       /\ fresh' = fresh + 1 + Len(cache[i].alts)
  /\ added' = TRUE
  /\ UNCHANGED <<phase, text, prods, comment, idx, merged, byName, cache, outcome, grammars, calls, marked>>

NothingWanted == \A i \in scanned + 1 .. Len(cache) : ~ Wanted(i)

(* Slip: the flag stays up. *)
NextPass_KeepsFlag ==
  /\ phase = "core" /\ added /\ NothingWanted
  /\ scanned' = 0
  /\ UNCHANGED <<phase, text, prods, comment, idx, merged, byName, defined, needed, core, added,
                 cache, fresh, outcome, grammars, calls, marked>>

(* The pass ends, and another begins if it added a rule. *)
NextPass ==
  /\ phase = "core" /\ added /\ NothingWanted
  /\ scanned' = 0 /\ added' = FALSE
  /\ UNCHANGED <<phase, text, prods, comment, idx, merged, byName, defined, needed, core,
                 cache, fresh, outcome, grammars, calls, marked>>

Return ==
  /\ phase = "core" /\ ~ added /\ NothingWanted
  /\ phase' = "idle" /\ outcome' = "grammar"
  /\ grammars' = Append(grammars, merged \o core)
  /\ UNCHANGED <<text, work, cache, fresh, calls, marked>>

(* A caller writes on an object of a grammar it was given. *)
CallerWrites ==
  /\ phase = "idle" /\ Cardinality(marked) < MaxWrites
  /\ \E i \in DOMAIN grammars : \E o \in Objects(grammars[i]) \ marked :
       marked' = marked \union {o}
  /\ UNCHANGED <<phase, text, work, cache, fresh, calls, outcome, grammars>>

Proceed ==
  \/ ReadProduction \/ ReadComment \/ ParseError \/ ReadAll
  \/ AttachAnnotation \/ AllAttached \/ Merge \/ Merged \/ RejectHoles
  \/ AddCore \/ NextPass \/ Return

Next == Proceed \/ Call \/ CallerWrites

Spec == Init /\ [][Next]_vars

(* The converter runs to its end once it is called: JavaScript does not     *)
(* preempt it, and the text is finite.                                      *)
FairSpec == Spec /\ WF_vars(Proceed)
=============================================================================
