------------------------- MODULE CommentScanProofs --------------------------
(***************************************************************************)
(* Proofs about CommentScan: the scan for annotations and the lexer agree  *)
(* on every text the lexer takes, of any signs and any length.             *)
(***************************************************************************)
EXTENDS CommentScan, SequenceTheorems, TLAPS

Readers == [skip : {"", "\"", ">"}, comment : Nat, body : BOOLEAN, claims : BOOLEAN,
            found : Seq(Nat), refused : BOOLEAN]

\* As long as the lexer has not refused the text the two are in one state; at
\* its end they have found the same.
InStep ==
  /\ source \in Seq(Signs) /\ scan \in Readers /\ lexer \in Readers
  /\ ~ ended /\ ~ lexer.refused => scan = lexer
  /\ ended /\ ~ lexer.refused => scan.found = lexer.found

\* What the readers' steps have in common.
LEMMA ReaderSteps ==
  ASSUME NEW r \in Readers, NEW sign, NEW at \in Nat
  PROVE  /\ InComment(r, sign) \in Readers /\ EndComment(r) \in Readers
         /\ BeginComment(r, at) \in Readers /\ AtEnd(r) \in Readers
         /\ InComment(r, sign).refused = r.refused /\ EndComment(r).refused = r.refused
         /\ BeginComment(r, at).refused = r.refused /\ AtEnd(r).refused = r.refused
<1>a. /\ r.comment \in Nat /\ r.found \in Seq(Nat)
      /\ r.refused \in BOOLEAN /\ r.skip \in {"", "\"", ">"} /\ r.claims \in BOOLEAN
  BY DEF Readers
<1>1. /\ r.comment \in Nat /\ r.found \in Seq(Nat) /\ Append(r.found, r.comment) \in Seq(Nat)
      /\ r.refused \in BOOLEAN /\ r.skip \in {"", "\"", ">"} /\ r.claims \in BOOLEAN
  BY <1>a, AppendProperties
<1>2. InComment(r, sign) \in Readers /\ InComment(r, sign).refused = r.refused
  BY <1>1 DEF InComment, Readers
<1>3. EndComment(r) \in Readers /\ EndComment(r).refused = r.refused
  BY <1>1 DEF EndComment, Readers
<1>4. BeginComment(r, at) \in Readers /\ BeginComment(r, at).refused = r.refused
  BY <1>1 DEF BeginComment, Readers
<1>5. AtEnd(r) \in Readers /\ AtEnd(r).refused = r.refused
  BY <1>3 DEF AtEnd
<1>6. QED
  BY <1>2, <1>3, <1>4, <1>5

\* One sign: from one state, the scan and the lexer go to one state, or the
\* lexer refuses the text, at a line that ends in a string or in prose.
LEMMA SignInStep ==
  ASSUME NEW r \in Readers, ~ r.refused, NEW sign, NEW at \in Nat
  PROVE  LexSign(r, sign, at).refused \/ ScanSign(r, sign, at) = LexSign(r, sign, at)
<1>1. r.skip \in {"", "\"", ">"}
  BY DEF Readers
<1>2. CASE r.skip = ""
  BY <1>2 DEF LexSign, ScanSign, Opens, Mark, Newline
<1>3. CASE r.skip # "" /\ sign = r.skip
  BY <1>1, <1>3 DEF LexSign, ScanSign, Newline
<1>4. CASE r.skip # "" /\ sign # r.skip /\ sign = Newline
  BY <1>1, <1>4 DEF LexSign, Readers, Newline
<1>5. CASE r.skip # "" /\ sign # r.skip /\ sign # Newline
  BY <1>1, <1>5 DEF LexSign, ScanSign
<1>6. QED
  BY <1>2, <1>3, <1>4, <1>5

LEMMA SignTyped ==
  ASSUME NEW r \in Readers, NEW sign, NEW at \in Nat
  PROVE  ScanSign(r, sign, at) \in Readers /\ LexSign(r, sign, at) \in Readers
<1>1. /\ InComment(r, sign) \in Readers /\ EndComment(r) \in Readers
      /\ BeginComment(r, at) \in Readers
  BY ReaderSteps
<1>2. /\ [r EXCEPT !.skip = ""] \in Readers /\ [r EXCEPT !.skip = "\""] \in Readers
      /\ [r EXCEPT !.skip = ">"] \in Readers /\ [r EXCEPT !.refused = TRUE] \in Readers
  BY DEF Readers
<1>3. ScanSign(r, sign, at) \in Readers
  BY <1>1, <1>2 DEF ScanSign, Opens, Mark
<1>4. LexSign(r, sign, at) \in Readers
  BY <1>1, <1>2 DEF LexSign
<1>5. QED
  BY <1>3, <1>4

LEMMA ReadSignInStep ==
  ASSUME InStep, ReadSign PROVE InStep'
<1>1. PICK sign \in Signs : /\ source' = Append(source, sign)
                            /\ scan' = ScanSign(scan, sign, Len(source) + 1)
                            /\ lexer' = LexSign(lexer, sign, Len(source) + 1)
  BY DEF ReadSign
<1>2. ~ ended /\ ~ ended' /\ ~ lexer.refused /\ scan = lexer
  BY DEF ReadSign, InStep
<1>3. Len(source) + 1 \in Nat /\ source' \in Seq(Signs)
  BY <1>1 DEF InStep
<1>4. scan' \in Readers /\ lexer' \in Readers
  BY <1>1, <1>3, SignTyped DEF InStep
<1>5. ~ lexer'.refused => scan' = lexer'
  BY <1>1, <1>2, <1>3, SignInStep DEF InStep
<1>6. QED
  BY <1>2, <1>3, <1>4, <1>5 DEF InStep

LEMMA ReadEndInStep ==
  ASSUME InStep, ReadEnd PROVE InStep'
<1>1. /\ ended' /\ scan' = AtEnd(scan) /\ scan = lexer
      /\ lexer' = [AtEnd(lexer) EXCEPT !.refused = lexer.skip # ""] /\ source' = source
  BY DEF ReadEnd, InStep
<1>2. scan' \in Readers /\ AtEnd(lexer) \in Readers
  BY <1>1, ReaderSteps DEF InStep
<1>3. lexer' \in Readers /\ lexer'.found = AtEnd(lexer).found
  BY <1>1, <1>2 DEF Readers
<1>4. QED
  BY <1>1, <1>2, <1>3 DEF InStep

(* Of a text the parse takes, the scan for annotations finds exactly those  *)
(* the lexer's comments hold: annotationComments, which reads the source a  *)
(* second time with rules of its own, takes no string, no prose and no      *)
(* quote within a comment for what it is not.                               *)
THEOREM AnnotationsAreFound == Spec => []CommentsAsLexed
<1>1. Init => InStep
  <2>1. Reader \in Readers
    BY DEF Reader, Readers
  <2>2. QED
    BY <2>1 DEF Init, InStep
<1>2. InStep /\ [Next]_vars => InStep'
  <2> SUFFICES ASSUME InStep, [Next]_vars PROVE InStep'
    OBVIOUS
  <2>1. CASE ReadSign
    BY <2>1, ReadSignInStep
  <2>2. CASE ReadEnd
    BY <2>2, ReadEndInStep
  <2>3. CASE UNCHANGED vars
    BY <2>3 DEF vars, InStep
  <2>4. QED
    BY <2>1, <2>2, <2>3 DEF Next
<1>3. InStep => CommentsAsLexed
  BY DEF InStep, CommentsAsLexed
<1>4. QED
  BY <1>1, <1>2, <1>3, PTL DEF Spec
=============================================================================
