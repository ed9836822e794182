---------------------------- MODULE FaultsProofs ----------------------------
(***************************************************************************)
(* The proof that both ports answer as the canonical converter does: every *)
(* step of either is a step of FirstFault or none, for any threads, texts  *)
(* of any length and any number of calls.                                  *)
(***************************************************************************)
EXTENDS Faults, TLAPS, SequenceTheorems

Items == NumericFaults \union Refusals \union {"fine"}

(* The first fault of a text, by its place. *)
FirstAt(items, i) ==
  /\ i \in 1 .. Len(items) /\ items[i] # "fine"
  /\ \A j \in 1 .. (i - 1) : items[j] = "fine"

\* A text is of items, and has a first fault or none.
TextOK(items) ==
  /\ items \in Seq(Items)
  /\ \/ \A i \in 1 .. Len(items) : items[i] = "fine"
     \/ \E i \in 1 .. Len(items) : FirstAt(items, i)

(* What a first fault is worth to a place that keeps numeric ones. *)
Kept(fault) == IF fault = "clean" THEN "none" ELSE fault

\* The verdict of a text as its parse leaves it: the diagnostic, else what
\* the engine said.
Meets(items, diagnostic, said, fine) ==
  FirstOf(items) = IF diagnostic # "none" THEN diagnostic
                   ELSE IF said = fine THEN "clean" ELSE said

TypeInv ==
  /\ port \in {"rust", "go"} /\ DOMAIN pc = Threads
  /\ DOMAIN text = Threads /\ \A t \in Threads : TextOK(text[t])

\* The slot of a thread in a parse holds the first fault read, and after it
\* what is taken does (clear_num_err, record_num_err, take_num_err).
RustAt(t) ==
  /\ slot[t] \in NumericFaults \union {"none"} /\ taken[t] \in NumericFaults \union {"none"}
  /\ pc[t] \in {"parser", "clear"} => text[t] = <<>>
  /\ pc[t] = "parse" => slot[t] = Kept(FirstOf(text[t]))
  /\ pc[t] \in {"take", "decide"} => parsed[t] \in Refusals \union {"ok"}
  /\ pc[t] = "take" => Meets(text[t], slot[t], parsed[t], "ok")
  /\ pc[t] = "decide" => Meets(text[t], taken[t], parsed[t], "ok")
  /\ pc[t] \in {"core", "coreParse"} => FirstOf(text[t]) = "clean"

RustInv == port = "rust" =>
  /\ DOMAIN slot = Threads /\ DOMAIN taken = Threads /\ DOMAIN parsed = Threads
  /\ \A t \in Threads : RustAt(t)

\* A goroutine in a parse has a recorder to itself, which holds the first
\* fault read (numErrRecorder).
Recording(t) == pc[t] \in {"parse", "decide"}

GoAt(t) ==
  /\ pc[t] \in {"engine", "build"} => text[t] = <<>> /\ err[t] = "none"
  /\ Recording(t) => meta[t] \in 1 .. Len(recorders)
  /\ pc[t] = "parse" => err[t] = "none" /\ recorders[meta[t]] = Kept(FirstOf(text[t]))
  /\ pc[t] = "decide" => /\ err[t] \in Refusals \union {"none"}
                         /\ Meets(text[t], recorders[meta[t]], err[t], "none")
  /\ pc[t] = "core" => FirstOf(text[t]) = "clean"

GoInv == port = "go" =>
  /\ recorders \in Seq(NumericFaults \union {"none"})
  /\ DOMAIN meta = Threads /\ DOMAIN err = Threads
  /\ \A t \in Threads : GoAt(t)
  /\ \A t, u \in Threads : t # u /\ Recording(t) /\ Recording(u) => meta[t] # meta[u]

-----------------------------------------------------------------------------
(* What FirstOf, which the refinement maps the verdict to, returns.        *)
LEMMA NoFault ==
  ASSUME NEW items \in Seq(Items), \A i \in 1 .. Len(items) : items[i] = "fine"
  PROVE  FirstOf(items) = "clean"
BY LenProperties DEF FirstOf

LEMMA FirstFound ==
  ASSUME NEW items \in Seq(Items), NEW i \in 1 .. Len(items), FirstAt(items, i)
  PROVE  FirstOf(items) = items[i]
<1> DEFINE faults == {k \in DOMAIN items : items[k] # "fine"}
           least(k) == \A j \in faults : k <= j
<1>1. DOMAIN items = 1 .. Len(items) /\ Len(items) \in Nat
  BY LenProperties
<1>2. i \in faults /\ least(i)
  BY <1>1 DEF FirstAt
<1>3. \A k \in faults : least(k) => k = i
  BY <1>1, <1>2
<1> HIDE DEF least
<1>4. (CHOOSE k \in faults : least(k)) = i
  BY <1>2, <1>3
<1>5. QED
  BY <1>2, <1>4 DEF FirstOf, least

(* One item more: the verdict is the first fault's still, or the item's.   *)
LEMMA ReadOneMore ==
  ASSUME NEW items, TextOK(items), NEW item \in Items
  PROVE  /\ TextOK(Append(items, item))
         /\ FirstOf(Append(items, item)) =
              IF FirstOf(items) # "clean" \/ item = "fine" THEN FirstOf(items) ELSE item
         /\ FirstOf(items) \in {"clean"} \union NumericFaults \union Refusals
<1> DEFINE more == Append(items, item)
<1>1. /\ items \in Seq(Items) /\ more \in Seq(Items)
      /\ Len(items) \in Nat /\ Len(more) = Len(items) + 1
      /\ \A i \in 1 .. Len(items) : more[i] = items[i]
      /\ more[Len(items) + 1] = item
  BY AppendProperties, LenProperties DEF TextOK
<1> HIDE DEF more
<1>2. CASE \A i \in 1 .. Len(items) : items[i] = "fine"
  <2>1. FirstOf(items) = "clean"
    BY <1>1, <1>2, NoFault
  <2>2. CASE item = "fine"
    <3>1. \A i \in 1 .. Len(more) : more[i] = "fine"
      BY <1>1, <1>2, <2>2
    <3>2. QED
      BY <1>1, <2>1, <2>2, <3>1, NoFault DEF TextOK, more
  <2>3. CASE item # "fine"
    <3>1. FirstAt(more, Len(items) + 1) /\ Len(items) + 1 \in 1 .. Len(more)
      BY <1>1, <1>2, <2>3 DEF FirstAt
    <3>2. FirstOf(more) = item
      BY <1>1, <3>1, FirstFound
    <3>3. TextOK(more)
      BY <1>1, <3>1 DEF TextOK
    <3>4. QED
      BY <2>1, <2>3, <3>2, <3>3 DEF more
  <2>4. QED
    BY <2>2, <2>3
<1>3. CASE \E i \in 1 .. Len(items) : FirstAt(items, i)
  <2>1. PICK i \in 1 .. Len(items) : FirstAt(items, i)
    BY <1>3
  <2>2. FirstAt(more, i) /\ i \in 1 .. Len(more)
    BY <1>1, <2>1 DEF FirstAt
  <2>3. FirstOf(items) = items[i] /\ FirstOf(more) = items[i]
    BY <1>1, <2>1, <2>2, FirstFound
  <2>4. items[i] \in Items \ {"fine"}
    BY <1>1, <2>1, ElementOfSeq DEF FirstAt
  <2>5. TextOK(more)
    BY <1>1, <2>2 DEF TextOK
  <2>6. QED
    BY <2>3, <2>4, <2>5, FaultsAssumption DEF Items, more
<1>4. QED
  BY <1>2, <1>3 DEF TextOK

LEMMA NothingRead == TextOK(<<>>) /\ FirstOf(<<>>) = "clean"
<1>1. <<>> \in Seq(Items) /\ Len(<<>>) = 0
  BY EmptySeq
<1>2. \A i \in 1 .. Len(<<>>) : <<>>[i] = "fine"
  BY <1>1
<1>3. QED
  BY <1>1, <1>2, NoFault DEF TextOK

-----------------------------------------------------------------------------
(* A step of one thread of the Rust port: the slot is the thread's own.    *)
LEMMA RustOthers ==
  ASSUME TypeInv, RustInv, port = "rust", port' = "rust", NEW t \in Threads,
         /\ DOMAIN pc' = Threads /\ DOMAIN text' = Threads
         /\ DOMAIN slot' = Threads /\ DOMAIN taken' = Threads /\ DOMAIN parsed' = Threads,
         \A u \in Threads \ {t} :
           /\ pc'[u] = pc[u] /\ text'[u] = text[u]
           /\ slot'[u] = slot[u] /\ taken'[u] = taken[u] /\ parsed'[u] = parsed[u],
         TextOK(text'[t]), RustAt(t)'
  PROVE  TypeInv' /\ RustInv' /\ GoInv'
<1>1. \A u \in Threads \ {t} : RustAt(u)'
  BY DEF RustInv, RustAt, Kept, Meets
<1>2. QED
  BY <1>1 DEF TypeInv, RustInv, GoInv

LEMMA RustKeeps ==
  ASSUME TypeInv, RustInv, port = "rust", port' = "rust",
         NEW t \in Threads, Rust!Call(t) \/ Rust!Proceed(t)
  PROVE  TypeInv' /\ RustInv' /\ GoInv'
<1> USE DEF Rust!Goto, Rust!Reply, Rust!ReadItem
<1>1. /\ DOMAIN pc' = Threads /\ DOMAIN text' = Threads
      /\ DOMAIN slot' = Threads /\ DOMAIN taken' = Threads /\ DOMAIN parsed' = Threads
      /\ \A u \in Threads \ {t} :
           /\ pc'[u] = pc[u] /\ text'[u] = text[u]
           /\ slot'[u] = slot[u] /\ taken'[u] = taken[u] /\ parsed'[u] = parsed[u]
  BY DEF TypeInv, RustInv, Rust!Call, Rust!Proceed, Rust!GetParser, Rust!ClearNumErr,
     Rust!Decode, Rust!DecodeFault, Rust!EngineRefuses, Rust!ParseEnds, Rust!EnginePanics,
     Rust!TakeNumErr, Rust!RefuseText, Rust!RefuseLater, Rust!WithCoreRules, Rust!BuildCore,
     Rust!CoreBuilt, Rust!Return, Rust!Reading
<1>2. /\ DOMAIN pc = Threads /\ DOMAIN text = Threads /\ TextOK(text[t]) /\ RustAt(t)
      /\ DOMAIN slot = Threads /\ DOMAIN taken = Threads /\ DOMAIN parsed = Threads
  BY DEF TypeInv, RustInv
<1>3. FirstOf(text[t]) \in {"clean"} \union NumericFaults \union Refusals
  BY <1>2, ReadOneMore DEF Items
<1>4. TextOK(text'[t]) /\ RustAt(t)'
  <2> USE <1>2, <1>3, FaultsAssumption DEF RustAt, Kept, Meets
  <2>1. CASE Rust!Call(t)
    BY <2>1, NothingRead DEF Rust!Call
  <2>2. CASE Rust!GetParser(t)
    BY <2>2 DEF Rust!GetParser
  <2>3. CASE Rust!ClearNumErr(t)
    BY <2>3, NothingRead DEF Rust!ClearNumErr
  <2>4. CASE Rust!Decode(t)
    <3>1. text'[t] = Append(text[t], "fine") /\ "fine" \in Items
      BY <2>4 DEF Rust!Decode, Items
    <3>2. TextOK(text'[t]) /\ FirstOf(text'[t]) = FirstOf(text[t])
      BY <3>1, ReadOneMore
    <3>3. QED
      BY <2>4, <3>2 DEF Rust!Decode, Rust!Reading
  <2>5. CASE Rust!DecodeFault(t)
    <3>1. PICK m \in NumericFaults :
            /\ text'[t] = Append(text[t], m)
            /\ slot'[t] = IF slot[t] = "none" THEN m ELSE slot[t]
      BY <2>5 DEF Rust!DecodeFault
    <3>2. m \in Items /\ m # "fine"
      BY DEF Items
    <3>3. /\ TextOK(text'[t])
          /\ FirstOf(text'[t]) = IF FirstOf(text[t]) # "clean" THEN FirstOf(text[t]) ELSE m
      BY <3>1, <3>2, ReadOneMore
    <3>4. QED
      BY <2>5, <3>1, <3>3 DEF Rust!DecodeFault, Rust!Reading
  <2>6. CASE Rust!EngineRefuses(t)
    <3>1. PICK r \in Refusals : text'[t] = Append(text[t], r) /\ parsed'[t] = r
      BY <2>6 DEF Rust!EngineRefuses
    <3>2. r \in Items /\ r # "fine"
      BY DEF Items
    <3>3. /\ TextOK(text'[t])
          /\ FirstOf(text'[t]) = IF FirstOf(text[t]) # "clean" THEN FirstOf(text[t]) ELSE r
      BY <3>1, <3>2, ReadOneMore
    <3>4. QED
      BY <2>6, <3>1, <3>3 DEF Rust!EngineRefuses, Rust!Reading
  <2>7. CASE Rust!ParseEnds(t)
    BY <2>7 DEF Rust!ParseEnds
  <2>8. CASE Rust!EnginePanics(t)
    BY <2>8 DEF Rust!EnginePanics
  <2>9. CASE Rust!TakeNumErr(t)
    BY <2>9 DEF Rust!TakeNumErr
  <2>10. CASE Rust!RefuseText(t) \/ Rust!RefuseLater(t)
    BY <2>10 DEF Rust!RefuseText, Rust!RefuseLater
  <2>11. CASE Rust!WithCoreRules(t)
    BY <2>11 DEF Rust!WithCoreRules
  <2>12. CASE Rust!BuildCore(t) \/ Rust!CoreBuilt(t)
    BY <2>12 DEF Rust!BuildCore, Rust!CoreBuilt
  <2>13. CASE Rust!Return(t)
    BY <2>13 DEF Rust!Return
  <2>14. QED
    BY <2>1, <2>2, <2>3, <2>4, <2>5, <2>6, <2>7, <2>8, <2>9, <2>10, <2>11, <2>12, <2>13
       DEF Rust!Proceed
<1>5. QED
  BY <1>1, <1>4, RustOthers

-----------------------------------------------------------------------------
(* A step of one goroutine of the Go port: the recorder is its own.        *)
LEMMA GoOthers ==
  ASSUME TypeInv, GoInv, port = "go", port' = "go", NEW t \in Threads,
         /\ DOMAIN pc' = Threads /\ DOMAIN text' = Threads
         /\ DOMAIN meta' = Threads /\ DOMAIN err' = Threads,
         /\ recorders' \in Seq(NumericFaults \union {"none"})
         /\ Len(recorders) \in Nat /\ Len(recorders') \in Nat
         /\ Len(recorders) <= Len(recorders'),
         \A u \in Threads \ {t} :
           /\ pc'[u] = pc[u] /\ text'[u] = text[u] /\ meta'[u] = meta[u] /\ err'[u] = err[u]
           /\ Recording(u) => recorders'[meta[u]] = recorders[meta[u]]
           /\ Recording(t)' /\ Recording(u) => meta'[t] # meta[u],
         TextOK(text'[t]), GoAt(t)'
  PROVE  TypeInv' /\ RustInv' /\ GoInv'
<1>1. \A u \in Threads \ {t} : GoAt(u)'
  BY DEF GoInv, GoAt, Recording, Kept, Meets
<1>2. \A u, v \in Threads : u # v /\ Recording(u)' /\ Recording(v)' => meta'[u] # meta'[v]
  BY DEF GoInv, Recording
<1>3. QED
  BY <1>1, <1>2 DEF TypeInv, RustInv, GoInv

(* The two ways the recorders change: one more, or the first fault of one. *)
LEMMA RecordersKeep ==
  ASSUME recorders \in Seq(NumericFaults \union {"none"}),
         NEW i \in 1 .. Len(recorders), NEW m \in NumericFaults
  PROVE  LET noted == [recorders EXCEPT ![i] = IF @ = "none" THEN m ELSE @]
         IN /\ Len(noted) = Len(recorders)
            /\ noted \in Seq(NumericFaults \union {"none"})
            /\ noted[i] = IF recorders[i] = "none" THEN m ELSE recorders[i]
            /\ \A j \in 1 .. Len(recorders) : j # i => noted[j] = recorders[j]
<1>1. recorders[i] \in NumericFaults \union {"none"}
  BY ElementOfSeq
<1>2. QED
  BY <1>1, ExceptSeq

LEMMA RecordersGrow ==
  ASSUME recorders \in Seq(NumericFaults \union {"none"})
  PROVE  LET more == Append(recorders, "none")
         IN /\ Len(recorders) \in Nat /\ Len(more) = Len(recorders) + 1
            /\ more \in Seq(NumericFaults \union {"none"})
            /\ more[Len(recorders) + 1] = "none"
            /\ \A j \in 1 .. Len(recorders) : more[j] = recorders[j]
BY AppendProperties, LenProperties

LEMMA GoKeeps ==
  ASSUME TypeInv, GoInv, port = "go", port' = "go",
         NEW t \in Threads, Go!Call(t) \/ Go!Proceed(t)
  PROVE  TypeInv' /\ RustInv' /\ GoInv'
<1> USE DEF Go!Goto, Go!Reply, Go!ReadItem
<1>1. /\ DOMAIN pc' = Threads /\ DOMAIN text' = Threads
      /\ DOMAIN meta' = Threads /\ DOMAIN err' = Threads
      /\ \A u \in Threads \ {t} :
           pc'[u] = pc[u] /\ text'[u] = text[u] /\ meta'[u] = meta[u] /\ err'[u] = err[u]
  BY DEF TypeInv, GoInv, Go!Call, Go!Proceed, Go!BuildEngine, Go!EngineBuilt, Go!StartParse,
     Go!Decode, Go!DecodeFault, Go!EngineRefuses, Go!ParseEnds, Go!EnginePanics,
     Go!RefuseText, Go!RefuseLater, Go!CoreRuleList, Go!Return, Go!Reading
<1>2. /\ DOMAIN pc = Threads /\ DOMAIN text = Threads /\ TextOK(text[t]) /\ GoAt(t)
      /\ DOMAIN meta = Threads /\ DOMAIN err = Threads
      /\ recorders \in Seq(NumericFaults \union {"none"}) /\ Len(recorders) \in Nat
      /\ \A u \in Threads : Recording(u) => meta[u] \in 1 .. Len(recorders)
      /\ \A u \in Threads \ {t} : Recording(t) /\ Recording(u) => meta[t] # meta[u]
  BY LenProperties DEF TypeInv, GoInv, GoAt
<1>3. FirstOf(text[t]) \in {"clean"} \union NumericFaults \union Refusals
  BY <1>2, ReadOneMore DEF Items
<1> DEFINE Others ==
      /\ recorders' \in Seq(NumericFaults \union {"none"})
      /\ Len(recorders') \in Nat /\ Len(recorders) <= Len(recorders')
      /\ \A u \in Threads \ {t} :
           /\ Recording(u) => recorders'[meta[u]] = recorders[meta[u]]
           /\ Recording(t)' /\ Recording(u) => meta'[t] # meta[u]
<1>4. ASSUME recorders' = recorders, meta'[t] = meta[t], Recording(t)' => Recording(t)
      PROVE  Others
  BY <1>2, <1>4
<1>5. ASSUME recorders' = Append(recorders, "none"), meta'[t] = Len(recorders) + 1
      PROVE  Others /\ meta'[t] \in 1 .. Len(recorders') /\ recorders'[meta'[t]] = "none"
  BY <1>2, <1>5, RecordersGrow
<1> HIDE DEF Others
<1>6. Others /\ TextOK(text'[t]) /\ GoAt(t)'
  <2> USE <1>2, <1>3, FaultsAssumption DEF GoAt, Recording, Kept, Meets
  <2>1. CASE Go!Call(t)
    BY <1>4, <2>1, NothingRead DEF Go!Call
  <2>2. CASE Go!BuildEngine(t) \/ Go!EngineBuilt(t)
    BY <1>4, <2>2 DEF Go!BuildEngine, Go!EngineBuilt
  <2>3. CASE Go!StartParse(t)
    BY <1>5, <2>3, NothingRead DEF Go!StartParse
  <2>4. CASE Go!Decode(t)
    <3>1. text'[t] = Append(text[t], "fine") /\ "fine" \in Items
      BY <2>4 DEF Go!Decode, Items
    <3>2. TextOK(text'[t]) /\ FirstOf(text'[t]) = FirstOf(text[t])
      BY <3>1, ReadOneMore
    <3>3. QED
      BY <1>4, <2>4, <3>2 DEF Go!Decode, Go!Reading
  <2>5. CASE Go!DecodeFault(t)
    <3>1. PICK m \in NumericFaults :
            /\ text'[t] = Append(text[t], m)
            /\ recorders' = [recorders EXCEPT ![meta[t]] = IF @ = "none" THEN m ELSE @]
      BY <2>5 DEF Go!DecodeFault
    <3>2. m \in Items /\ m # "fine"
      BY DEF Items
    <3>3. /\ TextOK(text'[t])
          /\ FirstOf(text'[t]) = IF FirstOf(text[t]) # "clean" THEN FirstOf(text[t]) ELSE m
      BY <3>1, <3>2, ReadOneMore
    <3>4. pc[t] = "parse" /\ UNCHANGED <<pc, meta, err>> /\ meta[t] \in 1 .. Len(recorders)
      BY <2>5 DEF Go!DecodeFault, Go!Reading
    <3>5. /\ Len(recorders') = Len(recorders)
          /\ recorders' \in Seq(NumericFaults \union {"none"})
          /\ recorders'[meta[t]] = IF recorders[meta[t]] = "none" THEN m ELSE recorders[meta[t]]
          /\ \A j \in 1 .. Len(recorders) : j # meta[t] => recorders'[j] = recorders[j]
      BY <3>1, <3>4, RecordersKeep
    <3>6. Others
      BY <3>4, <3>5 DEF Others
    <3>7. QED
      BY <3>3, <3>4, <3>5, <3>6
  <2>6. CASE Go!EngineRefuses(t)
    <3>1. PICK r \in Refusals : text'[t] = Append(text[t], r) /\ err'[t] = r
      BY <2>6 DEF Go!EngineRefuses
    <3>2. r \in Items /\ r # "fine"
      BY DEF Items
    <3>3. /\ TextOK(text'[t])
          /\ FirstOf(text'[t]) = IF FirstOf(text[t]) # "clean" THEN FirstOf(text[t]) ELSE r
      BY <3>1, <3>2, ReadOneMore
    <3>4. QED
      BY <1>4, <2>6, <3>1, <3>3 DEF Go!EngineRefuses, Go!Reading
  <2>7. CASE Go!ParseEnds(t)
    BY <1>4, <2>7 DEF Go!ParseEnds
  <2>8. CASE Go!EnginePanics(t)
    BY <1>4, <2>8 DEF Go!EnginePanics
  <2>9. CASE Go!RefuseText(t) \/ Go!RefuseLater(t)
    BY <1>4, <2>9 DEF Go!RefuseText, Go!RefuseLater
  <2>10. CASE Go!CoreRuleList(t)
    BY <1>5, <2>10 DEF Go!CoreRuleList, Go!Clean, Go!Recorded
  <2>11. CASE Go!Return(t)
    BY <1>4, <2>11 DEF Go!Return
  <2>12. QED
    BY <2>1, <2>2, <2>3, <2>4, <2>5, <2>6, <2>7, <2>8, <2>9, <2>10, <2>11 DEF Go!Proceed
<1>7. QED
  BY <1>1, <1>2, <1>6, GoOthers DEF Others

-----------------------------------------------------------------------------
IInv == TypeInv /\ RustInv /\ GoInv

(* IInv is inductive: what a thread of either port knows of its text is    *)
(* the text's first fault, wherever it is in its call.                     *)
THEOREM FaultsAreKept == FairSpec => []IInv
<1>1. Init => IInv
  <2> SUFFICES ASSUME Init PROVE IInv
    OBVIOUS
  <2>1. TypeInv
    BY NothingRead DEF Init, Rust!Init, Go!Init, TypeInv
  <2>2. RustInv
    BY DEF Init, Rust!Init, RustInv, RustAt
  <2>3. GoInv
    BY EmptySeq DEF Init, Go!Init, GoInv, GoAt, Recording
  <2>4. QED
    BY <2>1, <2>2, <2>3 DEF IInv
<1>2. IInv /\ [Next]_vars => IInv'
  <2> SUFFICES ASSUME IInv, [Next]_vars PROVE IInv'
    OBVIOUS
  <2>1. ASSUME NEW t \in Threads, port = "rust", port' = port, Rust!Call(t) \/ Rust!Proceed(t)
        PROVE  IInv'
    BY <2>1, RustKeeps DEF IInv
  <2>2. ASSUME NEW t \in Threads, port = "go", port' = port, Go!Call(t) \/ Go!Proceed(t)
        PROVE  IInv'
    BY <2>2, GoKeeps DEF IInv
  <2>3. CASE UNCHANGED vars
    BY <2>3 DEF vars, rustVars, goVars, IInv, TypeInv, RustInv, RustAt, GoInv, GoAt, Recording,
       Kept, Meets
  <2>4. QED
    BY <2>1, <2>2, <2>3 DEF Next, RustSteps, GoSteps
<1>3. QED
  BY <1>1, <1>2, PTL DEF FairSpec

-----------------------------------------------------------------------------
StageOf(t) == IF pc[t] = "idle" THEN "idle" ELSE "reading"
StageMap == [t \in Threads |-> StageOf(t)]
VerdictMap == [t \in Threads |-> FirstOf(text[t])]

(* A step of one thread moves no other thread's stage and verdict.         *)
LEMMA OthersStay ==
  ASSUME NEW t \in Threads,
         \A u \in Threads \ {t} : pc'[u] = pc[u] /\ text'[u] = text[u]
  PROVE  /\ StageMap' = [StageMap EXCEPT ![t] = StageOf(t)']
         /\ VerdictMap' = [VerdictMap EXCEPT ![t] = FirstOf(text'[t])]
         /\ StageOf(t)' = StageOf(t) => StageMap' = StageMap
         /\ FirstOf(text'[t]) = FirstOf(text[t]) => VerdictMap' = VerdictMap
BY DEF StageMap, StageOf, VerdictMap

(* What a step can be to the caller, said of the thread alone.             *)
Begins(t) == /\ pc[t] = "idle" /\ pc'[t] # "idle" /\ text'[t] = <<>>
             /\ answer' = [answer EXCEPT ![t] = "none"]
MeetsFault(t) == /\ pc[t] # "idle" /\ pc'[t] # "idle" /\ FirstOf(text[t]) = "clean"
                 /\ FirstOf(text'[t]) \in NumericFaults \union Refusals /\ answer' = answer
Answers(t) ==
  /\ pc[t] # "idle" /\ pc'[t] = "idle" /\ text'[t] = text[t]
  /\ \E a \in IF FirstOf(text[t]) = "clean" THEN {"grammar", "later", "no productions"}
              ELSE {FirstOf(text[t])} : answer' = [answer EXCEPT ![t] = a]
Unwinds(t) == /\ pc[t] # "idle" /\ pc'[t] = "idle" /\ text'[t] = text[t]
              /\ answer' = [answer EXCEPT ![t] = "panic"]
Unseen(t) == /\ pc[t] # "idle" /\ pc'[t] # "idle"
             /\ FirstOf(text'[t]) = FirstOf(text[t]) /\ answer' = answer

LEMMA Seen ==
  ASSUME NEW t \in Threads,
         \A u \in Threads \ {t} : pc'[u] = pc[u] /\ text'[u] = text[u],
         Begins(t) \/ MeetsFault(t) \/ Answers(t) \/ Unwinds(t) \/ Unseen(t)
  PROVE  Abstract!Next \/ UNCHANGED Abstract!vars
<1>1. /\ StageMap' = [StageMap EXCEPT ![t] = StageOf(t)']
      /\ VerdictMap' = [VerdictMap EXCEPT ![t] = FirstOf(text'[t])]
      /\ StageOf(t)' = StageOf(t) => StageMap' = StageMap
      /\ FirstOf(text'[t]) = FirstOf(text[t]) => VerdictMap' = VerdictMap
      /\ StageMap[t] = StageOf(t) /\ VerdictMap[t] = FirstOf(text[t])
  BY OthersStay DEF StageMap, VerdictMap
<1>2. CASE Begins(t)
  BY <1>1, <1>2, NothingRead
     DEF Begins, Abstract!Next, Abstract!Begin, StageMap, VerdictMap, StageOf
<1>3. CASE MeetsFault(t)
  BY <1>1, <1>3 DEF MeetsFault, Abstract!Next, Abstract!Fault, StageMap, VerdictMap, StageOf
<1>4. CASE Answers(t)
  BY <1>1, <1>4 DEF Answers, Abstract!Next, Abstract!Answer, StageMap, VerdictMap, StageOf
<1>5. CASE Unwinds(t)
  BY <1>1, <1>5 DEF Unwinds, Abstract!Next, Abstract!Unwind, StageMap, VerdictMap, StageOf
<1>6. CASE Unseen(t)
  BY <1>1, <1>6 DEF Unseen, Abstract!vars, StageMap, VerdictMap, StageOf
<1>7. QED
  BY <1>2, <1>3, <1>4, <1>5, <1>6

LEMMA RustSeen ==
  ASSUME TypeInv, RustInv, port = "rust",
         NEW t \in Threads, Rust!Call(t) \/ Rust!Proceed(t)
  PROVE  Abstract!Next \/ UNCHANGED Abstract!vars
<1> USE DEF Rust!Goto, Rust!Reply, Rust!ReadItem
<1>1. /\ DOMAIN pc = Threads /\ DOMAIN text = Threads /\ TextOK(text[t]) /\ RustAt(t)
      /\ DOMAIN slot = Threads /\ DOMAIN taken = Threads /\ DOMAIN parsed = Threads
  BY DEF TypeInv, RustInv
<1>2. FirstOf(text[t]) \in {"clean"} \union NumericFaults \union Refusals
  BY <1>1, ReadOneMore DEF Items
<1>3. \A u \in Threads \ {t} : pc'[u] = pc[u] /\ text'[u] = text[u]
  BY <1>1 DEF Rust!Call, Rust!Proceed, Rust!GetParser, Rust!ClearNumErr,
     Rust!Decode, Rust!DecodeFault, Rust!EngineRefuses, Rust!ParseEnds, Rust!EnginePanics,
     Rust!TakeNumErr, Rust!RefuseText, Rust!RefuseLater, Rust!WithCoreRules, Rust!BuildCore,
     Rust!CoreBuilt, Rust!Return, Rust!Reading
<1>4. Begins(t) \/ MeetsFault(t) \/ Answers(t) \/ Unwinds(t) \/ Unseen(t)
  <2> USE <1>1, <1>2, FaultsAssumption
  <2>1. CASE Rust!Call(t)
    BY <2>1 DEF Rust!Call, Begins
  <2>2. CASE Rust!DecodeFault(t) \/ Rust!EngineRefuses(t)
    <3>1. PICK f \in NumericFaults \union Refusals : text'[t] = Append(text[t], f)
      BY <2>2 DEF Rust!DecodeFault, Rust!EngineRefuses
    <3>2. FirstOf(text'[t]) = IF FirstOf(text[t]) # "clean" THEN FirstOf(text[t]) ELSE f
      BY <3>1, ReadOneMore DEF Items
    <3>3. pc[t] = "parse" /\ pc'[t] # "idle" /\ answer' = answer
      BY <2>2 DEF Rust!DecodeFault, Rust!EngineRefuses, Rust!Reading
    <3>4. QED
      BY <3>2, <3>3 DEF MeetsFault, Unseen
  <2>3. CASE Rust!Decode(t)
    <3>1. FirstOf(text'[t]) = FirstOf(text[t])
      BY <2>3, ReadOneMore DEF Rust!Decode, Items
    <3>2. QED
      BY <2>3, <3>1 DEF Rust!Decode, Rust!Reading, Unseen
  <2>4. CASE Rust!EnginePanics(t)
    BY <2>4 DEF Rust!EnginePanics, Unwinds
  <2>5. CASE Rust!RefuseText(t)
    BY <2>5, NothingRead DEF Rust!RefuseText, Answers, RustAt, Meets
  <2>6. CASE Rust!RefuseLater(t)
    BY <2>6 DEF Rust!RefuseLater, Answers, RustAt, Meets
  <2>7. CASE Rust!Return(t)
    BY <2>7 DEF Rust!Return, Answers, RustAt
  <2>8. CASE Rust!GetParser(t) \/ Rust!ClearNumErr(t) \/ Rust!ParseEnds(t) \/ Rust!TakeNumErr(t)
               \/ Rust!WithCoreRules(t) \/ Rust!BuildCore(t) \/ Rust!CoreBuilt(t)
    BY <2>8 DEF Rust!GetParser, Rust!ClearNumErr, Rust!ParseEnds, Rust!TakeNumErr,
       Rust!WithCoreRules, Rust!BuildCore, Rust!CoreBuilt, Unseen
  <2>9. QED
    BY <2>1, <2>2, <2>3, <2>4, <2>5, <2>6, <2>7, <2>8 DEF Rust!Proceed
<1>5. QED
  BY <1>3, <1>4, Seen

LEMMA GoSeen ==
  ASSUME TypeInv, GoInv, port = "go",
         NEW t \in Threads, Go!Call(t) \/ Go!Proceed(t)
  PROVE  Abstract!Next \/ UNCHANGED Abstract!vars
<1> USE DEF Go!Goto, Go!Reply, Go!ReadItem
<1>1. /\ DOMAIN pc = Threads /\ DOMAIN text = Threads /\ TextOK(text[t]) /\ GoAt(t)
      /\ DOMAIN meta = Threads /\ DOMAIN err = Threads
  BY DEF TypeInv, GoInv
<1>2. FirstOf(text[t]) \in {"clean"} \union NumericFaults \union Refusals
  BY <1>1, ReadOneMore DEF Items
<1>3. \A u \in Threads \ {t} : pc'[u] = pc[u] /\ text'[u] = text[u]
  BY <1>1 DEF Go!Call, Go!Proceed, Go!BuildEngine, Go!EngineBuilt, Go!StartParse,
     Go!Decode, Go!DecodeFault, Go!EngineRefuses, Go!ParseEnds, Go!EnginePanics,
     Go!RefuseText, Go!RefuseLater, Go!CoreRuleList, Go!Return, Go!Reading
<1>4. Begins(t) \/ MeetsFault(t) \/ Answers(t) \/ Unwinds(t) \/ Unseen(t)
  <2> USE <1>1, <1>2, FaultsAssumption
  <2>1. CASE Go!Call(t)
    BY <2>1 DEF Go!Call, Begins
  <2>2. CASE Go!DecodeFault(t) \/ Go!EngineRefuses(t)
    <3>1. PICK f \in NumericFaults \union Refusals : text'[t] = Append(text[t], f)
      BY <2>2 DEF Go!DecodeFault, Go!EngineRefuses
    <3>2. FirstOf(text'[t]) = IF FirstOf(text[t]) # "clean" THEN FirstOf(text[t]) ELSE f
      BY <3>1, ReadOneMore DEF Items
    <3>3. pc[t] = "parse" /\ pc'[t] # "idle" /\ answer' = answer
      BY <2>2 DEF Go!DecodeFault, Go!EngineRefuses, Go!Reading
    <3>4. QED
      BY <3>2, <3>3 DEF MeetsFault, Unseen
  <2>3. CASE Go!Decode(t)
    <3>1. FirstOf(text'[t]) = FirstOf(text[t])
      BY <2>3, ReadOneMore DEF Go!Decode, Items
    <3>2. QED
      BY <2>3, <3>1 DEF Go!Decode, Go!Reading, Unseen
  <2>4. CASE Go!EnginePanics(t)
    BY <2>4 DEF Go!EnginePanics, Unwinds
  <2>5. CASE Go!RefuseText(t)
    <3>1. meta[t] \in 1 .. Len(recorders)
      BY <2>5 DEF Go!RefuseText, GoAt, Recording
    <3>2. recorders[meta[t]] \in NumericFaults \union {"none"}
      BY <3>1, ElementOfSeq DEF GoInv
    <3>3. QED
      BY <2>5, <3>2, NothingRead DEF Go!RefuseText, Go!Recorded, Answers, GoAt, Meets
  <2>6. CASE Go!RefuseLater(t)
    BY <2>6 DEF Go!RefuseLater, Go!Clean, Go!Recorded, Answers, GoAt, Meets
  <2>7. CASE Go!Return(t)
    BY <2>7 DEF Go!Return, Answers, GoAt
  <2>8. CASE Go!BuildEngine(t) \/ Go!EngineBuilt(t) \/ Go!StartParse(t) \/ Go!ParseEnds(t)
               \/ Go!CoreRuleList(t)
    BY <2>8 DEF Go!BuildEngine, Go!EngineBuilt, Go!StartParse, Go!ParseEnds,
       Go!CoreRuleList, Unseen
  <2>9. QED
    BY <2>1, <2>2, <2>3, <2>4, <2>5, <2>6, <2>7, <2>8 DEF Go!Proceed
<1>5. QED
  BY <1>3, <1>4, Seen

(* Both ports implement the canonical way of reporting faults: a call      *)
(* answers with the first fault of its own text, for any threads, calls    *)
(* and texts (parse_abnf_raw, parseAbnf).                                  *)
THEOREM FaultsAreFirst == FairSpec => FirstFaultWins
<1>1. Init => Abstract!Init
  BY NothingRead DEF Init, Rust!Init, Go!Init, Abstract!Init
<1>2. IInv /\ [Next]_vars => [Abstract!Next]_(Abstract!vars)
  <2> SUFFICES ASSUME IInv, [Next]_vars PROVE Abstract!Next \/ UNCHANGED Abstract!vars
    OBVIOUS
  <2>1. CASE UNCHANGED vars
    BY <2>1 DEF vars, Abstract!vars
  <2>2. QED
    BY <2>1, RustSeen, GoSeen DEF IInv, Next, RustSteps, GoSteps
<1>3. QED
  BY <1>1, <1>2, FaultsAreKept, PTL DEF FairSpec, FirstFaultWins, Abstract!Spec
=============================================================================
