----------------------------- MODULE CLibProofs -----------------------------
(***************************************************************************)
(* Proofs about the C library's registry and locks, for any set of threads,*)
(* any handles passed and any number of loads.                             *)
(***************************************************************************)
EXTENDS CLib, FiniteSetTheorems, TLAPS

\* Where a thread is in its call says exactly which locks it holds.
LockInv ==
  /\ \A t \in Threads :
       /\ writer = t <=> pc[t] \in InRegistry \union {"reg.Drain"}
       /\ t \in readers <=> pc[t] \in Reading
       /\ sharedMu = t <=> pc[t] \in InEngine
       /\ mu[t] = IF pc[t] \in InInstance THEN call[t].handle ELSE 0
  /\ (\E t \in Threads : pc[t] \in InRegistry) => readers = {}

\* The counter is ahead of every handle issued, and strictly so for a thread
\* that is about to store; a handle that was found has been issued.
HandleInv ==
  /\ loaded \subseteq issued
  /\ \A h \in issued : 0 < h /\ h <= nextID
  /\ \A t \in Threads :
       /\ pc[t] = "store" => nextID \notin issued /\ nextID # 0
       /\ pc[t] \in {"hit", "mu.Lock"} \union InInstance => call[t].handle \in issued
       /\ result[t].code = "handle" => result[t].handle \in issued
  /\ HandlesDistinct

-----------------------------------------------------------------------------
(* TypeOK holds in every reachable state of the library's calls: every     *)
(* step leaves the program counters, replies, registry and locks in range. *)
THEOREM TypeCorrect == Spec => []TypeOK
<1>1. Init => TypeOK
  BY CLibAssumption DEF Init, TypeOK, NoCall, Reply, PCs, Codes
<1>2. ASSUME TypeOK, NEW t \in Threads, Calling(t) \/ Locking(t) \/ Working(t)
      PROVE  TypeOK'
  <2> USE <1>2, CLibAssumption DEF TypeOK, PCs, Codes, InRegistry, InInstance, InEngine,
        Reading, registry, locks
  <2>1. CASE CallGrammar(t)
    BY <2>1 DEF CallGrammar, Goto, Calls, Sets, Reply
  <2>2. CASE CallParse(t)
    BY <2>2 DEF CallParse, Goto, Calls, Sets, Reply
  <2>3. CASE CallFree(t)
    BY <2>3 DEF CallFree, Goto, Calls, Sets, Reply
  <2>4. CASE RegLock(t)
    BY <2>4 DEF RegLock, Goto
  <2>5. CASE RegRLock(t)
    BY <2>5 DEF RegRLock, Goto
  <2>6. CASE LockInstance(t)
    BY <2>6 DEF LockInstance, Goto
  <2>7. CASE LockShared(t)
    BY <2>7 DEF LockShared, Goto
  <2>8. CASE Usage(t)
    BY <2>8 DEF Usage, Goto, Sets, Reply
  <2>9. CASE Checked(t)
    BY <2>9 DEF Checked, Goto
  <2>10. CASE Increment(t)
    BY <2>10 DEF Increment, Goto
  <2>11. CASE Store(t)
    BY <2>11 DEF Store, Goto, Sets, Reply
  <2>12. CASE Delete(t)
    BY <2>12 DEF Delete, Goto, Sets, Reply
  <2>13. CASE RegUnlock(t)
    BY <2>13 DEF RegUnlock, Goto
  <2>14. CASE Lookup(t)
    <3>1. CASE call[t].handle \in loaded
      BY <2>14, <3>1 DEF Lookup, Goto, Sets, Reply
    <3>2. CASE ~(call[t].handle \in loaded)
      <4>1. /\ pc[t] = "lookup" /\ pc' = [pc EXCEPT ![t] = "miss"]
            /\ result' = [result EXCEPT ![t] = [code |-> "unknown", handle |-> 0]]
            /\ UNCHANGED <<call, registry, locks>>
        BY <2>14, <3>2 DEF Lookup, Goto, Sets, Reply
      <4>2. QED
        BY <4>1
    <3>3. QED
      BY <3>1, <3>2
  <2>15. CASE RegRUnlock(t)
    BY <2>15 DEF RegRUnlock, Goto
  <2>16. CASE Parse(t)
    BY <2>16 DEF Parse, Goto, Sets, Reply
  <2>17. CASE UnlockShared(t)
    BY <2>17 DEF UnlockShared, Goto
  <2>18. CASE UnlockInstance(t)
    BY <2>18 DEF UnlockInstance, Goto
  <2>19. CASE Return(t)
    BY <2>19 DEF Return, Goto, NoCall
  <2>20. CASE RegDrained(t)
    BY <2>20 DEF RegDrained, Goto
  <2>21. QED
    BY <1>2, <2>20, <2>1, <2>2, <2>3, <2>4, <2>5, <2>6, <2>7, <2>8, <2>9, <2>10, <2>11, <2>12, <2>13, <2>14, <2>15, <2>16, <2>17, <2>18, <2>19
       DEF Calling, Locking, Working
<1>3. TypeOK /\ [Next]_vars => TypeOK'
  BY <1>2 DEF Next, TypeOK, vars, registry, locks
<1>4. QED
  BY <1>1, <1>3, PTL DEF Spec

(* LockInv is inductive under TypeOK: each lock of core.go is held by the  *)
(* threads whose call is between its Lock and its Unlock, and by no other. *)
THEOREM LocksFollowCalls == Spec => []LockInv
<1>1. Init => LockInv
  BY CLibAssumption DEF Init, NoCall, LockInv, InRegistry, Reading, InEngine, InInstance
<1>2. ASSUME TypeOK, LockInv, NEW t \in Threads,
             Calling(t) \/ Locking(t) \/ Working(t)
      PROVE  LockInv'
  <2> USE <1>2, CLibAssumption DEF TypeOK, LockInv, InRegistry, InInstance, InEngine,
        Reading, NoWriter, registry, locks
  <2>1. CASE CallGrammar(t)
    BY <2>1 DEF CallGrammar, Goto, Calls, Sets, Reply
  <2>2. CASE CallParse(t)
    BY <2>2 DEF CallParse, Goto, Calls, Sets, Reply
  <2>3. CASE CallFree(t)
    BY <2>3 DEF CallFree, Goto, Calls, Sets, Reply
  <2>4. CASE RegLock(t)
    BY <2>4 DEF RegLock, Goto
  <2>5. CASE RegRLock(t)
    BY <2>5 DEF RegRLock, Goto
  <2>6. CASE LockInstance(t)
    BY <2>6 DEF LockInstance, Goto
  <2>7. CASE LockShared(t)
    BY <2>7 DEF LockShared, Goto
  <2>8. CASE Usage(t)
    BY <2>8 DEF Usage, Goto
  <2>9. CASE Checked(t)
    BY <2>9 DEF Checked, Goto
  <2>10. CASE Increment(t)
    BY <2>10 DEF Increment, Goto
  <2>11. CASE Store(t)
    BY <2>11 DEF Store, Goto
  <2>12. CASE Delete(t)
    BY <2>12 DEF Delete, Goto
  <2>13. CASE RegUnlock(t)
    BY <2>13 DEF RegUnlock, Goto
  <2>14. CASE Lookup(t)
    BY <2>14 DEF Lookup, Goto
  <2>15. CASE RegRUnlock(t)
    BY <2>15 DEF RegRUnlock, Goto
  <2>16. CASE Parse(t)
    BY <2>16 DEF Parse, Goto
  <2>17. CASE UnlockShared(t)
    BY <2>17 DEF UnlockShared, Goto
  <2>18. CASE UnlockInstance(t)
    BY <2>18 DEF UnlockInstance, Goto
  <2>19. CASE Return(t)
    BY <2>19 DEF Return, Goto, NoCall
  <2>20. CASE RegDrained(t)
    BY <2>20 DEF RegDrained, Goto
  <2>21. QED
    BY <1>2, <2>20, <2>1, <2>2, <2>3, <2>4, <2>5, <2>6, <2>7, <2>8, <2>9, <2>10, <2>11, <2>12, <2>13, <2>14, <2>15, <2>16, <2>17, <2>18, <2>19
       DEF Calling, Locking, Working
<1>3. TypeOK /\ LockInv /\ [Next]_vars => LockInv'
  BY <1>2 DEF Next, LockInv, vars, registry, locks
<1>4. QED
  BY <1>1, <1>3, TypeCorrect, PTL DEF Spec

(* HandleInv is inductive under TypeOK and LockInv: between nextID++ and   *)
(* the map update no other thread writes the registry.                     *)
THEOREM HandlesFollowCounter == Spec => []HandleInv
<1>1. Init => HandleInv
  BY DEF Init, HandleInv, HandlesDistinct, Reply, InInstance, InEngine
<1>2. ASSUME TypeOK, LockInv, HandleInv, NEW t \in Threads,
             Calling(t) \/ Locking(t) \/ Working(t)
      PROVE  HandleInv'
  <2> USE <1>2, CLibAssumption DEF TypeOK, LockInv, HandleInv, HandlesDistinct,
        InRegistry, InInstance, InEngine, registry, locks
  <2>1. CASE CallGrammar(t)
    BY <2>1 DEF CallGrammar, Goto, Calls, Sets, Reply
  <2>2. CASE CallParse(t)
    BY <2>2 DEF CallParse, Goto, Calls, Sets, Reply
  <2>3. CASE CallFree(t)
    BY <2>3 DEF CallFree, Goto, Calls, Sets, Reply
  <2>4. CASE RegLock(t)
    BY <2>4 DEF RegLock, Goto
  <2>5. CASE RegRLock(t)
    BY <2>5 DEF RegRLock, Goto
  <2>6. CASE LockInstance(t)
    BY <2>6 DEF LockInstance, Goto
  <2>7. CASE LockShared(t)
    BY <2>7 DEF LockShared, Goto
  <2>8. CASE Usage(t)
    BY <2>8 DEF Usage, Goto, Sets, Reply
  <2>9. CASE Checked(t)
    BY <2>9 DEF Checked, Goto
  <2>10. CASE Increment(t)
    BY <2>10 DEF Increment, Goto
  <2>11. CASE Store(t)
    BY <2>11 DEF Store, Goto, Sets, Reply
  <2>12. CASE Delete(t)
    BY <2>12 DEF Delete, Goto, Sets, Reply
  <2>13. CASE RegUnlock(t)
    BY <2>13 DEF RegUnlock, Goto
  <2>14. CASE Lookup(t)
    <3>1. CASE call[t].handle \in loaded
      BY <2>14, <3>1 DEF Lookup, Goto, Sets, Reply
    <3>2. CASE ~(call[t].handle \in loaded)
      <4>1. /\ pc[t] = "lookup" /\ pc' = [pc EXCEPT ![t] = "miss"]
            /\ result' = [result EXCEPT ![t] = [code |-> "unknown", handle |-> 0]]
            /\ UNCHANGED <<call, registry, locks>>
        BY <2>14, <3>2 DEF Lookup, Goto, Sets, Reply
      <4>2. QED
        BY <4>1
    <3>3. QED
      BY <3>1, <3>2
  <2>15. CASE RegRUnlock(t)
    BY <2>15 DEF RegRUnlock, Goto
  <2>16. CASE Parse(t)
    BY <2>16 DEF Parse, Goto, Sets, Reply
  <2>17. CASE UnlockShared(t)
    BY <2>17 DEF UnlockShared, Goto
  <2>18. CASE UnlockInstance(t)
    BY <2>18 DEF UnlockInstance, Goto
  <2>19. CASE Return(t)
    BY <2>19 DEF Return, Goto, NoCall
  <2>20. CASE RegDrained(t)
    <3>1. CASE call[t].op = "grammar"
      BY <2>20, <3>1 DEF RegDrained, Goto
    <3>2. CASE ~(call[t].op = "grammar")
      BY <2>20, <3>2 DEF RegDrained, Goto
    <3>3. QED
      BY <3>1, <3>2
  <2>21. QED
    BY <1>2, <2>20, <2>1, <2>2, <2>3, <2>4, <2>5, <2>6, <2>7, <2>8, <2>9, <2>10, <2>11, <2>12, <2>13, <2>14, <2>15, <2>16, <2>17, <2>18, <2>19
       DEF Calling, Locking, Working
<1>3. TypeOK /\ LockInv /\ HandleInv /\ [Next]_vars => HandleInv'
  BY <1>2 DEF Next, HandleInv, HandlesDistinct, vars, registry, locks
<1>4. QED
  BY <1>1, <1>3, TypeCorrect, LocksFollowCalls, PTL DEF Spec

-----------------------------------------------------------------------------
(* The package-wide engine of ParseAbnf never serves two threads at once.  *)
THEOREM EngineIsExclusive == Spec => []EngineExclusive
<1>1. LockInv => EngineExclusive
  BY DEF LockInv, EngineExclusive
<1>2. QED
  BY <1>1, LocksFollowCalls, PTL

(* A writer of the registry of core.go is alone: no writer, no reader.     *)
THEOREM RegistryIsExclusive == Spec => []RegistryExclusive
<1>1. LockInv => RegistryExclusive
  BY CLibAssumption DEF LockInv, RegistryExclusive
<1>2. QED
  BY <1>1, LocksFollowCalls, PTL

(* No lock of the registry is held together with an instance's or the      *)
(* engine's, and a call that has returned holds none.                      *)
THEOREM LocksAreDisciplined == Spec => []LockDiscipline
<1>1. TypeOK /\ LockInv /\ HandleInv => LockDiscipline
  BY DEF TypeOK, LockInv, HandleInv, LockDiscipline, InRegistry, Reading, InEngine, InInstance
<1>2. QED
  BY <1>1, TypeCorrect, LocksFollowCalls, HandlesFollowCounter, PTL

(* Two answered calls of tabnas_grammar never carry the same handle.       *)
THEOREM HandlesAreDistinct == Spec => []HandlesDistinct
<1>1. HandleInv => HandlesDistinct
  BY DEF HandleInv
<1>2. QED
  BY <1>1, HandlesFollowCounter, PTL

(* A handle, once freed, is unknown for ever: only a store adds to the     *)
(* registry, and the handle it stores was never issued.                    *)
THEOREM HandlesNeverReissued == Spec => NeverReissued
<1> DEFINE Reissues == \A h \in issued : h \in loaded' => h \in loaded
<1>1. ASSUME TypeOK, HandleInv, NEW t \in Threads,
             Calling(t) \/ Locking(t) \/ Working(t)
      PROVE  Reissues
  <2>1. CASE Store(t)
    BY <1>1, <2>1 DEF Store, Goto, HandleInv
  <2>2. CASE Delete(t)
    BY <1>1, <2>2 DEF Delete
  <2>3. CASE Increment(t)
    BY <1>1, <2>3 DEF Increment
  <2>4. CASE ~(Store(t) \/ Delete(t) \/ Increment(t))
    <3>1. UNCHANGED registry
      BY <1>1, <2>4 DEF Calling, Locking, Working, CallGrammar, CallParse, CallFree,
         Calls, RegLock, RegDrained, RegRLock, LockInstance, LockShared, Usage, Checked, RegUnlock,
         Lookup, RegRUnlock, Parse, UnlockShared, UnlockInstance, Return
    <3>2. QED
      BY <3>1 DEF registry
  <2>5. QED
    BY <2>1, <2>2, <2>3, <2>4
<1>2. TypeOK /\ HandleInv /\ [Next]_vars => [Reissues]_vars
  BY <1>1 DEF Next
<1>3. QED
  BY <1>2, TypeCorrect, HandlesFollowCounter, PTL DEF Spec, NeverReissued

-----------------------------------------------------------------------------
(***************************************************************************)
(* The library implements the table of parsers its callers may assume:     *)
(* every step of a call is a step of Registry or none.                     *)
(***************************************************************************)
\* Where a thread is in its call says which operation it runs and whether
\* its reply is decided.
CallInv == \A t \in Threads :
  /\ pc[t] \in {"options", "nextID++", "store"} => call[t].op = "grammar"
  /\ pc[t] = "delete" => call[t].op = "free"
  /\ pc[t] \in {"reg.Lock", "reg.Drain"} => call[t].op \in {"grammar", "free"}
  /\ pc[t] \in {"source", "reg.RLock", "lookup"} => call[t].op = "parse"
  /\ pc[t] \in {"options", "source", "reg.Lock", "reg.Drain", "reg.RLock",
                "nextID++", "store", "delete", "lookup"} => result[t].code = "none"
  /\ pc[t] \in {"reg.Unlock", "miss", "sharedMu.Unlock", "mu.Unlock", "return"}
       => result[t].code # "none"

\* A load that has begun has its number reserved.
LoadInv == nextID + Cardinality(Loading) <= MaxLoads

-----------------------------------------------------------------------------
(* CallInv is inductive under TypeOK: each call goes through the steps of  *)
(* its own operation, and its reply is set at one of them.                 *)
THEOREM CallsKeepTheirStage == Spec => []CallInv
<1>1. Init => CallInv
  BY DEF Init, CallInv, NoCall, Reply
<1>2. ASSUME TypeOK, CallInv, NEW t \in Threads, Calling(t) \/ Locking(t) \/ Working(t)
      PROVE  CallInv'
  <2> USE <1>2 DEF TypeOK, CallInv, Goto, Sets, Reply
  <2>1. CASE CallGrammar(t)
    BY <2>1 DEF CallGrammar, Calls
  <2>2. CASE CallParse(t)
    BY <2>2 DEF CallParse, Calls
  <2>3. CASE CallFree(t)
    BY <2>3 DEF CallFree, Calls
  <2>4. CASE RegLock(t)
    BY <2>4 DEF RegLock
  <2>5. CASE RegRLock(t)
    BY <2>5 DEF RegRLock
  <2>6. CASE LockInstance(t)
    BY <2>6 DEF LockInstance
  <2>7. CASE LockShared(t)
    BY <2>7 DEF LockShared
  <2>8. CASE Usage(t)
    BY <2>8 DEF Usage
  <2>9. CASE Checked(t)
    BY <2>9 DEF Checked
  <2>10. CASE RegDrained(t)
    BY <2>10 DEF RegDrained
  <2>11. CASE Increment(t)
    BY <2>11 DEF Increment
  <2>12. CASE Store(t)
    BY <2>12 DEF Store
  <2>13. CASE Delete(t)
    BY <2>13 DEF Delete
  <2>14. CASE RegUnlock(t)
    BY <2>14 DEF RegUnlock
  <2>15. CASE Lookup(t)
    BY <2>15 DEF Lookup
  <2>16. CASE RegRUnlock(t)
    BY <2>16 DEF RegRUnlock
  <2>17. CASE Parse(t)
    BY <2>17 DEF Parse
  <2>18. CASE UnlockShared(t)
    BY <2>18 DEF UnlockShared
  <2>19. CASE UnlockInstance(t)
    BY <2>19 DEF UnlockInstance
  <2>20. CASE Return(t)
    BY <2>20 DEF Return
  <2>21. QED
    BY <1>2, <2>1, <2>2, <2>3, <2>4, <2>5, <2>6, <2>7, <2>8, <2>9, <2>10, <2>11, <2>12,
       <2>13, <2>14, <2>15, <2>16, <2>17, <2>18, <2>19, <2>20 DEF Calling, Locking, Working
<1>3. TypeOK /\ CallInv /\ [Next]_vars => CallInv'
  BY <1>2 DEF Next, CallInv, vars
<1>4. QED
  BY <1>1, <1>3, TypeCorrect, PTL DEF Spec

(* LoadInv is inductive under TypeOK and CallInv: tabnas_grammar begins    *)
(* only where a number is left for it, and takes it with nextID++.         *)
THEOREM LoadsAreBounded == Spec => []LoadInv
<1>1. IsFiniteSet(Loading) /\ Cardinality(Loading) \in Nat
  BY CLibAssumption, FS_Subset, FS_CardinalityType DEF Loading
<1>2. ASSUME TypeOK, LoadInv, NEW t \in Threads, CallGrammar(t)
      PROVE  LoadInv'
  <2>1. Loading' = Loading \union {t} /\ t \notin Loading
    BY <1>2 DEF CallGrammar, Calls, Goto, Loading, TypeOK
  <2>2. Cardinality(Loading') = Cardinality(Loading) + 1
    BY <1>1, <2>1, FS_AddElement
  <2>3. nextID' = nextID /\ nextID + Cardinality(Loading) < MaxLoads
    BY <1>2 DEF CallGrammar, Calls, registry
  <2>4. QED
    BY <1>1, <1>2, <2>2, <2>3, CLibAssumption DEF LoadInv, TypeOK
<1>3. ASSUME TypeOK, CallInv, LoadInv, NEW t \in Threads, Increment(t)
      PROVE  LoadInv'
  <2>1. Loading' = Loading \ {t} /\ t \in Loading
    BY <1>3 DEF Increment, Goto, Loading, CallInv, TypeOK
  <2>2. Cardinality(Loading') = Cardinality(Loading) - 1
    BY <1>1, <2>1, FS_RemoveElement
  <2>3. nextID' = nextID + 1
    BY <1>3 DEF Increment
  <2>4. QED
    BY <1>1, <1>3, <2>2, <2>3, CLibAssumption DEF LoadInv, TypeOK
<1>4. ASSUME LoadInv, TypeOK, Loading' \subseteq Loading, nextID' = nextID
      PROVE  LoadInv'
  <2>1. Cardinality(Loading') <= Cardinality(Loading) /\ Cardinality(Loading') \in Nat
    BY <1>1, <1>4, FS_Subset, FS_CardinalityType
  <2>2. QED
    BY <1>1, <1>4, <2>1, CLibAssumption DEF LoadInv, TypeOK
<1>5. ASSUME TypeOK, LoadInv, NEW t \in Threads, Calling(t) \/ Locking(t) \/ Working(t),
             ~CallGrammar(t), ~Increment(t)
      PROVE  LoadInv'
  <2>1. nextID' = nextID
    BY <1>5 DEF Calling, Locking, Working, CallParse, CallFree, Calls, RegLock, RegRLock,
       LockInstance, LockShared, Usage, Checked, RegDrained, Store, Delete, RegUnlock, Lookup,
       RegRUnlock, Parse, UnlockShared, UnlockInstance, Return, registry
  <2>2. Loading' \subseteq Loading
    <3> USE <1>5 DEF Loading, TypeOK, Goto
    <3>1. CASE Calling(t)
      BY <3>1 DEF Calling, CallParse, CallFree, Calls
    <3>2. CASE Locking(t)
      BY <3>2 DEF Locking, RegLock, RegRLock, LockInstance, LockShared
    <3>3. CASE Working(t)
      BY <3>3 DEF Working, Usage, Checked, RegDrained, Store, Delete, RegUnlock, Lookup,
         RegRUnlock, Parse, UnlockShared, UnlockInstance, Return, NoCall
    <3>4. QED
      BY <3>1, <3>2, <3>3
  <2>3. QED
    BY <1>4, <1>5, <2>1, <2>2
<1>6. Init => LoadInv
  <2>1. ASSUME Init PROVE Loading = {} /\ nextID = 0
    BY <2>1 DEF Init, Loading
  <2>2. QED
    BY <2>1, FS_EmptySet, CLibAssumption DEF LoadInv
<1>7. TypeOK /\ CallInv /\ LoadInv /\ [Next]_vars => LoadInv'
  <2>1. ASSUME UNCHANGED vars, TypeOK, LoadInv PROVE LoadInv'
    BY <1>4, <2>1 DEF vars, registry, Loading
  <2>2. QED
    BY <1>2, <1>3, <1>5, <2>1 DEF Next
<1>8. QED
  BY <1>6, <1>7, TypeCorrect, CallsKeepTheirStage, PTL DEF Spec

-----------------------------------------------------------------------------
Stages == [u \in Threads |-> Stage(u)]

(* A step of one thread moves no other thread's stage, and its own only    *)
(* with its reply or past a few labels.                                    *)
LEMMA OthersStay ==
  ASSUME NEW t \in Threads,
         \A u \in Threads \ {t} : pc'[u] = pc[u] /\ result'[u] = result[u]
  PROVE  Stages' = [Stages EXCEPT ![t] = Stage(t)']
BY DEF Stages, Stage

(* A call that keeps its stage and its reply, and leaves the registry      *)
(* alone, does nothing its caller could see.                               *)
LEMMA Unseen ==
  ASSUME NEW t \in Threads,
         \A u \in Threads \ {t} : pc'[u] = pc[u],
         Stage(t)' = Stage(t), UNCHANGED <<loaded, issued, call, result>>
  PROVE  UNCHANGED Abstract!vars
<1>1. Stages' = Stages
  BY OthersStay DEF Stages
<1>2. QED
  BY <1>1 DEF Abstract!vars, Stages

(* The C library implements its registry: loads, frees and parses take     *)
(* effect at one instant each, between their call and their return, for    *)
(* any threads and any number of loads (core.go, tabnas_c.go).             *)
THEOREM RegistryIsImplemented == Spec => Linearizable
<1>1. Init => Abstract!Init
  BY DEF Init, Abstract!Init, Stage, NoCall, Abstract!NoCall, Reply, Abstract!Reply
<1>2. ASSUME TypeOK, CallInv, HandleInv, LoadInv, NEW t \in Threads,
             Calling(t) \/ Locking(t) \/ Working(t)
      PROVE  Abstract!Next \/ UNCHANGED Abstract!vars
  <2> USE <1>2 DEF TypeOK, CallInv, Goto, registry, locks
  <2>1. CASE Calling(t)
    <3>1. PICK op \in {"grammar", "parse", "free"}, h \in Handles \union (0 .. MaxLoads) :
             /\ pc[t] = "idle"
             /\ call' = [call EXCEPT ![t] = [op |-> op, handle |-> h]]
             /\ result' = [result EXCEPT ![t] = Reply("none", 0)]
             /\ UNCHANGED <<loaded, issued>>
             /\ pc' = [pc EXCEPT ![t] = "options"] \/ pc' = [pc EXCEPT ![t] = "source"]
                  \/ pc' = [pc EXCEPT ![t] = "reg.Lock"]
      BY <2>1, CLibAssumption DEF Calling, CallGrammar, CallParse, CallFree, Calls, Sets
    <3>2. Stage(t) = "idle" /\ Stage(t)' = "called"
      BY <3>1 DEF Stage, Reply
    <3>3. Stages' = [Stages EXCEPT ![t] = "called"]
      BY <3>1, <3>2, OthersStay
    <3>4. Abstract!Invoke(t)
      BY <3>1, <3>2, <3>3 DEF Abstract!Invoke, Abstract!Reply, Reply, Stages
    <3>5. QED
      BY <3>4 DEF Abstract!Next
  <2>2. CASE Usage(t)
    <3>1. Stage(t) = "called" /\ Stage(t)' = "decided"
      BY <2>2 DEF Usage, Sets, Stage, Reply
    <3>2. Stages' = [Stages EXCEPT ![t] = "decided"]
      BY <2>2, <3>1, OthersStay DEF Usage, Sets
    <3>3. Abstract!Refuse(t)
      BY <2>2, <3>1, <3>2
         DEF Usage, Sets, Abstract!Refuse, Abstract!Decide, Abstract!Reply, Reply, Stages
    <3>4. QED
      BY <3>3 DEF Abstract!Next
  <2>3. CASE Store(t)
    <3>1. Stage(t) = "called" /\ Stage(t)' = "decided"
      BY <2>3 DEF Store, Sets, Stage, Reply
    <3>2. Stages' = [Stages EXCEPT ![t] = "decided"]
      BY <2>3, <3>1, OthersStay DEF Store, Sets
    <3>3. nextID \in 0 .. MaxLoads
      <4>1. Cardinality(Loading) \in Nat
        BY CLibAssumption, FS_Subset, FS_CardinalityType DEF Loading
      <4>2. QED
        BY <4>1, CLibAssumption DEF LoadInv
    <3>4. Abstract!Load(t)
      BY <2>3, <3>1, <3>2, <3>3
         DEF Store, Sets, HandleInv, Abstract!Load, Abstract!Decide, Abstract!Reply, Reply, Stages
    <3>5. QED
      BY <3>4 DEF Abstract!Next
  <2>4. CASE Delete(t)
    <3>1. Stage(t) = "called" /\ Stage(t)' = "decided"
      BY <2>4 DEF Delete, Sets, Stage, Reply
    <3>2. Stages' = [Stages EXCEPT ![t] = "decided"]
      BY <2>4, <3>1, OthersStay DEF Delete, Sets
    <3>3. Abstract!Free(t)
      BY <2>4, <3>1, <3>2
         DEF Delete, Sets, Abstract!Free, Abstract!Decide, Abstract!Reply, Reply, Stages
    <3>4. QED
      BY <3>3 DEF Abstract!Next
  <2>5. CASE Lookup(t) /\ call[t].handle \in loaded
    <3>1. Stage(t) = "called" /\ Stage(t)' = "found"
      BY <2>5 DEF Lookup, Stage
    <3>2. Stages' = [Stages EXCEPT ![t] = "found"]
      BY <2>5, <3>1, OthersStay DEF Lookup
    <3>3. Abstract!Find(t)
      BY <2>5, <3>1, <3>2 DEF Lookup, Abstract!Find, Stages
    <3>4. QED
      BY <3>3 DEF Abstract!Next
  <2>6. CASE Lookup(t) /\ call[t].handle \notin loaded
    <3>1. Stage(t) = "called" /\ Stage(t)' = "decided"
      BY <2>6 DEF Lookup, Sets, Stage, Reply
    <3>2. Stages' = [Stages EXCEPT ![t] = "decided"]
      BY <2>6, <3>1, OthersStay DEF Lookup, Sets
    <3>3. Abstract!NotLoaded(t)
      BY <2>6, <3>1, <3>2
         DEF Lookup, Sets, Abstract!NotLoaded, Abstract!Decide, Abstract!Reply, Reply, Stages
    <3>4. QED
      BY <3>3 DEF Abstract!Next
  <2>7. CASE Parse(t)
    <3>1. Stage(t) = "found" /\ Stage(t)' = "decided"
      BY <2>7 DEF Parse, Sets, Stage, Reply
    <3>2. Stages' = [Stages EXCEPT ![t] = "decided"]
      BY <2>7, <3>1, OthersStay DEF Parse, Sets
    <3>3. Abstract!Answer(t)
      BY <2>7, <3>1, <3>2
         DEF Parse, Sets, Abstract!Answer, Abstract!Decide, Abstract!Reply, Reply, Stages
    <3>4. QED
      BY <3>3 DEF Abstract!Next
  <2>8. CASE Return(t)
    <3>1. Stage(t) = "decided" /\ Stage(t)' = "idle"
      BY <2>8 DEF Return, Stage
    <3>2. Stages' = [Stages EXCEPT ![t] = "idle"]
      BY <2>8, <3>1, OthersStay DEF Return
    <3>3. Abstract!Return(t)
      BY <2>8, <3>1, <3>2 DEF Return, Abstract!Return, Abstract!NoCall, NoCall, Stages
    <3>4. QED
      BY <3>3 DEF Abstract!Next
  <2>9. CASE Locking(t)
    <3>1. /\ \A u \in Threads \ {t} : pc'[u] = pc[u]
          /\ UNCHANGED <<loaded, issued, call, result>>
      BY <2>9 DEF Locking, RegLock, RegRLock, LockInstance, LockShared
    <3>2. Stage(t)' = Stage(t)
      BY <2>9, <3>1 DEF Locking, RegLock, RegRLock, LockInstance, LockShared, Stage
    <3>3. QED
      BY <3>1, <3>2, Unseen
  <2>10. CASE Checked(t) \/ RegDrained(t) \/ Increment(t) \/ RegUnlock(t) \/ RegRUnlock(t)
                \/ UnlockShared(t) \/ UnlockInstance(t)
    <3>1. /\ \A u \in Threads \ {t} : pc'[u] = pc[u]
          /\ UNCHANGED <<loaded, issued, call, result>>
      BY <2>10 DEF Checked, RegDrained, Increment, RegUnlock, RegRUnlock, UnlockShared, UnlockInstance
    <3>2. Stage(t)' = Stage(t)
      BY <2>10, <3>1
         DEF Checked, RegDrained, Increment, RegUnlock, RegRUnlock, UnlockShared, UnlockInstance, Stage
    <3>3. QED
      BY <3>1, <3>2, Unseen
  <2>11. QED
    BY <2>1, <2>2, <2>3, <2>4, <2>5, <2>6, <2>7, <2>8, <2>9, <2>10 DEF Working
<1>3. TypeOK /\ CallInv /\ HandleInv /\ LoadInv /\ [Next]_vars
        => [Abstract!Next]_(Abstract!vars)
  <2>1. ASSUME UNCHANGED vars PROVE UNCHANGED Abstract!vars
    BY <2>1 DEF vars, registry, Abstract!vars, Stage
  <2>2. QED
    BY <1>2, <2>1 DEF Next
<1>4. QED
  BY <1>1, <1>3, TypeCorrect, CallsKeepTheirStage, HandlesFollowCounter, LoadsAreBounded, PTL
     DEF Spec, Linearizable, Abstract!Spec
=============================================================================
