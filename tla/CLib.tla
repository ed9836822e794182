-------------------------------- MODULE CLib --------------------------------
(***************************************************************************)
(* The C library of the Go port (go/clib/core.go, tabnas_c.go): threads of *)
(* the host call tabnas_grammar, tabnas_parse and tabnas_grammar_free on a *)
(* registry of parsers.  Every parser drives one package-wide engine.      *)
(* Three kinds of locks guard them: reg, a readers-writer lock on the      *)
(* registry; one mutex per instance; sharedMu around the engine.           *)
(*                                                                         *)
(* An instance is known by its handle.  A step that touches shared memory  *)
(* is an action of its own, so that a lock not taken would show.           *)
(***************************************************************************)
EXTENDS Naturals, FiniteSets

CONSTANTS
  Threads,      (* threads of the host                                  *)
  Handles,      (* handles a caller may pass, issued ones or not        *)
  MaxLoads,     (* bound: calls of tabnas_grammar that store a parser   *)
  None          (* no thread                                            *)

ASSUME CLibAssumption ==
  /\ Handles \subseteq Nat /\ MaxLoads \in Nat
  /\ None \notin Threads /\ IsFiniteSet(Threads)

VARIABLES
  pc,           (* per thread: where it is in its call                  *)
  call,         (* per thread: the operation and its handle argument    *)
  result,       (* per thread: the reply document, [code, handle]       *)
  nextID, loaded,           (* the registry                             *)
  writer, readers,          (* reg: its writer or None, its readers     *)
  mu,           (* per thread: the instance whose mutex it holds, or 0  *)
  sharedMu,     (* the holder of sharedMu, or None                      *)
  issued        (* history: the handles stored so far                   *)

registry == <<nextID, loaded, issued>>
locks    == <<writer, readers, mu, sharedMu>>
vars     == <<pc, call, result, registry, locks>>

Reply(code, handle) == [code |-> code, handle |-> handle]

NoCall == [op |-> "none", handle |-> 0]

Goto(t, from, to) == pc[t] = from /\ pc' = [pc EXCEPT ![t] = to]

Sets(t, code, handle) == result' = [result EXCEPT ![t] = Reply(code, handle)]

Init ==
  /\ pc = [t \in Threads |-> "idle"]
  /\ call = [t \in Threads |-> NoCall]
  /\ result = [t \in Threads |-> Reply("none", 0)]
  /\ nextID = 0 /\ loaded = {} /\ issued = {}
  /\ writer = None /\ readers = {}
  /\ mu = [t \in Threads |-> 0] /\ sharedMu = None

-----------------------------------------------------------------------------
(* Calls.                                                                  *)

Calls(t, op, h, to) ==
  /\ Goto(t, "idle", to)
  /\ call' = [call EXCEPT ![t] = [op |-> op, handle |-> h]]
  /\ Sets(t, "none", 0)
  /\ UNCHANGED <<registry, locks>>

Loading == {t \in Threads : /\ call[t].op = "grammar"
                            /\ pc[t] \in {"options", "reg.Lock", "reg.Drain", "nextID++"}}

CallGrammar(t) == /\ nextID + Cardinality(Loading) < MaxLoads
                  /\ Calls(t, "grammar", 0, "options")
CallParse(t)   == \E h \in Handles : Calls(t, "parse", h, "source")
CallFree(t)    == \E h \in Handles : Calls(t, "free", h, "reg.Lock")

\* A bad pointer or length, or options that are not empty: a usage error.
Usage(t) ==
  /\ \E from \in {"options", "source"} : Goto(t, from, "return")
  /\ Sets(t, "usage", 0)
  /\ UNCHANGED <<call, registry, locks>>

\* The arguments are taken; the construct of this library cannot fail.
Checked(t) ==
  /\ \/ Goto(t, "options", "reg.Lock")
     \/ Goto(t, "source", "reg.RLock")
  /\ UNCHANGED <<call, result, registry, locks>>

-----------------------------------------------------------------------------
(* loadGrammar and freeGrammar: under reg.Lock.                            *)

\* Mutant: a writer only waits for the readers.
NoWriter_Any == TRUE

NoWriter == writer = None

\* sync.RWMutex: a writer goes after the one before it, keeps new readers out
\* from there on, and waits for those that are in.
RegLock(t) ==
  /\ NoWriter
  /\ Goto(t, "reg.Lock", "reg.Drain")
  /\ writer' = t
  /\ UNCHANGED <<call, result, registry, readers, mu, sharedMu>>

RegDrained(t) ==
  /\ readers = {}
  /\ Goto(t, "reg.Drain", IF call[t].op = "grammar" THEN "nextID++" ELSE "delete")
  /\ UNCHANGED <<call, result, registry, locks>>

Increment(t) ==
  /\ Goto(t, "nextID++", "store")
  /\ nextID' = nextID + 1
  /\ UNCHANGED <<call, result, loaded, issued, locks>>

Store(t) ==
  /\ Goto(t, "store", "reg.Unlock")
  /\ loaded' = loaded \union {nextID}
  /\ issued' = issued \union {nextID}
  /\ Sets(t, "handle", nextID)
  /\ UNCHANGED <<call, nextID, locks>>

\* Mutants: the number is given back; the newest parser is dropped.
Delete_GivesBack(t) ==
  /\ Goto(t, "delete", "reg.Unlock")
  /\ loaded' = loaded \ {call[t].handle}
  /\ nextID' = nextID - 1
  /\ Sets(t, "freed", 0)
  /\ UNCHANGED <<call, issued, locks>>
Delete_Newest(t) ==
  /\ Goto(t, "delete", "reg.Unlock")
  /\ loaded' = loaded \ {nextID}
  /\ Sets(t, "freed", 0)
  /\ UNCHANGED <<call, nextID, issued, locks>>

Delete(t) ==
  /\ Goto(t, "delete", "reg.Unlock")
  /\ loaded' = loaded \ {call[t].handle}
  /\ Sets(t, "freed", 0)
  /\ UNCHANGED <<call, nextID, issued, locks>>

RegUnlock(t) ==
  /\ Goto(t, "reg.Unlock", "return")
  /\ writer' = None
  /\ UNCHANGED <<call, result, registry, readers, mu, sharedMu>>

-----------------------------------------------------------------------------
(* parseWith.                                                              *)

RegRLock(t) ==
  /\ writer = None
  /\ Goto(t, "reg.RLock", "lookup")
  /\ readers' = readers \union {t}
  /\ UNCHANGED <<call, result, registry, writer, mu, sharedMu>>

Lookup(t) ==
  /\ IF call[t].handle \in loaded
     THEN Goto(t, "lookup", "hit") /\ UNCHANGED result
     ELSE Goto(t, "lookup", "miss") /\ Sets(t, "unknown", 0)
  /\ UNCHANGED <<call, registry, locks>>

\* Mutant: an unknown handle is answered with reg still held.
RegRUnlock_HitOnly(t) ==
  /\ \/ Goto(t, "hit", "mu.Lock") /\ readers' = readers \ {t}
     \/ Goto(t, "miss", "return") /\ UNCHANGED readers
  /\ UNCHANGED <<call, result, registry, writer, mu, sharedMu>>

RegRUnlock(t) ==
  /\ \/ Goto(t, "hit", "mu.Lock")
     \/ Goto(t, "miss", "return")
  /\ readers' = readers \ {t}
  /\ UNCHANGED <<call, result, registry, writer, mu, sharedMu>>

LockInstance(t) ==
  /\ \A u \in Threads : mu[u] # call[t].handle
  /\ Goto(t, "mu.Lock", "sharedMu.Lock")
  /\ mu' = [mu EXCEPT ![t] = call[t].handle]
  /\ UNCHANGED <<call, result, registry, writer, readers, sharedMu>>

\* Mutant: the engine is entered under the instance's mutex alone.
LockShared_Missing(t) ==
  /\ Goto(t, "sharedMu.Lock", "engine")
  /\ sharedMu' = t
  /\ UNCHANGED <<call, result, registry, writer, readers, mu>>

LockShared(t) ==
  /\ sharedMu = None
  /\ Goto(t, "sharedMu.Lock", "engine")
  /\ sharedMu' = t
  /\ UNCHANGED <<call, result, registry, writer, readers, mu>>

\* The engine returns, or panics and the deferred handlers run: either way
\* sharedMu is unlocked on the way out.
Parse(t) ==
  /\ Goto(t, "engine", "sharedMu.Unlock")
  /\ \E code \in {"accept", "reject", "internal"} : Sets(t, code, 0)
  /\ UNCHANGED <<call, registry, locks>>

\* Mutant: a panic skips the unlocking.
UnlockShared_NotDeferred(t) ==
  /\ Goto(t, "sharedMu.Unlock", "mu.Unlock")
  /\ sharedMu' = IF result[t].code = "internal" THEN sharedMu ELSE None
  /\ UNCHANGED <<call, result, registry, writer, readers, mu>>

UnlockShared(t) ==
  /\ Goto(t, "sharedMu.Unlock", "mu.Unlock")
  /\ sharedMu' = None
  /\ UNCHANGED <<call, result, registry, writer, readers, mu>>

UnlockInstance(t) ==
  /\ Goto(t, "mu.Unlock", "return")
  /\ mu' = [mu EXCEPT ![t] = 0]
  /\ UNCHANGED <<call, result, registry, writer, readers, sharedMu>>

Return(t) ==
  /\ Goto(t, "return", "idle")
  /\ call' = [call EXCEPT ![t] = NoCall]
  /\ UNCHANGED <<result, registry, locks>>

-----------------------------------------------------------------------------
Locking(t) == RegLock(t) \/ RegRLock(t) \/ LockInstance(t) \/ LockShared(t)

Working(t) ==
  \/ Usage(t) \/ Checked(t) \/ RegDrained(t)
  \/ Increment(t) \/ Store(t) \/ Delete(t) \/ RegUnlock(t)
  \/ Lookup(t) \/ RegRUnlock(t)
  \/ Parse(t) \/ UnlockShared(t) \/ UnlockInstance(t) \/ Return(t)

Calling(t) == CallGrammar(t) \/ CallParse(t) \/ CallFree(t)

Next == \E t \in Threads : Calling(t) \/ Locking(t) \/ Working(t)

Spec == Init /\ [][Next]_vars

(* The Go scheduler runs every runnable thread; sync.Mutex and sync.RWMutex *)
(* do not starve a waiter, be it a writer among writers or a reader.        *)
(* Callers are free never to call again.                                    *)
Fairness ==
  /\ \A t \in Threads : WF_vars(Working(t))
  /\ \A t \in Threads : SF_vars(Locking(t))

FairSpec == Spec /\ Fairness

-----------------------------------------------------------------------------
InRegistry == {"nextID++", "store", "delete", "reg.Unlock"}
InEngine   == {"engine", "sharedMu.Unlock"}
InInstance == InEngine \union {"sharedMu.Lock", "mu.Unlock"}
Reading    == {"lookup", "hit", "miss"}
PCs == {"idle", "options", "source", "reg.Lock", "reg.Drain", "reg.RLock", "mu.Lock", "return"}
         \union InRegistry \union InInstance \union Reading
Codes == {"none", "usage", "handle", "freed", "unknown", "accept", "reject", "internal"}

\* The types of the registry, the locks and the calls in progress.
TypeOK ==
  /\ pc \in [Threads -> PCs]
  /\ call \in [Threads -> [op : {"none", "grammar", "parse", "free"}, handle : Nat]]
  /\ result \in [Threads -> [code : Codes, handle : Nat]]
  /\ nextID \in Nat /\ loaded \in SUBSET Nat /\ issued \in SUBSET Nat
  /\ writer \in Threads \union {None} /\ readers \in SUBSET Threads
  /\ mu \in [Threads -> Nat] /\ sharedMu \in Threads \union {None}

\* The engine behind every handle is one package-wide parser: no two threads
\* are ever in it together, whatever handles they parse under.
EngineExclusive ==
  \A t, u \in Threads : pc[t] \in InEngine /\ pc[u] \in InEngine => t = u

\* The registry is written by one thread at a time and read by none then:
\* nextID++ and the map update of loadGrammar are one step to the others.
RegistryExclusive ==
  \A t, u \in Threads :
    pc[t] \in InRegistry /\ pc[u] \in InRegistry \union Reading => t = u

\* No two calls of tabnas_grammar are answered with the same handle.
HandlesDistinct ==
  \A t, u \in Threads :
    /\ result[t].code = "handle" /\ result[u].code = "handle"
    /\ result[t].handle = result[u].handle
    => t = u

\* A handle that was issued and freed never stands for a parser again.
NeverReissued == [][\A h \in issued : h \in loaded' => h \in loaded]_vars

\* The registry is never held while an instance or the engine is: a parse,
\* however long, delays no other call but parses.  A call that has returned
\* has left every lock, also when the engine panicked.
LockDiscipline ==
  \A t \in Threads :
    /\ writer = t \/ t \in readers => mu[t] = 0 /\ sharedMu # t
    /\ sharedMu = t => mu[t] = call[t].handle /\ mu[t] # 0
    /\ pc[t] \in {"idle", "return"} =>
         writer # t /\ t \notin readers /\ mu[t] = 0 /\ sharedMu # t

\* Every call returns.
EveryCallReturns == \A t \in Threads : pc[t] # "idle" ~> pc[t] = "idle"

\* The registry is linearizable: a load takes effect when it stores, a free
\* when it deletes and a parse when it looks its handle up, each between the
\* call and the return of its thread.
Stage(t) ==
  IF pc[t] = "idle" THEN "idle"
  ELSE IF pc[t] \in {"hit", "mu.Lock", "sharedMu.Lock", "engine"} THEN "found"
  ELSE IF result[t].code = "none" THEN "called" ELSE "decided"

Abstract == INSTANCE Registry WITH
  Handles <- Handles \union (0..MaxLoads), live <- loaded, used <- issued, stage <- [t \in Threads |-> Stage(t)]

Linearizable == Abstract!Spec
=============================================================================
