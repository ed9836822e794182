---- MODULE MCCLib ----
EXTENDS CLib
CONSTANTS t1, t2, t3, none

ThreeThreads == {t1, t2, t3}

(* For the run on liveness: every parser has been loaded, two threads      *)
(* parse under them and the third frees handles, so that readers and a     *)
(* writer, and parses under one handle and under two, meet at every lock.  *)
LoadedInit ==
  /\ nextID = MaxLoads /\ loaded = 1..MaxLoads /\ issued = 1..MaxLoads
  /\ pc = [t \in Threads |-> "idle"]
  /\ call = [t \in Threads |-> NoCall]
  /\ result = [t \in Threads |-> Reply("none", 0)]
  /\ writer = None /\ readers = {}
  /\ mu = [t \in Threads |-> 0] /\ sharedMu = None

LoadedNext ==
  \E t \in Threads : \/ IF t = t3 THEN CallFree(t) ELSE CallParse(t)
                    \/ Locking(t) \/ Working(t)

LoadedSpec == LoadedInit /\ [][LoadedNext]_vars /\ Fairness
====
