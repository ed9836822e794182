------------------------------ MODULE Registry ------------------------------
(***************************************************************************)
(* What the C library promises its callers: a table of parsers behind      *)
(* integer handles, each operation taking effect at one instant between    *)
(* its call and its return.  A handle is never issued twice, a handle that *)
(* was freed is never found again, and a parse answers accept or reject,   *)
(* or reports that the engine failed.                                      *)
(***************************************************************************)
EXTENDS Naturals

CONSTANTS Threads, Handles

VARIABLES
  live,      (* the handles that stand for a parser               *)
  used,      (* the handles issued so far                         *)
  stage,     (* per thread: "idle", "called", "found", "decided"  *)
  call,      (* per thread: the operation and its handle argument *)
  result     (* per thread: the reply, [code, handle]             *)

vars == <<live, used, stage, call, result>>

NoCall == [op |-> "none", handle |-> 0]

Reply(code, handle) == [code |-> code, handle |-> handle]

Decide(t, from, code, handle) ==
  /\ stage[t] = from
  /\ stage' = [stage EXCEPT ![t] = "decided"]
  /\ result' = [result EXCEPT ![t] = Reply(code, handle)]
  /\ UNCHANGED call

Init ==
  /\ live = {} /\ used = {}
  /\ stage = [t \in Threads |-> "idle"]
  /\ call = [t \in Threads |-> NoCall]
  /\ result = [t \in Threads |-> Reply("none", 0)]

Invoke(t) ==
  /\ stage[t] = "idle"
  /\ \E op \in {"grammar", "parse", "free"}, h \in Handles :
       call' = [call EXCEPT ![t] = [op |-> op, handle |-> h]]
  /\ stage' = [stage EXCEPT ![t] = "called"]
  /\ result' = [result EXCEPT ![t] = Reply("none", 0)]
  /\ UNCHANGED <<live, used>>

Refuse(t) ==
  /\ call[t].op \in {"grammar", "parse"}
  /\ Decide(t, "called", "usage", 0)
  /\ UNCHANGED <<live, used>>

Load(t) ==
  /\ call[t].op = "grammar"
  /\ \E h \in Handles \ used : /\ live' = live \union {h}
                           /\ used' = used \union {h}
                           /\ Decide(t, "called", "handle", h)

Free(t) ==
  /\ call[t].op = "free"
  /\ Decide(t, "called", "freed", 0)
  /\ live' = live \ {call[t].handle}
  /\ UNCHANGED used

NotLoaded(t) ==
  /\ call[t].op = "parse" /\ call[t].handle \notin live
  /\ Decide(t, "called", "unknown", 0)
  /\ UNCHANGED <<live, used>>

Find(t) ==
  /\ call[t].op = "parse" /\ call[t].handle \in live
  /\ stage[t] = "called"
  /\ stage' = [stage EXCEPT ![t] = "found"]
  /\ UNCHANGED <<live, used, call, result>>

Answer(t) ==
  /\ \E code \in {"accept", "reject", "internal"} : Decide(t, "found", code, 0)
  /\ UNCHANGED <<live, used>>

Return(t) ==
  /\ stage[t] = "decided"
  /\ stage' = [stage EXCEPT ![t] = "idle"]
  /\ call' = [call EXCEPT ![t] = NoCall]
  /\ UNCHANGED <<live, used, result>>

Next == \E t \in Threads :
  \/ Invoke(t) \/ Refuse(t) \/ Load(t) \/ Free(t)
  \/ NotLoaded(t) \/ Find(t) \/ Answer(t) \/ Return(t)

Spec == Init /\ [][Next]_vars
=============================================================================
