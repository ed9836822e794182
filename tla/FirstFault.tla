----------------------------- MODULE FirstFault -----------------------------
(***************************************************************************)
(* What a call of parseAbnf answers, as far as faults of the text go: the  *)
(* canonical converter (ts/src/converter.ts) throws at the first one, so   *)
(* it is the first fault of the text that the caller hears of, whatever    *)
(* other calls do at the same time.  Both ports go on reading after a      *)
(* numeric value out of range, and have to answer as if they had not.      *)
(***************************************************************************)
CONSTANTS
  Threads,       (* who calls                                             *)
  NumericFaults, (* the diagnostics of numeric values out of range        *)
  Refusals       (* what the engine may say when it refuses the text      *)

VARIABLES
  stage,    (* per thread: "idle", "reading"                              *)
  verdict,  (* per thread: the fault met, "clean" before                  *)
  answer    (* per thread: the answer to the last call                    *)

vars == <<stage, verdict, answer>>

Init ==
  /\ stage = [t \in Threads |-> "idle"]
  /\ verdict = [t \in Threads |-> "clean"]
  /\ answer = [t \in Threads |-> "none"]

Begin(t) ==
  /\ stage[t] = "idle"
  /\ stage' = [stage EXCEPT ![t] = "reading"]
  /\ verdict' = [verdict EXCEPT ![t] = "clean"]
  /\ answer' = [answer EXCEPT ![t] = "none"]

Fault(t) ==
  /\ stage[t] = "reading" /\ verdict[t] = "clean"
  /\ \E f \in NumericFaults \union Refusals : verdict' = [verdict EXCEPT ![t] = f]
  /\ UNCHANGED <<stage, answer>>

(* A text without a fault may still be refused by what comes after the      *)
(* parse ("later"), or have no production in it.                            *)
Answer(t) ==
  /\ stage[t] = "reading"
  /\ stage' = [stage EXCEPT ![t] = "idle"]
  /\ \E a \in IF verdict[t] = "clean" THEN {"grammar", "later", "no productions"}
              ELSE {verdict[t]} : answer' = [answer EXCEPT ![t] = a]
  /\ UNCHANGED verdict

(* The engine of a port breaks down, and the call unwinds. *)
Unwind(t) ==
  /\ stage[t] = "reading"
  /\ stage' = [stage EXCEPT ![t] = "idle"]
  /\ answer' = [answer EXCEPT ![t] = "panic"]
  /\ UNCHANGED verdict

Next == \E t \in Threads : Begin(t) \/ Fault(t) \/ Answer(t) \/ Unwind(t)
Spec == Init /\ [][Next]_vars
=============================================================================
