------------------------------- MODULE Faults -------------------------------
(***************************************************************************)
(* The two ports' ways of reporting the faults of a text, each against     *)
(* what the canonical converter answers (FirstFault): which port it is, is *)
(* chosen at the start.                                                    *)
(***************************************************************************)
EXTENDS Naturals, Sequences

CONSTANTS
  Threads, NumericFaults, Refusals,  (* as in FirstFault                   *)
  MaxItems,                          (* bound: what one text holds         *)
  MaxCalls                           (* bound: the calls of the process    *)

ASSUME FaultsAssumption ==
  /\ MaxItems \in Nat /\ MaxCalls \in Nat
  /\ NumericFaults \intersect Refusals = {}
  /\ {"none", "fine", "clean", "ok"} \intersect (NumericFaults \union Refusals) = {}

VARIABLES
  port,                                    (* "rust" or "go"               *)
  pc, text, answer, calls,                 (* of either                    *)
  slot, parsed, taken, parser, core,       (* RustFaults                   *)
  meta, recorders, err, engine             (* GoFaults                     *)

rustVars == <<slot, parsed, taken, parser, core>>
goVars == <<meta, recorders, err, engine>>
vars == <<port, pc, text, answer, calls, rustVars, goVars>>

Rust == INSTANCE RustFaults
Go == INSTANCE GoFaults

Init == port \in {"rust", "go"} /\ Rust!Init /\ Go!Init

RustSteps(t) == port = "rust" /\ Rust!Proceed(t) /\ UNCHANGED <<port, goVars>>
GoSteps(t) == port = "go" /\ Go!Proceed(t) /\ UNCHANGED <<port, rustVars>>

Next == \E t \in Threads :
  \/ port = "rust" /\ Rust!Call(t) /\ UNCHANGED <<port, goVars>>
  \/ port = "go" /\ Go!Call(t) /\ UNCHANGED <<port, rustVars>>
  \/ RustSteps(t) \/ GoSteps(t)

(* A thread in a call is not stopped by the scheduler for ever; the Go      *)
(* scheduler preempts, and stops no goroutine for ever.                     *)
FairSpec ==
  /\ Init /\ [][Next]_vars
  /\ \A t \in Threads : WF_vars(RustSteps(t) \/ GoSteps(t))

(* The first fault among what was read. *)
FirstOf(items) ==
  LET faults == {i \in DOMAIN items : items[i] # "fine"}
  IN IF faults = {} THEN "clean" ELSE items[CHOOSE i \in faults : \A j \in faults : i <= j]

Abstract == INSTANCE FirstFault WITH
  stage <- [t \in Threads |-> IF pc[t] = "idle" THEN "idle" ELSE "reading"],
  verdict <- [t \in Threads |-> FirstOf(text[t])]

\* Every call answers with the first fault of its own text, as the canonical
\* converter does: not with a later one, not with that of another thread's
\* call (on Go's shared engine), and not with one an earlier call left in the
\* Rust slot when it panicked (parse_abnf_raw, record_num_err, numErrRecorder).
FirstFaultWins == Abstract!Spec

\* Every call answers, also when it waits for the thread that builds the
\* core rules (core_rules) or the engine (abnfParserOnce), and whatever the
\* panics.
EveryCallAnswers == \A t \in Threads : (pc[t] # "idle") ~> (pc[t] = "idle")
=============================================================================
