----------------------------- MODULE RustFaults -----------------------------
(***************************************************************************)
(* How the Rust port reports faults (rs/src/parser_abnf.rs, converter.rs): *)
(* the action that decodes a numeric value records its diagnostic in a     *)
(* slot of the THREAD and lets the parse go on; parse_abnf clears the slot *)
(* before the parse and takes it after, whether or not the engine refused. *)
(* The parser and the core rules are built once for the process, by the    *)
(* first thread to need them, and the core rules with a parse of their own *)
(* on that thread.                                                         *)
(***************************************************************************)
EXTENDS Naturals, Sequences

CONSTANTS
  Threads, NumericFaults, Refusals,  (* as in FirstFault                   *)
  MaxItems,                          (* bound: what one text holds         *)
  MaxCalls                           (* bound: the calls of the process    *)

VARIABLES
  pc,      (* per thread: where in parse_abnf it is                        *)
  text,    (* per thread: what its parse has read: faults, and "fine" for    *)
           (* any part of a production without one                          *)
  slot,    (* per thread: NUM_ERR, "none" when empty                       *)
  parsed,  (* per thread: what the engine made of the text                 *)
  taken,   (* per thread: the diagnostic taken out of the slot             *)
  answer,  (* per thread: what its last call answered                      *)
  parser,  (* the OnceLock of abnf_parser: "unset" or "set"                *)
  core,    (* the OnceLock of core_rules: "unset", "setting" or "set"      *)
  calls    (* how many calls there were                                    *)

vars == <<pc, text, slot, parsed, taken, answer, parser, core, calls>>

Goto(t, from, to) == pc[t] = from /\ pc' = [pc EXCEPT ![t] = to]
Reply(t, a) == answer' = [answer EXCEPT ![t] = a]

Init ==
  /\ pc = [t \in Threads |-> "idle"]
  /\ text = [t \in Threads |-> <<>>]
  /\ slot = [t \in Threads |-> "none"]
  /\ parsed = [t \in Threads |-> "none"]
  /\ taken = [t \in Threads |-> "none"]
  /\ answer = [t \in Threads |-> "none"]
  /\ parser = "unset" /\ core = "unset" /\ calls = 0

Call(t) ==
  /\ calls < MaxCalls /\ Goto(t, "idle", "parser")
  /\ calls' = calls + 1
  /\ text' = [text EXCEPT ![t] = <<>>] /\ Reply(t, "none")
  /\ UNCHANGED <<slot, parsed, taken, parser, core>>

(* abnf_parser().  Who finds it unset builds it: nobody can tell the       *)
(* building from an instant.                                               *)
GetParser(t) ==
  /\ Goto(t, "parser", "clear")
  /\ parser' = "set"
  /\ UNCHANGED <<text, slot, parsed, taken, answer, core, calls>>

(* Slip, for the mutation runs: what an earlier parse left is kept. *)
ClearNumErr_Keeps(t) ==
  /\ Goto(t, "clear", "parse")
  /\ UNCHANGED <<text, slot, parsed, taken, answer, parser, core, calls>>

ClearNumErr(t) ==
  /\ Goto(t, "clear", "parse")
  /\ slot' = [slot EXCEPT ![t] = "none"]
  /\ UNCHANGED <<text, parsed, taken, answer, parser, core, calls>>

Reading(t) == pc[t] = "parse" /\ Len(text[t]) < MaxItems
ReadItem(t, item) == text' = [text EXCEPT ![t] = Append(@, item)]

Decode(t) ==
  /\ Reading(t) /\ ReadItem(t, "fine")
  /\ UNCHANGED <<pc, slot, parsed, taken, answer, parser, core, calls>>

(* record_num_err keeps the first. *)
DecodeFault(t) ==
  /\ Reading(t)
  /\ \E m \in NumericFaults :
       /\ ReadItem(t, m)
       /\ slot' = [slot EXCEPT ![t] = IF @ = "none" THEN m ELSE @]
  /\ UNCHANGED <<pc, parsed, taken, answer, parser, core, calls>>

(* open_group refuses a text nested too deeply; the engine, one it cannot   *)
(* read.                                                                    *)
EngineRefuses(t) ==
  /\ Reading(t)
  /\ \E r \in Refusals : ReadItem(t, r) /\ parsed' = [parsed EXCEPT ![t] = r]
  /\ Goto(t, "parse", "take")
  /\ UNCHANGED <<slot, taken, answer, parser, core, calls>>

ParseEnds(t) ==
  /\ Goto(t, "parse", "take")
  /\ parsed' = [parsed EXCEPT ![t] = "ok"]
  /\ UNCHANGED <<text, slot, taken, answer, parser, core, calls>>

(* A panic in the engine unwinds out of parse_abnf, past the taking: only   *)
(* then is the slot left full.                                              *)
EnginePanics(t) ==
  /\ Goto(t, "parse", "idle") /\ Reply(t, "panic")
  /\ UNCHANGED <<text, slot, parsed, taken, parser, core, calls>>

TakeNumErr(t) ==
  /\ Goto(t, "take", "decide")
  /\ taken' = [taken EXCEPT ![t] = slot[t]]
  /\ slot' = [slot EXCEPT ![t] = "none"]
  /\ UNCHANGED <<text, parsed, answer, parser, core, calls>>

(* Slip: the engine's own refusal goes first. *)
RefuseText_EngineFirst(t) ==
  /\ parsed[t] # "ok" \/ text[t] = <<>> \/ taken[t] # "none"
  /\ Goto(t, "decide", "idle")
  /\ Reply(t, IF parsed[t] # "ok" THEN parsed[t]
              ELSE IF text[t] = <<>> THEN "no productions" ELSE taken[t])
  /\ UNCHANGED <<text, slot, parsed, taken, parser, core, calls>>

(* The diagnostic goes before the engine's refusal, and after the test for   *)
(* an empty grammar.                                                         *)
RefuseText(t) ==
  /\ parsed[t] # "ok" \/ text[t] = <<>> \/ taken[t] # "none"
  /\ Goto(t, "decide", "idle")
  /\ Reply(t, IF parsed[t] = "ok" /\ text[t] = <<>> THEN "no productions"
              ELSE IF taken[t] # "none" THEN taken[t] ELSE parsed[t])
  /\ UNCHANGED <<text, slot, parsed, taken, parser, core, calls>>

(* Annotations, folding and holes: what Converter models. *)
RefuseLater(t) ==
  /\ parsed[t] = "ok" /\ text[t] # <<>> /\ taken[t] = "none"
  /\ Goto(t, "decide", "idle") /\ Reply(t, "later")
  /\ UNCHANGED <<text, slot, parsed, taken, parser, core, calls>>

WithCoreRules(t) ==
  /\ parsed[t] = "ok" /\ text[t] # <<>> /\ taken[t] = "none"
  /\ Goto(t, "decide", "core")
  /\ UNCHANGED <<text, slot, parsed, taken, answer, parser, core, calls>>

(* core_rules: the first thread builds them, clearing and taking the slot   *)
(* like any other parse; the others wait for it.                            *)
BuildCore(t) ==
  /\ core = "unset" /\ Goto(t, "core", "coreParse")
  /\ core' = "setting"
  /\ slot' = [slot EXCEPT ![t] = "none"]
  /\ UNCHANGED <<text, parsed, taken, answer, parser, calls>>

(* Slip: the builder goes on, and nobody is told. *)
CoreBuilt_Untold(t) ==
  /\ Goto(t, "coreParse", "core")
  /\ slot' = [slot EXCEPT ![t] = "none"]
  /\ UNCHANGED <<text, parsed, taken, answer, parser, core, calls>>

CoreBuilt(t) ==
  /\ Goto(t, "coreParse", "core")
  /\ core' = "set"
  /\ slot' = [slot EXCEPT ![t] = "none"]
  /\ UNCHANGED <<text, parsed, taken, answer, parser, calls>>

Return(t) ==
  /\ core = "set" /\ Goto(t, "core", "idle") /\ Reply(t, "grammar")
  /\ UNCHANGED <<text, slot, parsed, taken, parser, core, calls>>

Proceed(t) ==
  \/ GetParser(t) \/ ClearNumErr(t)
  \/ Decode(t) \/ DecodeFault(t) \/ EngineRefuses(t) \/ ParseEnds(t) \/ EnginePanics(t)
  \/ TakeNumErr(t) \/ RefuseText(t) \/ RefuseLater(t) \/ WithCoreRules(t)
  \/ BuildCore(t) \/ CoreBuilt(t) \/ Return(t)

Next == \E t \in Threads : Call(t) \/ Proceed(t)
Spec == Init /\ [][Next]_vars
=============================================================================
