------------------------------ MODULE GoFaults ------------------------------
(***************************************************************************)
(* How the Go port reports faults (go/converter.go, parser_abnf.go): every *)
(* parse makes a recorder, which travels in the parse's own meta through   *)
(* the one engine all goroutines share; the actions that decode numeric    *)
(* values record into the recorder their context holds, and parseAbnf asks *)
(* it before it looks at the engine's error.  The engine is built once,    *)
(* behind a sync.Once; the core rules are parsed anew by every call, with  *)
(* a recorder of their own that nobody asks.                               *)
(***************************************************************************)
EXTENDS Naturals, Sequences

CONSTANTS
  Threads, NumericFaults, Refusals,  (* as in FirstFault                   *)
  MaxItems,                          (* bound: what one text holds         *)
  MaxCalls                           (* bound: the calls of the process    *)

VARIABLES
  pc,       (* per goroutine: where in parseAbnf it is                       *)
  text,     (* per goroutine: what its parse has read: faults, and "fine"    *)
            (* for any part of a production without one                      *)
  meta,     (* per goroutine: the recorder its parse carries, 0 before       *)
  recorders,(* the recorders made: what each holds, "none" when empty        *)
  err,      (* per goroutine: the engine's error, "none" without             *)
  answer,   (* per goroutine: what its last call answered                    *)
  engine,   (* abnfParserOnce: "unbuilt", "building" or "built"              *)
  calls     (* how many calls there were                                     *)

vars == <<pc, text, meta, recorders, err, answer, engine, calls>>

Goto(t, from, to) == pc[t] = from /\ pc' = [pc EXCEPT ![t] = to]
Reply(t, a) == answer' = [answer EXCEPT ![t] = a]

Init ==
  /\ pc = [t \in Threads |-> "idle"]
  /\ text = [t \in Threads |-> <<>>]
  /\ meta = [t \in Threads |-> 0]
  /\ recorders = <<>>
  /\ err = [t \in Threads |-> "none"]
  /\ answer = [t \in Threads |-> "none"]
  /\ engine = "unbuilt" /\ calls = 0

Call(t) ==
  /\ calls < MaxCalls /\ Goto(t, "idle", "engine")
  /\ calls' = calls + 1
  /\ text' = [text EXCEPT ![t] = <<>>] /\ err' = [err EXCEPT ![t] = "none"]
  /\ Reply(t, "none")
  /\ UNCHANGED <<meta, recorders, engine>>

(* getAbnfParser: the first goroutine builds the engine ... *)
BuildEngine(t) ==
  /\ engine = "unbuilt" /\ Goto(t, "engine", "build")
  /\ engine' = "building"
  /\ UNCHANGED <<text, meta, recorders, err, answer, calls>>

(* Slip, for the mutation runs: the builder leaves the Once undone. *)
EngineBuilt_Undone(t) ==
  /\ Goto(t, "build", "engine")
  /\ UNCHANGED <<text, meta, recorders, err, answer, engine, calls>>

EngineBuilt(t) ==
  /\ Goto(t, "build", "engine")
  /\ engine' = "built"
  /\ UNCHANGED <<text, meta, recorders, err, answer, calls>>

(* Slip: one recorder for the package. *)
StartParse_OneRecorder(t) ==
  /\ engine = "built" /\ Goto(t, "engine", "parse")
  /\ recorders' = <<"none">>
  /\ meta' = [meta EXCEPT ![t] = 1]
  /\ UNCHANGED <<text, err, answer, engine, calls>>

(* ... and the others wait for it; each parse starts with a recorder. *)
StartParse(t) ==
  /\ engine = "built" /\ Goto(t, "engine", "parse")
  /\ recorders' = Append(recorders, "none")
  /\ meta' = [meta EXCEPT ![t] = Len(recorders) + 1]
  /\ UNCHANGED <<text, err, answer, engine, calls>>

Reading(t) == pc[t] = "parse" /\ Len(text[t]) < MaxItems
ReadItem(t, item) == text' = [text EXCEPT ![t] = Append(@, item)]

Decode(t) ==
  /\ Reading(t) /\ ReadItem(t, "fine")
  /\ UNCHANGED <<pc, meta, recorders, err, answer, engine, calls>>

(* Slip: the last is kept. *)
DecodeFault_KeepsLast(t) ==
  /\ Reading(t)
  /\ \E m \in NumericFaults :
       ReadItem(t, m) /\ recorders' = [recorders EXCEPT ![meta[t]] = m]
  /\ UNCHANGED <<pc, meta, err, answer, engine, calls>>

(* record keeps the first. *)
DecodeFault(t) ==
  /\ Reading(t)
  /\ \E m \in NumericFaults :
       /\ ReadItem(t, m)
       /\ recorders' = [recorders EXCEPT ![meta[t]] = IF @ = "none" THEN m ELSE @]
  /\ UNCHANGED <<pc, meta, err, answer, engine, calls>>

EngineRefuses(t) ==
  /\ Reading(t)
  /\ \E r \in Refusals : ReadItem(t, r) /\ err' = [err EXCEPT ![t] = r]
  /\ Goto(t, "parse", "decide")
  /\ UNCHANGED <<meta, recorders, answer, engine, calls>>

ParseEnds(t) ==
  /\ Goto(t, "parse", "decide")
  /\ UNCHANGED <<text, meta, recorders, err, answer, engine, calls>>

(* A panic in the engine unwinds; the recorder is lost with the parse. *)
EnginePanics(t) ==
  /\ Goto(t, "parse", "idle") /\ Reply(t, "panic")
  /\ UNCHANGED <<text, meta, recorders, err, engine, calls>>

Recorded(t) == recorders[meta[t]]

(* The diagnostic first, then the engine's error, then an empty grammar. *)
RefuseText(t) ==
  /\ Goto(t, "decide", "idle")
  /\ Recorded(t) # "none" \/ err[t] # "none" \/ text[t] = <<>>
  /\ Reply(t, IF Recorded(t) # "none" THEN Recorded(t)
              ELSE IF err[t] # "none" THEN err[t] ELSE "no productions")
  /\ UNCHANGED <<text, meta, recorders, err, engine, calls>>

Clean(t) == Recorded(t) = "none" /\ err[t] = "none" /\ text[t] # <<>>

(* Annotations, folding and holes: what Converter models. *)
RefuseLater(t) ==
  /\ Goto(t, "decide", "idle") /\ Clean(t) /\ Reply(t, "later")
  /\ UNCHANGED <<text, meta, recorders, err, engine, calls>>

(* coreRuleList: another parse, on the same engine, with a new recorder. *)
CoreRuleList(t) ==
  /\ Goto(t, "decide", "core") /\ Clean(t)
  /\ recorders' = Append(recorders, "none")
  /\ meta' = [meta EXCEPT ![t] = Len(recorders) + 1]
  /\ UNCHANGED <<text, err, answer, engine, calls>>

Return(t) ==
  /\ Goto(t, "core", "idle") /\ Reply(t, "grammar")
  /\ UNCHANGED <<text, meta, recorders, err, engine, calls>>

Proceed(t) ==
  \/ BuildEngine(t) \/ EngineBuilt(t) \/ StartParse(t)
  \/ Decode(t) \/ DecodeFault(t) \/ EngineRefuses(t) \/ ParseEnds(t) \/ EnginePanics(t)
  \/ RefuseText(t) \/ RefuseLater(t) \/ CoreRuleList(t) \/ Return(t)

Next == \E t \in Threads : Call(t) \/ Proceed(t)
Spec == Init /\ [][Next]_vars
=============================================================================
