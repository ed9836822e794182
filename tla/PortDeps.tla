------------------------------ MODULE PortDeps ------------------------------
(***************************************************************************)
(* The comparison of the ports' dependencies (tools/port-deps.cjs): which  *)
(* tabnas repositories each port depends on, the register of the known     *)
(* differences, and what the check reports.  The check itself keeps no     *)
(* state; what changes are the manifests and the register, edited by       *)
(* maintainers who, some of the time, do what a report tells them.         *)
(*                                                                         *)
(* A manifest is what a reader of CargoManifest or GoSources makes of it.  *)
(* Left out: the table the report prints and the wording of problems.      *)
(***************************************************************************)
EXTENDS Naturals, FiniteSets

CONSTANTS
  PORTS,      (* the ports a repository may have                             *)
  Ids,        (* the repositories of the organisation                        *)
  Repo,       (* the id the ports of this repository should be named after   *)
  NoId,       (* null: a name that gives no id                               *)
  Absent,     (* no manifest                                                 *)
  MaxEdits    (* bound: edits nobody's report asked for                      *)

ASSUME PortDepsAssumption ==
  /\ Repo \in Ids /\ NoId \notin Ids /\ MaxEdits \in Nat
  /\ Absent \notin [readable : BOOLEAN, id : Ids \union {NoId},
                    declares : [Ids -> SUBSET {"required", "optional", "dev"}]]

VARIABLES
  manifest,   (* per port: its manifest, or Absent                           *)
  register,   (* tools/port-deps.json                                        *)
  edits       (* how many edits there were                                   *)

vars == <<manifest, register, edits>>

Sections == {"required", "optional", "dev"}
Manifests == [readable : BOOLEAN, id : Ids \union {NoId}, declares : [Ids -> SUBSET Sections]]

(* What can be wrong with the register as a whole and with one entry.  A    *)
(* list of ports is the ports it names and whether they are sorted.         *)
ShapeFaults == {"not JSON", "not an object", "strange key", "note", "differ"}
EntryFaults == {"not an object", "strange key", "reason", "repair"}
Entries == [faults : SUBSET EntryFaults, ports : [of : SUBSET PORTS, sorted : BOOLEAN]]
Registers == [faults : SUBSET ShapeFaults, differ : UNION {[S -> Entries] : S \in SUBSET Ids}]

TypeOK ==
  /\ manifest \in [PORTS -> Manifests \union {Absent}]
  /\ register \in Registers
  /\ edits \in 0..MaxEdits

-----------------------------------------------------------------------------
(* readRepo and fold.                                                       *)

Present(m) == {p \in PORTS : m[p] # Absent}

(* Slip, for the mutation runs: a development dependency counts. *)
Runtime_WithDev(m, p) ==
  {id \in Ids \ {m[p].id} : m[p].declares[id] # {}}

Runtime(m, p) ==
  {id \in Ids \ {m[p].id} : m[p].declares[id] \intersect {"required", "optional"} # {}}

Have(m, id) == {p \in Present(m) : id \in Runtime(m, p)}

(* compare: rows are the ids some port has, differences those not all have. *)

(* Slip: a dependency nobody has any more still differs. *)
Differs_EvenUnused(m, id) == Have(m, id) # Present(m)

Differs(m, id) == Have(m, id) \notin {{}, Present(m)}

Named(m) == {p \in Present(m) : m[p].id # NoId}

(* A register that cannot be trusted records nothing. *)
Recorded(r) ==
  IF r.faults \intersect {"not an object", "differ"} # {} THEN <<>> ELSE r.differ

(* Slip: the ports are looked for in the order they are listed in the code. *)
RecordedIn_Unsorted(entry, have) ==
  entry.ports.of = have /\ (entry.ports.sorted => Cardinality(have) < 2)

RecordedIn(entry, have) == entry.ports.of = have /\ entry.ports.sorted

NameProblems(m) ==
  {<<"name", p>> : p \in Present(m) \ Named(m)}
    \union IF Cardinality({m[p].id : p \in Named(m)}) > 1 THEN {<<"disagree", Repo>>} ELSE {}

ShapeProblems(r) ==
  {<<"register", f>> : f \in IF "not an object" \in r.faults
                             THEN {"not an object"} ELSE r.faults}

EntryProblems(entry, have, id) ==
  IF "not an object" \in entry.faults THEN {<<"not an object", id>>}
  ELSE {<<f, id>> : f \in entry.faults}
         \union IF RecordedIn(entry, have) THEN {} ELSE {<<"ports", id>>}

IdProblems(m, r, id) ==
  IF id \notin DOMAIN Recorded(r)
  THEN IF Differs(m, id) THEN {<<"unrecorded", id>>} ELSE {}
  ELSE IF ~Differs(m, id) THEN {<<"stale", id>>}
  ELSE EntryProblems(Recorded(r)[id], Have(m, id), id)

Problems(m, r) ==
  NameProblems(m) \union ShapeProblems(r) \union UNION {IdProblems(m, r, id) : id \in Ids}

(* main: 2 when a reader throws, which hides every problem; then 1 or 0. *)
Unreadable(m, r) ==
  (\E p \in Present(m) : ~m[p].readable) \/ "not JSON" \in r.faults

ExitCode(m, r) ==
  IF Unreadable(m, r) THEN 2 ELSE IF Problems(m, r) = {} THEN 0 ELSE 1

Ok == ExitCode(manifest, register) = 0

-----------------------------------------------------------------------------
(* Edits nobody asked for.                                                   *)

Edit == edits < MaxEdits /\ edits' = edits + 1

(* A manifest gains or loses a declaration. *)
Redeclare(p, id, section) ==
  /\ Edit /\ p \in Present(manifest)
  /\ LET old == manifest[p].declares[id]
         new == IF section \in old THEN old \ {section} ELSE old \union {section}
     IN manifest' = [manifest EXCEPT ![p].declares[id] = new]
  /\ UNCHANGED register

Rename(p, id) ==
  /\ Edit /\ p \in Present(manifest)
  /\ manifest' = [manifest EXCEPT ![p].id = id]
  /\ UNCHANGED register

NewPort == [readable |-> TRUE, id |-> Repo, declares |-> [id \in Ids |-> {}]]

AddOrRemovePort(p) ==
  /\ Edit
  /\ manifest' = [manifest EXCEPT ![p] = IF @ = Absent THEN NewPort ELSE Absent]
  /\ UNCHANGED register

Break(p) ==
  /\ Edit /\ p \in Present(manifest)
  /\ manifest' = [manifest EXCEPT ![p].readable = FALSE]
  /\ UNCHANGED register

MisshapeRegister(f) ==
  /\ Edit
  /\ register' = [register EXCEPT !.faults = @ \union {f}]
  /\ UNCHANGED manifest

MisshapeEntry(id, f) ==
  /\ Edit /\ id \in DOMAIN register.differ
  /\ register' = [register EXCEPT !.differ[id].faults = @ \union {f}]
  /\ UNCHANGED manifest

(* An entry is written, perhaps over another, or deleted. *)
Entry(of, sorted) == [faults |-> {}, ports |-> [of |-> of, sorted |-> sorted]]
With(r, id, entry) ==
  [faults |-> r.faults \ {"not an object", "differ"},
   differ |-> [i \in {id} \union DOMAIN Recorded(r) |->
                 IF i = id THEN entry ELSE Recorded(r)[i]]]

Without(r, id) == [r EXCEPT !.differ = [i \in DOMAIN @ \ {id} |-> @[i]]]

WriteEntry(id, of, sorted) ==
  /\ Edit /\ register' = With(register, id, Entry(of, sorted))
  /\ UNCHANGED manifest

DeleteEntry(id) ==
  /\ Edit /\ id \in DOMAIN register.differ
  /\ register' = Without(register, id)
  /\ UNCHANGED manifest

-----------------------------------------------------------------------------
(* What the report says to do about a problem.                               *)

Reported(problem) ==
  /\ ~Unreadable(manifest, register)
  /\ problem \in Problems(manifest, register)
  /\ UNCHANGED edits

(* "Name it ..." *)
NameIt(p) ==
  /\ Reported(<<"name", p>>)
  /\ manifest' = [manifest EXCEPT ![p].id = Repo]
  /\ UNCHANGED register

(* "Name every port after the one repo." *)
NameAll ==
  /\ Reported(<<"disagree", Repo>>)
  /\ manifest' = [p \in PORTS |->
       IF p \in Present(manifest) THEN [manifest[p] EXCEPT !.id = Repo] ELSE manifest[p]]
  /\ UNCHANGED register

(* The register's own shape: "Write { ... }", "Keep only ...", "Make it     *)
(* [a string], or delete it", "Write "differ": {}".                         *)
Reshape(f) ==
  /\ Reported(<<"register", f>>)
  /\ register' = IF f \in {"not an object", "differ"}
                 THEN [faults |-> IF f = "differ" THEN register.faults \ {f} ELSE {},
                       differ |-> <<>>]
                 ELSE [register EXCEPT !.faults = @ \ {f}]
  /\ UNCHANGED manifest

(* "Make the ports agree": all of them have the dependency, or none. *)
Agree(id) ==
  /\ Reported(<<"unrecorded", id>>)
  /\ \E sections \in {{}, {"required"}} :
       manifest' = [p \in PORTS |->
         IF p \in Present(manifest)
         THEN [manifest[p] EXCEPT !.declares[id] = sections] ELSE manifest[p]]
  /\ UNCHANGED register

(* "or add it to differ with ports, a reason and a repair"; "Set ports to"; *)
(* "Write { ports, reason, repair }".                                       *)
Record(id) ==
  /\ \E kind \in {"unrecorded", "ports", "not an object"} : Reported(<<kind, id>>)
  /\ LET entry == Entry(Have(manifest, id), TRUE)
         kept == IF <<"ports", id>> \in Problems(manifest, register)
                 THEN register.differ[id].faults ELSE {}
     IN register' = With(register, id, [entry EXCEPT !.faults = kept])
  /\ UNCHANGED manifest

(* "Delete the entry." *)
DeleteStale(id) ==
  /\ Reported(<<"stale", id>>)
  /\ register' = Without(register, id)
  /\ UNCHANGED manifest

(* "Keep only ...", "Say why ...", "State the repair direction". *)
MendEntry(id, f) ==
  /\ f # "not an object" /\ Reported(<<f, id>>)
  /\ register' = [register EXCEPT !.differ[id].faults = @ \ {f}]
  /\ UNCHANGED manifest

(* A reader that throws names the file and the line. *)
MendUnreadable ==
  /\ Unreadable(manifest, register)
  /\ manifest' = [p \in PORTS |->
       IF p \in Present(manifest) THEN [manifest[p] EXCEPT !.readable = TRUE] ELSE manifest[p]]
  /\ register' = [register EXCEPT !.faults = @ \ {"not JSON"}]
  /\ UNCHANGED edits

-----------------------------------------------------------------------------
(* A repository the check passes. *)
Init ==
  /\ edits = 0
  /\ \E has \in [Ids \ {Repo} -> SUBSET PORTS] :
       /\ manifest = [p \in PORTS |-> [NewPort EXCEPT !.declares = [id \in Ids |->
              IF id # Repo /\ p \in has[id] THEN {"required"} ELSE {}]]]
       /\ register = [faults |-> {}, differ |->
              [id \in {i \in Ids \ {Repo} : has[i] \notin {{}, PORTS}} |-> Entry(has[id], TRUE)]]

Follow ==
  \/ MendUnreadable \/ NameAll
  \/ \E p \in PORTS : NameIt(p)
  \/ \E f \in ShapeFaults : Reshape(f)
  \/ \E id \in Ids :
       \/ Agree(id) \/ Record(id) \/ DeleteStale(id)
       \/ \E f \in EntryFaults : MendEntry(id, f)

Unasked ==
  \/ \E p \in PORTS :
       \/ AddOrRemovePort(p) \/ Break(p)
       \/ \E id \in Ids \union {NoId} : Rename(p, id)
       \/ \E id \in Ids, section \in Sections : Redeclare(p, id, section)
  \/ \E f \in ShapeFaults : MisshapeRegister(f)
  \/ \E id \in Ids :
       \/ DeleteEntry(id)
       \/ \E f \in EntryFaults : MisshapeEntry(id, f)
       \/ \E of \in SUBSET PORTS, sorted \in BOOLEAN : WriteEntry(id, of, sorted)

Next == Unasked \/ Follow
Spec == Init /\ [][Next]_vars

(* Who reads a report with problems does, in the end, something it says.  *)
FairSpec == Spec /\ WF_vars(Follow)

-----------------------------------------------------------------------------
(* Whether a port depends on a repository at run time, from the manifest    *)
(* itself.                                                                  *)
Uses(m, p, id) ==
  /\ p \in Present(m) /\ m[p].id # id
  /\ "required" \in m[p].declares[id] \/ "optional" \in m[p].declares[id]

\* A repository the check passes has exactly its differences in the register:
\* an entry for each dependency some ports have and some lack, naming those
\* that have it, and no entry for anything else (compare: "fails as loudly on
\* an entry the manifests no longer support").
RegisterIsExact ==
  Ok => \A id \in Ids :
    LET users == {p \in Present(manifest) : Uses(manifest, p, id)}
        split == users # {} /\ users # Present(manifest)
    IN /\ id \in DOMAIN register.differ <=> split
       /\ split => register.differ[id].ports.of = users

\* No dependency drifts unseen: in a repository the check passes with at least
\* two ports, one port's gaining or losing a run-time dependency, by whatever
\* edit of its manifest, makes the check fail until the register is edited
\* too (fold, compare).
Drifts(p) ==
  /\ Ok /\ Cardinality(Present(manifest)) > 1
  /\ register' = register /\ Present(manifest') = Present(manifest)
  /\ \A q \in PORTS \ {p} : manifest'[q] = manifest[q]
  /\ \E id \in Ids : Uses(manifest, p, id) # Uses(manifest', p, id)
EveryDriftIsCaught == [][\A p \in PORTS : Drifts(p) => ~Ok']_vars

\* Doing what the reports say ends in a repository the check passes, whatever
\* was wrong and in whatever order the advice is taken: no two pieces of
\* advice undo each other (compare's messages).
AdviceEndsInOk == <>[]Ok
=============================================================================
