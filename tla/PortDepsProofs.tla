--------------------------- MODULE PortDepsProofs ---------------------------
(***************************************************************************)
(* Theorems about the comparison of the ports' dependencies, for any ports *)
(* and repositories.                                                       *)
(***************************************************************************)
EXTENDS PortDeps, FiniteSetTheorems, TLAPS

-----------------------------------------------------------------------------
(* What a passing check says, with nothing assumed of the repository.       *)

Users(m, id) == {p \in Present(m) : Uses(m, p, id)}
Split(m, id) == Users(m, id) # {} /\ Users(m, id) # Present(m)
Exact(m, r) ==
  \A id \in Ids : /\ id \in DOMAIN r.differ <=> Split(m, id)
                  /\ Split(m, id) => r.differ[id].ports.of = Users(m, id)

\* What the comparison takes for the ports that have a dependency are those
\* whose manifests declare it for run time (fold, compare).
LEMMA HaveIsUsers ==
  ASSUME NEW m, NEW id \in Ids
  PROVE  Have(m, id) = Users(m, id)
BY DEF Have, Users, Uses, Runtime

\* A register and manifests without problems agree: the problems of each id
\* are empty, and a register without problems of shape records what it holds.
LEMMA NoProblemsExact ==
  ASSUME NEW m, NEW r, Problems(m, r) = {}
  PROVE  Exact(m, r)
<1>1. ShapeProblems(r) = {} /\ \A id \in Ids : IdProblems(m, r, id) = {}
  BY DEF Problems
<1>2. r.faults \intersect {"not an object", "differ"} = {}
  BY <1>1 DEF ShapeProblems
<1>3. Recorded(r) = r.differ
  BY <1>2 DEF Recorded
<1> SUFFICES ASSUME NEW id \in Ids
             PROVE  /\ id \in DOMAIN r.differ <=> Split(m, id)
                    /\ Split(m, id) => r.differ[id].ports.of = Users(m, id)
  BY DEF Exact
<1>4. Differs(m, id) <=> Split(m, id)
  BY HaveIsUsers DEF Differs, Split
<1>5. id \in DOMAIN r.differ <=> Differs(m, id)
  BY <1>1, <1>3 DEF IdProblems
<1>6. ASSUME Differs(m, id) PROVE EntryProblems(r.differ[id], Have(m, id), id) = {}
  BY <1>1, <1>3, <1>5, <1>6 DEF IdProblems
<1>7. ASSUME Differs(m, id) PROVE RecordedIn(r.differ[id], Have(m, id))
  BY <1>6, <1>7 DEF EntryProblems
<1>8. Differs(m, id) => r.differ[id].ports.of = Users(m, id)
  BY <1>7, HaveIsUsers DEF RecordedIn
<1> QED
  BY <1>4, <1>5, <1>8

LEMMA OkIsExact == Ok => Exact(manifest, register)
BY NoProblemsExact DEF Ok, ExitCode

\* A repository the check passes has exactly its differences in the register
\* (compare).
THEOREM PassingRegisterIsExact == Spec => []RegisterIsExact
<1>1. RegisterIsExact
  BY OkIsExact DEF RegisterIsExact, Exact, Split, Users
<1> QED
  BY <1>1, PTL

-----------------------------------------------------------------------------
(* A drift: two exact repositories with one register and the same ports      *)
(* cannot differ in what one port uses, unless that port is the only one.    *)

LEMMA ExactDeterminesUsers ==
  ASSUME NEW m, NEW n, NEW r, NEW p \in PORTS, NEW id \in Ids,
         Exact(m, r), Exact(n, r), Present(m) = Present(n),
         Cardinality(Present(m)) > 1,
         \A q \in PORTS \ {p} : n[q] = m[q]
  PROVE  Uses(m, p, id) <=> Uses(n, p, id)
<1> DEFINE Others == Users(m, id) \ {p}
<1>1. Users(m, id) \in {Others, Others \union {p}} /\ Users(n, id) \in {Others, Others \union {p}}
  BY DEF Users, Uses, Present
<1>2. Users(m, id) \subseteq Present(m) /\ Users(n, id) \subseteq Present(m)
  BY DEF Users
<1>3. Split(m, id) <=> Split(n, id)
  BY DEF Exact
<1>4. Present(m) # {p}
  BY FS_Singleton
<1>5. CASE Split(m, id)
  <2>1. Users(m, id) = Users(n, id)
    BY <1>3, <1>5 DEF Exact
  <2> QED
    BY <2>1 DEF Users, Uses
<1>6. CASE ~Split(m, id)
  <2>1. Users(m, id) \in {{}, Present(m)} /\ Users(n, id) \in {{}, Present(m)}
    BY <1>3, <1>6 DEF Split
  <2>2. Users(m, id) = Users(n, id)
    BY <1>1, <1>2, <1>4, <2>1
  <2> QED
    BY <2>2 DEF Users, Uses
<1> QED
  BY <1>5, <1>6

\* No dependency drifts unseen: when a port of a passing repository with two
\* ports gains or loses a run-time dependency, the check fails until the
\* register is edited (fold, compare).
THEOREM DriftsAreCaught == Spec => EveryDriftIsCaught
<1>1. \A p \in PORTS : Drifts(p) => ~Ok'
  <2> SUFFICES ASSUME NEW p \in PORTS, Drifts(p), Ok' PROVE FALSE
    OBVIOUS
  <2>1. Exact(manifest, register) /\ Exact(manifest', register')
    <3>1. Exact(manifest, register)
      BY OkIsExact DEF Drifts
    <3>2. Problems(manifest', register') = {}
      BY DEF Ok, ExitCode
    <3> QED
      BY <3>1, <3>2, NoProblemsExact
  <2>2. PICK id \in Ids : Uses(manifest, p, id) # Uses(manifest', p, id)
    BY DEF Drifts
  <2>3. Uses(manifest, p, id) <=> Uses(manifest', p, id)
    BY <2>1, ExactDeterminesUsers DEF Drifts
  <2> QED
    BY <2>2, <2>3 DEF Uses
<1> QED
  BY <1>1, PTL DEF EveryDriftIsCaught

-----------------------------------------------------------------------------
(* Types.  A present manifest has its type, and a register is its faults and *)
(* its entries.                                                              *)

LEMMA PresentHasManifest ==
  ASSUME TypeOK, NEW p \in Present(manifest)
  PROVE  p \in PORTS /\ manifest[p] \in Manifests
BY DEF TypeOK, Present

Differ == UNION {[S -> Entries] : S \in SUBSET Ids}

LEMMA DifferForm ==
  ASSUME NEW d
  PROVE  d \in Differ <=> DOMAIN d \subseteq Ids /\ d \in [DOMAIN d -> Entries]
BY DEF Differ

LEMMA RegisterForm ==
  ASSUME NEW r \in Registers
  PROVE  /\ r = [faults |-> r.faults, differ |-> r.differ]
         /\ r.faults \in SUBSET ShapeFaults /\ r.differ \in Differ
BY DEF Registers, Differ

\* A register that cannot be trusted records nothing, which is a register too
\* (compare).
LEMMA RecordedTyped ==
  ASSUME NEW r \in Registers
  PROVE  Recorded(r) \in Differ
<1>1. <<>> \in [{} -> Entries]
  OBVIOUS
<1>2. <<>> \in Differ
  BY <1>1 DEF Differ
<1> QED
  BY <1>2, RegisterForm DEF Recorded

LEMMA WithTyped ==
  ASSUME NEW r \in Registers, NEW id \in Ids, NEW e \in Entries
  PROVE  With(r, id, e) \in Registers
<1> DEFINE d == [i \in {id} \union DOMAIN Recorded(r) |-> IF i = id THEN e ELSE Recorded(r)[i]]
<1>1. DOMAIN Recorded(r) \subseteq Ids /\ Recorded(r) \in [DOMAIN Recorded(r) -> Entries]
  BY RecordedTyped, DifferForm
<1>2. d \in [{id} \union DOMAIN Recorded(r) -> Entries] /\ {id} \union DOMAIN Recorded(r) \in SUBSET Ids
  BY <1>1
<1>3. d \in Differ
  BY <1>2 DEF Differ
<1>4. r.faults \ {"not an object", "differ"} \in SUBSET ShapeFaults
  BY RegisterForm
<1> QED
  BY <1>3, <1>4 DEF With, Registers, Differ

LEMMA WithoutTyped ==
  ASSUME NEW r \in Registers, NEW id \in Ids
  PROVE  Without(r, id) \in Registers
<1> DEFINE d == [i \in DOMAIN r.differ \ {id} |-> r.differ[i]]
<1>1. DOMAIN r.differ \subseteq Ids /\ r.differ \in [DOMAIN r.differ -> Entries]
  BY RegisterForm, DifferForm
<1>2. d \in [DOMAIN r.differ \ {id} -> Entries] /\ DOMAIN r.differ \ {id} \in SUBSET Ids
  BY <1>1
<1>3. d \in Differ
  BY <1>2 DEF Differ
<1>4. Without(r, id) = [faults |-> r.faults, differ |-> d]
  BY RegisterForm DEF Without
<1> QED
  BY <1>3, <1>4, RegisterForm DEF Registers, Differ

LEMMA EntryFaultsTyped ==
  ASSUME NEW r \in Registers, NEW id \in DOMAIN r.differ, NEW F \in SUBSET EntryFaults
  PROVE  [r EXCEPT !.differ[id].faults = F] \in Registers
<1>1. DOMAIN r.differ \subseteq Ids /\ r.differ \in [DOMAIN r.differ -> Entries]
  BY RegisterForm, DifferForm
<1>2. [r.differ[id] EXCEPT !.faults = F] \in Entries
  BY <1>1 DEF Entries
<1> DEFINE d == [r.differ EXCEPT ![id] = [r.differ[id] EXCEPT !.faults = F]]
<1>3. d \in [DOMAIN r.differ -> Entries]
  BY <1>1, <1>2
<1>4. d \in Differ
  BY <1>1, <1>3 DEF Differ
<1>5. [r EXCEPT !.differ[id].faults = F] = [faults |-> r.faults, differ |-> d]
  BY RegisterForm
<1> QED
  BY <1>4, <1>5, RegisterForm DEF Registers, Differ

LEMMA FaultsTyped ==
  ASSUME NEW r \in Registers, NEW F \in SUBSET ShapeFaults
  PROVE  [r EXCEPT !.faults = F] \in Registers
BY DEF Registers

LEMMA EntryTyped ==
  ASSUME NEW of \in SUBSET PORTS, NEW sorted \in BOOLEAN
  PROVE  Entry(of, sorted) \in Entries
BY DEF Entry, Entries

LEMMA NewPortTyped == NewPort \in Manifests
BY PortDepsAssumption DEF NewPort, Manifests, Sections

LEMMA RecordedIsDiffer ==
  ASSUME NEW r, NEW id \in DOMAIN Recorded(r)
  PROVE  Recorded(r) = r.differ
<1>1. DOMAIN <<>> = {}
  OBVIOUS
<1> QED
  BY <1>1 DEF Recorded

\* Which problems speak of an entry: they are about one the register has.
LEMMA EntryReported ==
  ASSUME TypeOK, NEW id \in Ids,
         NEW kind \in {"ports", "strange key", "reason", "repair"},
         <<kind, id>> \in Problems(manifest, register)
  PROVE  id \in DOMAIN register.differ
<1>1. PICK i \in Ids : <<kind, id>> \in IdProblems(manifest, register, i)
  BY DEF Problems, NameProblems, ShapeProblems
<1>2. i = id /\ i \in DOMAIN Recorded(register)
  BY <1>1 DEF IdProblems, EntryProblems
<1> QED
  BY <1>2, RecordedIsDiffer

\* A port reported without a name is there.
LEMMA NameReported ==
  ASSUME TypeOK, NEW p \in PORTS, <<"name", p>> \in Problems(manifest, register)
  PROVE  p \in Present(manifest)
<1>1. ASSUME NEW id \in Ids PROVE <<"name", p>> \notin IdProblems(manifest, register, id)
  <2>1. ASSUME id \in DOMAIN Recorded(register)
        PROVE  <<"name", p>> \notin EntryProblems(Recorded(register)[id], Have(manifest, id), id)
    <3>1. Recorded(register)[id].faults \in SUBSET EntryFaults
      BY <2>1, RecordedIsDiffer, RegisterForm, DifferForm DEF TypeOK, Entries
    <3> QED
      BY <3>1 DEF EntryProblems, EntryFaults
  <2> QED
    BY <2>1 DEF IdProblems
<1> QED
  BY <1>1 DEF Problems, NameProblems, ShapeProblems

-----------------------------------------------------------------------------
(* The steps.                                                                *)

LEMMA InitTyped == Init => TypeOK
<1> SUFFICES ASSUME Init PROVE TypeOK
  OBVIOUS
<1>1. edits \in 0..MaxEdits
  BY PortDepsAssumption DEF Init
<1>2. PICK has \in [Ids \ {Repo} -> SUBSET PORTS] :
        /\ manifest = [p \in PORTS |-> [NewPort EXCEPT !.declares = [id \in Ids |->
              IF id # Repo /\ p \in has[id] THEN {"required"} ELSE {}]]]
        /\ register = [faults |-> {}, differ |->
              [id \in {i \in Ids \ {Repo} : has[i] \notin {{}, PORTS}} |-> Entry(has[id], TRUE)]]
  BY DEF Init
<1>3. manifest \in [PORTS -> Manifests \union {Absent}]
  <2>1. ASSUME NEW d \in [Ids -> SUBSET Sections]
        PROVE  [NewPort EXCEPT !.declares = d] \in Manifests
    BY NewPortTyped DEF Manifests
  <2>2. ASSUME NEW p \in PORTS
        PROVE  [id \in Ids |-> IF id # Repo /\ p \in has[id] THEN {"required"} ELSE {}]
                 \in [Ids -> SUBSET Sections]
    BY DEF Sections
  <2> QED
    BY <1>2, <2>1, <2>2
<1>4. register \in Registers
  <2> DEFINE S == {i \in Ids \ {Repo} : has[i] \notin {{}, PORTS}}
             d == [id \in S |-> Entry(has[id], TRUE)]
  <2>1. d \in [S -> Entries] /\ S \in SUBSET Ids
    BY EntryTyped
  <2>2. d \in Differ
    BY <2>1 DEF Differ
  <2> QED
    BY <1>2, <2>2 DEF Registers, Differ
<1> QED
  BY <1>1, <1>3, <1>4 DEF TypeOK

LEMMA UnaskedTyped == TypeOK /\ Unasked => TypeOK'
<1> SUFFICES ASSUME TypeOK, Unasked PROVE TypeOK'
  OBVIOUS
<1>1. edits' \in 0..MaxEdits
  <2>1. Edit
    BY DEF Unasked, AddOrRemovePort, Break, Rename, Redeclare, MisshapeRegister, DeleteEntry,
           MisshapeEntry, WriteEntry
  <2> QED
    BY <2>1, PortDepsAssumption DEF Edit, TypeOK
<1>2. manifest' \in [PORTS -> Manifests \union {Absent}] /\ register' \in Registers
  <2>1. ASSUME NEW p \in PORTS, AddOrRemovePort(p)
        PROVE  manifest' \in [PORTS -> Manifests \union {Absent}] /\ register' \in Registers
    BY <2>1, NewPortTyped DEF AddOrRemovePort, TypeOK
  <2>2. ASSUME NEW p \in PORTS, Break(p)
        PROVE  manifest' \in [PORTS -> Manifests \union {Absent}] /\ register' \in Registers
    <3>1. [manifest[p] EXCEPT !.readable = FALSE] \in Manifests
      BY <2>2, PresentHasManifest DEF Break, Manifests
    <3> QED
      BY <2>2, <3>1 DEF Break, TypeOK
  <2>3. ASSUME NEW p \in PORTS, NEW id \in Ids \union {NoId}, Rename(p, id)
        PROVE  manifest' \in [PORTS -> Manifests \union {Absent}] /\ register' \in Registers
    <3>1. [manifest[p] EXCEPT !.id = id] \in Manifests
      BY <2>3, PresentHasManifest DEF Rename, Manifests
    <3> QED
      BY <2>3, <3>1 DEF Rename, TypeOK
  <2>4. ASSUME NEW p \in PORTS, NEW id \in Ids, NEW section \in Sections, Redeclare(p, id, section)
        PROVE  manifest' \in [PORTS -> Manifests \union {Absent}] /\ register' \in Registers
    <3> DEFINE old == manifest[p].declares[id]
               new == IF section \in old THEN old \ {section} ELSE old \union {section}
    <3>1. manifest[p] \in Manifests
      BY <2>4, PresentHasManifest DEF Redeclare
    <3>2. new \in SUBSET Sections
      BY <3>1 DEF Manifests
    <3>3. [manifest[p].declares EXCEPT ![id] = new] \in [Ids -> SUBSET Sections]
      BY <3>1, <3>2 DEF Manifests
    <3>4. [manifest[p] EXCEPT !.declares[id] = new] \in Manifests
      BY <3>1, <3>3 DEF Manifests
    <3> QED
      BY <2>4, <3>4 DEF Redeclare, TypeOK
  <2>5. ASSUME NEW f \in ShapeFaults, MisshapeRegister(f)
        PROVE  manifest' \in [PORTS -> Manifests \union {Absent}] /\ register' \in Registers
    <3>1. register.faults \union {f} \in SUBSET ShapeFaults
      BY RegisterForm DEF TypeOK
    <3> QED
      BY <2>5, <3>1, FaultsTyped DEF MisshapeRegister, TypeOK
  <2>6. ASSUME NEW id \in Ids, DeleteEntry(id)
        PROVE  manifest' \in [PORTS -> Manifests \union {Absent}] /\ register' \in Registers
    BY <2>6, WithoutTyped DEF DeleteEntry, TypeOK
  <2>7. ASSUME NEW id \in Ids, NEW f \in EntryFaults, MisshapeEntry(id, f)
        PROVE  manifest' \in [PORTS -> Manifests \union {Absent}] /\ register' \in Registers
    <3>1. register.differ[id].faults \union {f} \in SUBSET EntryFaults
      BY <2>7, RegisterForm, DifferForm DEF MisshapeEntry, TypeOK, Entries
    <3> QED
      BY <2>7, <3>1, EntryFaultsTyped DEF MisshapeEntry, TypeOK
  <2>8. ASSUME NEW id \in Ids, NEW of \in SUBSET PORTS, NEW sorted \in BOOLEAN,
               WriteEntry(id, of, sorted)
        PROVE  manifest' \in [PORTS -> Manifests \union {Absent}] /\ register' \in Registers
    BY <2>8, WithTyped, EntryTyped DEF WriteEntry, TypeOK
  <2> QED
    BY <2>1, <2>2, <2>3, <2>4, <2>5, <2>6, <2>7, <2>8 DEF Unasked
<1> QED
  BY <1>1, <1>2 DEF TypeOK

LEMMA FollowTyped == TypeOK /\ Follow => TypeOK'
<1> SUFFICES ASSUME TypeOK, Follow PROVE TypeOK'
  OBVIOUS
<1> DEFINE Typed == manifest' \in [PORTS -> Manifests \union {Absent}] /\ register' \in Registers
<1>1. edits' = edits
  BY DEF Follow, MendUnreadable, NameAll, NameIt, Reshape, Agree, Record, DeleteStale, MendEntry,
         Reported
<1>2. ASSUME MendUnreadable PROVE Typed
  <2>1. \A p \in Present(manifest) : [manifest[p] EXCEPT !.readable = TRUE] \in Manifests
    BY PresentHasManifest DEF Manifests
  <2>2. register.faults \ {"not JSON"} \in SUBSET ShapeFaults
    BY RegisterForm DEF TypeOK
  <2> QED
    BY <1>2, <2>1, <2>2, FaultsTyped DEF MendUnreadable, TypeOK
<1>3. ASSUME NameAll PROVE Typed
  <2>1. \A p \in Present(manifest) : [manifest[p] EXCEPT !.id = Repo] \in Manifests
    BY PresentHasManifest, PortDepsAssumption DEF Manifests
  <2> QED
    BY <1>3, <2>1 DEF NameAll, TypeOK
<1>4. ASSUME NEW p \in PORTS, NameIt(p) PROVE Typed
  <2>1. p \in Present(manifest)
    BY <1>4, NameReported DEF NameIt, Reported
  <2>2. [manifest[p] EXCEPT !.id = Repo] \in Manifests
    BY <2>1, PresentHasManifest, PortDepsAssumption DEF Manifests
  <2> QED
    BY <1>4, <2>2 DEF NameIt, TypeOK
<1>5. ASSUME NEW f \in ShapeFaults, Reshape(f) PROVE Typed
  <2>1. <<>> \in Differ
    <3>1. <<>> \in [{} -> Entries]
      OBVIOUS
    <3> QED
      BY <3>1 DEF Differ
  <2>2. register.faults \ {f} \in SUBSET ShapeFaults
    BY RegisterForm DEF TypeOK
  <2>3. CASE f \in {"not an object", "differ"}
    BY <1>5, <2>1, <2>2, <2>3 DEF Reshape, TypeOK, Registers, Differ
  <2>4. CASE f \notin {"not an object", "differ"}
    BY <1>5, <2>2, <2>4, FaultsTyped DEF Reshape, TypeOK
  <2> QED
    BY <2>3, <2>4
<1>6. ASSUME NEW id \in Ids, Agree(id) PROVE Typed
  <2>1. PICK sections \in {{}, {"required"}} :
          manifest' = [p \in PORTS |->
            IF p \in Present(manifest)
            THEN [manifest[p] EXCEPT !.declares[id] = sections] ELSE manifest[p]]
    BY <1>6 DEF Agree
  <2>2. ASSUME NEW p \in Present(manifest)
        PROVE  [manifest[p] EXCEPT !.declares[id] = sections] \in Manifests
    <3>1. manifest[p] \in Manifests
      BY PresentHasManifest
    <3>2. [manifest[p].declares EXCEPT ![id] = sections] \in [Ids -> SUBSET Sections]
      BY <3>1 DEF Manifests, Sections
    <3> QED
      BY <3>1, <3>2 DEF Manifests
  <2> QED
    BY <1>6, <2>1, <2>2 DEF Agree, TypeOK
<1>7. ASSUME NEW id \in Ids, Record(id) PROVE Typed
  <2> DEFINE entry == Entry(Have(manifest, id), TRUE)
             kept == IF <<"ports", id>> \in Problems(manifest, register)
                     THEN register.differ[id].faults ELSE {}
  <2>1. kept \in SUBSET EntryFaults
    <3> SUFFICES ASSUME <<"ports", id>> \in Problems(manifest, register)
                 PROVE  register.differ[id].faults \in SUBSET EntryFaults
      OBVIOUS
    <3>1. id \in DOMAIN register.differ
      BY EntryReported
    <3> QED
      BY <3>1, RegisterForm, DifferForm DEF TypeOK, Entries
  <2>2. entry \in Entries
    BY EntryTyped DEF Have, Present
  <2>3. [entry EXCEPT !.faults = kept] \in Entries
    BY <2>1, <2>2 DEF Entries
  <2>4. register' = With(register, id, [entry EXCEPT !.faults = kept]) /\ manifest' = manifest
    BY <1>7 DEF Record
  <2> QED
    BY <2>3, <2>4, WithTyped DEF TypeOK
<1>8. ASSUME NEW id \in Ids, DeleteStale(id) PROVE Typed
  BY <1>8, WithoutTyped DEF DeleteStale, TypeOK
<1>9. ASSUME NEW id \in Ids, NEW f \in EntryFaults, MendEntry(id, f) PROVE Typed
  <2>1. id \in DOMAIN register.differ
    BY <1>9, EntryReported DEF MendEntry, Reported, EntryFaults
  <2>2. register.differ[id].faults \ {f} \in SUBSET EntryFaults
    BY <2>1, RegisterForm, DifferForm DEF TypeOK, Entries
  <2> QED
    BY <1>9, <2>1, <2>2, EntryFaultsTyped DEF MendEntry, TypeOK
<1> QED
  BY <1>1, <1>2, <1>3, <1>4, <1>5, <1>6, <1>7, <1>8, <1>9 DEF Follow, TypeOK

\* Manifests and register keep their types under every edit, asked for or not
\* (tools/port-deps.json, compare).
THEOREM TypeCorrect == Spec => []TypeOK
<1>1. TypeOK /\ [Next]_vars => TypeOK'
  <2>1. TypeOK /\ UNCHANGED vars => TypeOK'
    BY DEF TypeOK, vars
  <2> QED
    BY <2>1, UnaskedTyped, FollowTyped DEF Next
<1> QED
  BY <1>1, InitTyped, PTL DEF Spec
=============================================================================
