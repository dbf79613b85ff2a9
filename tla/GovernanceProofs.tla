-------------------------- MODULE GovernanceProofs --------------------------
(***************************************************************************)
(* Theorems about Governance.  The control plane: what runs was approved,  *)
(* and a rollback undoes exactly the last change that took effect.  The    *)
(* production machine: after a halt nothing runs before a recovery, though *)
(* the state is only derived from a log that others write to.  The AI and  *)
(* research: what is promoted went the whole way.  The operator's views:   *)
(* they tell what the logs hold, and nothing else.                         *)
(***************************************************************************)
EXTENDS Governance, FoldTheorems, SequenceTheorems

-----------------------------------------------------------------------------
(* The control plane. *)

Effects == {"Snapshot.activated", "Snapshot.rolledBack"}
\* What the control plane's log holds.
ControlEntry == [event_type : Effects \cup {"Deployment.rejected"}, correlation_id : {"control-plane"},
                 snapshot_id : SnapshotIds, event_time : {1}, schema_version : {1},
                 payload : {<<id>> : id \in SnapshotIds}, seq : Nat]

ControlTyped ==
    /\ active \in Snapshot \cup {NoSnapshot} /\ previous \in Snapshot \cup {NoSnapshot}
    /\ cpLog \in Seq(ControlEntry) /\ Effective \in Seq(ControlEntry)

\* The last two changes that took effect are the two snapshots held.
HeldAreTheLastTwo ==
    /\ active = NoSnapshot <=> Len(Effective) = 0
    /\ previous = NoSnapshot <=> Len(Effective) < 2
    /\ Len(Effective) >= 1 => Effective[Len(Effective)].snapshot_id = active.id
    /\ Len(Effective) >= 2 => Effective[Len(Effective) - 1].snapshot_id = previous.id

\* A rollback in the log goes back by two.
RollbacksUndo ==
    \A i \in 1 .. Len(Effective) : Effective[i].event_type = "Snapshot.rolledBack" =>
       i > 2 /\ Effective[i].snapshot_id = Effective[i - 2].snapshot_id

ControlInv == ControlTyped /\ OnlyBackedSnapshotsRun /\ HeldAreTheLastTwo /\ RollbacksUndo

\* An entry as the log keeps it.
LEMMA EntryType ==
    ASSUME NEW type \in Effects \cup {"Deployment.rejected"}, NEW id \in SnapshotIds, NEW n \in Nat
    PROVE  /\ Numbered(ControlEvent(type, id), n) \in ControlEntry
           /\ Numbered(ControlEvent(type, id), n).event_type = type
           /\ Numbered(ControlEvent(type, id), n).snapshot_id = id
  BY DEF Numbered, ControlEvent, Event, ControlEntry

\* What an entry adds to the changes that took effect.
LEMMA EffectiveStep ==
    ASSUME cpLog \in Seq(ControlEntry), NEW type \in Effects \cup {"Deployment.rejected"}, NEW id \in SnapshotIds,
           cpLog' = record(cpLog, ControlEvent(type, id))
    PROVE  \E e \in ControlEntry :
             /\ e.event_type = type /\ e.snapshot_id = id
             /\ cpLog' \in Seq(ControlEntry)
             /\ Effective' = IF type # "Deployment.rejected" THEN Append(Effective, e) ELSE Effective
<1>1. PICK e : e = Numbered(ControlEvent(type, id), Len(cpLog) + 1)
  OBVIOUS
<1>2. Len(cpLog) + 1 \in Nat
  OBVIOUS
<1>3. e \in ControlEntry /\ e.event_type = type /\ e.snapshot_id = id
  BY <1>1, <1>2, EntryType
<1>4. cpLog' = Append(cpLog, e)
  BY <1>1 DEF record
<1>5. /\ cpLog' \in Seq(ControlEntry) /\ Len(cpLog') = Len(cpLog) + 1 /\ cpLog'[Len(cpLog) + 1] = e
      /\ \A i \in 1 .. Len(cpLog) : cpLog'[i] = cpLog[i]
  BY <1>3, <1>4
<1> DEFINE keep == {x \in ToSet(cpLog) : x.event_type # "Deployment.rejected"}
           keep2 == {x \in ToSet(cpLog') : x.event_type # "Deployment.rejected"}
<1>6. \A i \in 1 .. Len(cpLog) : cpLog[i] \in keep <=> cpLog[i] \in keep2
  BY <1>5 DEF ToSet
<1>7. e \in keep2 <=> type # "Deployment.rejected"
  BY <1>3, <1>5 DEF ToSet
<1>8. Effective = Filter(cpLog, keep) /\ Effective' = Filter(Append(cpLog, e), keep2)
  <2>1. Effective = Filter(cpLog, keep)
    BY DEF Effective
  <2>2. Effective' = Filter(cpLog', keep2)
    BY Zenon DEF Effective
  <2> HIDE DEF keep, keep2
  <2> QED
    BY <1>4, <2>1, <2>2, Zenon
<1> HIDE DEF keep, keep2
<1>a. PICK c, k1, k2 : c = cpLog /\ k1 = keep /\ k2 = keep2
  OBVIOUS
<1>9. Filter(Append(cpLog, e), keep2) = IF e \in keep2 THEN Append(Filter(cpLog, keep), e) ELSE Filter(cpLog, keep)
  <2>1. c \in Seq(ControlEntry) /\ \A i \in 1 .. Len(c) : c[i] \in k1 <=> c[i] \in k2
    BY <1>6, <1>a
  <2>2. Filter(Append(c, e), k2) = IF e \in k2 THEN Append(Filter(c, k1), e) ELSE Filter(c, k1)
    BY <1>3, <2>1, FilterGrows
  <2> QED
    BY <1>a, <2>2, Zenon
<1>10. Effective' = IF type # "Deployment.rejected" THEN Append(Effective, e) ELSE Effective
  BY <1>7, <1>8, <1>9
<1> QED
  BY <1>3, <1>5, <1>10

\* The parts that do not touch the control plane.
LEMMA ControlStutter ==
    ASSUME ControlInv, UNCHANGED control PROVE ControlInv'
<1>1. UNCHANGED <<active, previous, cpLog, backed>>
  BY DEF control
<1>2. Effective' = Effective
  BY <1>1 DEF Effective
<1> QED
  BY <1>1, <1>2, Zenon DEF ControlInv, ControlTyped, OnlyBackedSnapshotsRun, HeldAreTheLastTwo, RollbacksUndo

\* A change that takes effect: a snapshot s is made active, the one active
\* before becomes the one to return to.
LEMMA ControlChange ==
    ASSUME ControlInv, NEW s \in Snapshot, NEW type \in Effects,
           s.id \in backed', s.pinned, s.intact, backed \subseteq backed',
           active' = s, previous' = active,
           cpLog' = record(cpLog, ControlEvent(type, s.id)),
           type = "Snapshot.rolledBack" => s = previous
    PROVE  ControlInv'
<1>0. /\ active \in Snapshot \cup {NoSnapshot} /\ previous \in Snapshot \cup {NoSnapshot}
      /\ cpLog \in Seq(ControlEntry) /\ Effective \in Seq(ControlEntry)
  BY DEF ControlInv, ControlTyped
<1>1. s.id \in SnapshotIds /\ s # NoSnapshot /\ type # "Deployment.rejected"
  BY SnapshotAssumption DEF Snapshot, Effects
<1>2. PICK e \in ControlEntry : /\ e.event_type = type /\ e.snapshot_id = s.id
                                /\ cpLog' \in Seq(ControlEntry)
                                /\ Effective' = IF type # "Deployment.rejected" THEN Append(Effective, e) ELSE Effective
  <2>1. type \in Effects \cup {"Deployment.rejected"}
    OBVIOUS
  <2> QED
    BY <1>0, <1>1, <2>1, EffectiveStep
<1>3. PICK f, g : f = Effective /\ g = Effective'
  OBVIOUS
<1>4. f \in Seq(ControlEntry) /\ g = Append(f, e)
  BY <1>0, <1>1, <1>2, <1>3
<1>5. /\ g \in Seq(ControlEntry) /\ Len(f) \in Nat /\ Len(g) = Len(f) + 1 /\ g[Len(f) + 1] = e
      /\ \A i \in 1 .. Len(f) : g[i] = f[i]
  BY <1>4
<1>6. /\ active = NoSnapshot <=> Len(f) = 0
      /\ previous = NoSnapshot <=> Len(f) < 2
      /\ Len(f) >= 1 => f[Len(f)].snapshot_id = active.id
      /\ Len(f) >= 2 => f[Len(f) - 1].snapshot_id = previous.id
  BY <1>3, Zenon DEF ControlInv, HeldAreTheLastTwo
<1>7. \A i \in 1 .. Len(f) : f[i].event_type = "Snapshot.rolledBack" =>
         i > 2 /\ f[i].snapshot_id = f[i - 2].snapshot_id
  BY <1>3, Zenon DEF ControlInv, RollbacksUndo
<1>8. ControlTyped'
  BY <1>0, <1>2, <1>3, <1>5 DEF ControlTyped
<1>9. OnlyBackedSnapshotsRun'
  <2>1. active # NoSnapshot => active.id \in backed /\ active.pinned /\ active.intact
    BY DEF ControlInv, OnlyBackedSnapshotsRun
  <2> QED
    BY <2>1 DEF OnlyBackedSnapshotsRun
<1>10. HeldAreTheLastTwo'
  <2>1. /\ active' # NoSnapshot /\ ~(Len(g) = 0)
        /\ previous' = NoSnapshot <=> Len(g) < 2
        /\ g[Len(g)].snapshot_id = active'.id
        /\ Len(g) >= 2 => g[Len(g) - 1].snapshot_id = previous'.id
    <3>1. Len(f) >= 1 => g[Len(f)] = f[Len(f)]
      BY <1>5
    <3> QED
      BY <1>1, <1>2, <1>5, <1>6, <3>1
  <2> QED
    BY <1>3, <2>1 DEF HeldAreTheLastTwo
<1>11. RollbacksUndo'
  <2>1. ASSUME NEW i \in 1 .. Len(g), g[i].event_type = "Snapshot.rolledBack"
        PROVE  i > 2 /\ g[i].snapshot_id = g[i - 2].snapshot_id
    <3>1. CASE i <= Len(f)
      <4>1. i \in 1 .. Len(f)
        BY <1>5, <3>1
      <4>2. i > 2 /\ f[i].snapshot_id = f[i - 2].snapshot_id
        BY <1>5, <1>7, <2>1, <4>1
      <4>3. i - 2 \in 1 .. Len(f)
        BY <1>5, <4>1, <4>2
      <4> QED
        BY <1>5, <4>1, <4>2, <4>3
    <3>2. CASE i = Len(f) + 1
      <4>1. type = "Snapshot.rolledBack"
        BY <1>2, <1>5, <2>1, <3>2
      <4>2. s = previous /\ previous # NoSnapshot
        BY <1>1, <4>1
      <4>3. Len(f) >= 2 /\ f[Len(f) - 1].snapshot_id = previous.id
        BY <1>5, <1>6, <4>2
      <4>4. i > 2 /\ i - 2 = Len(f) - 1 /\ Len(f) - 1 \in 1 .. Len(f)
        BY <1>5, <3>2, <4>3
      <4> QED
        BY <1>2, <1>5, <3>2, <4>2, <4>3, <4>4
    <3> QED
      BY <1>5, <3>1, <3>2
  <2> QED
    BY <1>3, <2>1 DEF RollbacksUndo
<1> QED
  BY <1>8, <1>9, <1>10, <1>11 DEF ControlInv

\* A deployment, accepted or rejected.
LEMMA DeployKeeps ==
    ASSUME ControlInv, NEW m \in Manifest, NEW target \in Snapshot, Deploy(m, target)
    PROVE  ControlInv'
<1>0. /\ backed \subseteq backed'
      /\ m.approvals = {"signed"} /\ m.wfv => m.target \in backed'
  BY DEF Deploy
<1>1. target.id \in SnapshotIds
  BY DEF Snapshot
<1>2. CASE verifyManifest(m, target) /\ target.pinned /\ target.intact
  <2>1. /\ previous' = active /\ active' = target
        /\ cpLog' = record(cpLog, ControlEvent("Snapshot.activated", target.id))
    BY <1>2 DEF Deploy
  <2>2. m.approvals # {} /\ "unsigned" \notin m.approvals /\ m.target = target.id /\ m.wfv
    BY <1>2 DEF verifyManifest
  <2>3. m.approvals = {"signed"}
    <3>1. m.approvals \in {{}, {"signed"}, {"unsigned"}, {"signed", "unsigned"}}
      BY DEF Manifest
    <3> QED
      BY <2>2, <3>1
  <2>4. target.id \in backed'
    BY <1>0, <2>2, <2>3
  <2>5. "Snapshot.activated" \in Effects /\ "Snapshot.activated" # "Snapshot.rolledBack"
    BY DEF Effects
  <2> QED
    BY <1>0, <1>2, <2>1, <2>4, <2>5, ControlChange
<1>3. CASE ~(verifyManifest(m, target) /\ target.pinned /\ target.intact)
  <2>1. UNCHANGED <<active, previous>> /\ cpLog' = record(cpLog, ControlEvent("Deployment.rejected", target.id))
    BY <1>3 DEF Deploy
  <2>2. cpLog' \in Seq(ControlEntry) /\ Effective' = Effective
    <3>1. cpLog \in Seq(ControlEntry) /\ "Deployment.rejected" \in Effects \cup {"Deployment.rejected"}
      BY DEF ControlInv, ControlTyped
    <3>2. PICK e \in ControlEntry :
             /\ cpLog' \in Seq(ControlEntry)
             /\ Effective' = IF "Deployment.rejected" # "Deployment.rejected" THEN Append(Effective, e) ELSE Effective
      BY <1>1, <2>1, <3>1, EffectiveStep
    <3> QED
      BY <3>2
  <2>3. ControlTyped' /\ HeldAreTheLastTwo' /\ RollbacksUndo'
    BY <2>1, <2>2, Zenon DEF ControlInv, ControlTyped, HeldAreTheLastTwo, RollbacksUndo
  <2>4. OnlyBackedSnapshotsRun'
    BY <1>0, <2>1 DEF ControlInv, OnlyBackedSnapshotsRun
  <2> QED
    BY <2>3, <2>4 DEF ControlInv
<1> QED
  BY <1>2, <1>3

\* A rollback.
LEMMA RollbackKeeps == ASSUME ControlInv, Rollback PROVE ControlInv'
<1>1. /\ previous # NoSnapshot /\ active' = previous /\ previous' = active /\ backed' = backed
      /\ cpLog' = record(cpLog, ControlEvent("Snapshot.rolledBack", active'.id))
  BY DEF Rollback, RolledBack
<1>2. PICK s : s = previous
  OBVIOUS
<1>3. s \in Snapshot /\ s.id \in backed' /\ s.pinned /\ s.intact
  BY <1>1, <1>2 DEF ControlInv, ControlTyped, OnlyBackedSnapshotsRun
<1>4. active' = s /\ cpLog' = record(cpLog, ControlEvent("Snapshot.rolledBack", s.id)) /\ backed \subseteq backed'
  BY <1>1, <1>2
<1>5. "Snapshot.rolledBack" \in Effects
  BY DEF Effects
<1> QED
  BY <1>1, <1>2, <1>3, <1>4, <1>5, ControlChange

\* INV-V3 and INV-V4 for any number of control-plane calls: what is active
\* or can be returned to was backed by a signed, evidenced manifest, the log
\* tells what is active, and a rollback undoes exactly the last change that
\* took effect (ControlPlane, SnapshotRuntime).
THEOREM DeploymentsHold == Spec => []DeploymentsAreBackedAndReversible
<1>1. Init => ControlInv
  <2> SUFFICES ASSUME Init PROVE ControlInv
    OBVIOUS
  <2>1. active = NoSnapshot /\ previous = NoSnapshot /\ cpLog = <<>> /\ backed = {}
    BY DEF Init
  <2>2. Effective = <<>>
    BY <2>1, FilterEmpty DEF Effective
  <2>3. <<>> \in Seq(ControlEntry) /\ Len(<<>>) = 0
    OBVIOUS
  <2> QED
    BY <2>1, <2>2, <2>3 DEF ControlInv, ControlTyped, OnlyBackedSnapshotsRun, HeldAreTheLastTwo, RollbacksUndo
<1>2. ControlInv /\ [Next]_vars => ControlInv'
  <2> SUFFICES ASSUME ControlInv, [Next]_vars PROVE ControlInv'
    OBVIOUS
  <2>1. CASE InProduction
    <3>1. UNCHANGED control
      BY <2>1 DEF InProduction, RuntimeTransition, RiskTransition, NextDay, RunCycle
    <3> QED
      BY <3>1, ControlStutter
  <2>2. CASE InControl
    BY <2>2, DeployKeeps, RollbackKeeps DEF InControl
  <2>3. CASE InAi
    <3>1. UNCHANGED control
      BY <2>3 DEF InAi, Propose, TransitionProposal, Freeze, GenerateReport
    <3> QED
      BY <3>1, ControlStutter
  <2>4. CASE InResearch
    <3>1. UNCHANGED control
      BY <2>4 DEF InResearch, RunExperiment
    <3> QED
      BY <3>1, ControlStutter
  <2>5. CASE UNCHANGED vars
    <3>1. UNCHANGED control
      BY <2>5 DEF vars
    <3> QED
      BY <3>1, ControlStutter
  <2> QED
    BY <2>1, <2>2, <2>3, <2>4, <2>5 DEF Next
<1>3. ControlInv => DeploymentsAreBackedAndReversible
  <2> SUFFICES ASSUME ControlInv PROVE DeploymentsAreBackedAndReversible
    OBVIOUS
  <2>1. PICK f : f = Effective
    OBVIOUS
  <2>2. f \in Seq(ControlEntry) /\ Len(f) \in Nat /\ DOMAIN f = 1 .. Len(f) /\ (f = <<>> <=> Len(f) = 0)
    BY <2>1 DEF ControlInv, ControlTyped
  <2>3. f # <<>> => Last(f).snapshot_id = active.id
    BY <2>1, <2>2 DEF ControlInv, HeldAreTheLastTwo, Last
  <2>4. active = NoSnapshot <=> f = <<>>
    BY <2>1, <2>2 DEF ControlInv, HeldAreTheLastTwo
  <2>5. \A i \in DOMAIN f : f[i].event_type = "Snapshot.rolledBack" => i > 2 /\ f[i].snapshot_id = f[i - 2].snapshot_id
    BY <2>1, <2>2 DEF ControlInv, RollbacksUndo
  <2>6. RollbackUndoesLastChange
    BY <2>1, <2>3, <2>4, <2>5, Zenon DEF RollbackUndoesLastChange
  <2> QED
    BY <2>6 DEF ControlInv, DeploymentsAreBackedAndReversible
<1> QED
  BY <1>1, <1>2, <1>3, PTL DEF Spec

-----------------------------------------------------------------------------
(* The production machine. *)

\* The transitions of the machine in the log, and the states they lead to.
Own == transitionsOf(log, "production")
OwnMembers(events) == {e \in ToSet(events) : IsTransition(e) /\ e.payload[1] = "production"}
To(f, i) == f[i].payload[2]

\* Each transition is one the table allows in the state before it.
PathIsValid(f) ==
    \A i \in 1 .. Len(f) : /\ To(f, i) \in DOMAIN VALID
                           /\ To(f, i) \in VALID[IF i = 1 THEN "INIT" ELSE To(f, i - 1)]
\* Whatever can lead to RUN after a halt has the recovery behind it.
RecoveryIsBehind(f) ==
    \A i, j \in 1 .. Len(f) :
       (i < j /\ To(f, i) = "HALT" /\ To(f, j) \in {"READY", "RUN", "SAFE_MODE"}) =>
          \E k, l \in i .. j : k < l /\ To(f, k) = "RECOVERY" /\ To(f, l) = "READY"

ProductionInv ==
    /\ log \in Seq(ToSet(log)) /\ Own \in Seq(ToSet(log))
    /\ PathIsValid(Own) /\ RecoveryIsBehind(Own)

\* A path that grows by a transition its last state allows stays recovered.
LEMMA PathGrows ==
    ASSUME NEW S, NEW f \in Seq(S), NEW e, PathIsValid(f), RecoveryIsBehind(f),
           e.payload[2] \in VALID[IF Len(f) = 0 THEN "INIT" ELSE To(f, Len(f))]
    PROVE  PathIsValid(Append(f, e)) /\ RecoveryIsBehind(Append(f, e))
<1>1. PICK g : g = Append(f, e)
  OBVIOUS
<1>2. /\ Len(f) \in Nat /\ Len(g) = Len(f) + 1 /\ g[Len(f) + 1] = e
      /\ \A i \in 1 .. Len(f) : g[i] = f[i]
  BY <1>1
<1>3. /\ To(g, Len(f) + 1) \in VALID[IF Len(f) = 0 THEN "INIT" ELSE To(f, Len(f))]
      /\ \A i \in 1 .. Len(f) : To(g, i) = To(f, i)
  BY <1>2 DEF To
<1> HIDE DEF To
<1>a. \A a \in DOMAIN VALID : VALID[a] \subseteq DOMAIN VALID /\ "INIT" \notin VALID[a]
  BY DEF VALID
<1>b. \A i \in 1 .. Len(g) : To(g, i) \in DOMAIN VALID
  <2>1. \A i \in 1 .. Len(f) : To(g, i) \in DOMAIN VALID
    BY <1>3 DEF PathIsValid
  <2>2. "INIT" \in DOMAIN VALID
    BY DEF VALID
  <2>3. To(g, Len(f) + 1) \in DOMAIN VALID
    <3>1. CASE Len(f) = 0
      <4> HIDE DEF VALID
      <4> QED
        BY <1>3, <1>a, <2>2, <3>1
    <3>2. CASE Len(f) # 0
      <4>1. Len(f) \in 1 .. Len(f)
        BY <1>2, <3>2
      <4>2. To(f, Len(f)) \in DOMAIN VALID
        BY <4>1 DEF PathIsValid
      <4> HIDE DEF VALID
      <4> QED
        BY <1>3, <1>a, <3>2, <4>2
    <3> QED
      BY <3>1, <3>2
  <2> HIDE DEF VALID
  <2> QED
    BY <1>2, <2>1, <2>3
<1>4. PathIsValid(g)
  <2>1. ASSUME NEW i \in 1 .. Len(g) PROVE To(g, i) \in VALID[IF i = 1 THEN "INIT" ELSE To(g, i - 1)]
    <3>1. CASE i <= Len(f)
      <4>1. i \in 1 .. Len(f) /\ (i # 1 => i - 1 \in 1 .. Len(f))
        BY <1>2, <3>1
      <4>2. To(f, i) \in VALID[IF i = 1 THEN "INIT" ELSE To(f, i - 1)]
        BY <4>1 DEF PathIsValid
      <4>3. To(g, i) = To(f, i) /\ (i # 1 => To(g, i - 1) = To(f, i - 1))
        BY <1>3, <4>1
      <4> HIDE DEF VALID
      <4> QED
        BY <4>2, <4>3
    <3>2. CASE i = Len(f) + 1
      <4>1. CASE Len(f) = 0
        <5> HIDE DEF VALID
        <5> QED
          BY <1>3, <3>2, <4>1
      <4>2. CASE Len(f) # 0
        <5>1. i # 1 /\ i - 1 = Len(f) /\ Len(f) \in 1 .. Len(f)
          BY <1>2, <3>2, <4>2
        <5>2. To(g, i - 1) = To(f, Len(f))
          BY <1>3, <5>1
        <5> HIDE DEF VALID
        <5> QED
          BY <1>3, <3>2, <4>2, <5>1, <5>2
      <4> QED
        BY <4>1, <4>2
    <3> QED
      BY <1>2, <3>1, <3>2
  <2> HIDE DEF VALID
  <2> QED
    BY <1>b, <2>1 DEF PathIsValid
<1>5. RecoveryIsBehind(g)
  <2>1. ASSUME NEW i \in 1 .. Len(g), NEW j \in 1 .. Len(g), i < j,
               To(g, i) = "HALT", To(g, j) \in {"READY", "RUN", "SAFE_MODE"}
        PROVE  \E k, l \in i .. j : k < l /\ To(g, k) = "RECOVERY" /\ To(g, l) = "READY"
    <3>1. i \in 1 .. Len(f) /\ To(f, i) = "HALT"
      BY <1>2, <1>3, <2>1
    <3>2. CASE j <= Len(f)
      <4>1. j \in 1 .. Len(f) /\ To(f, j) = To(g, j)
        BY <1>2, <1>3, <3>2
      <4>2. PICK k \in i .. j, l \in i .. j : k < l /\ To(f, k) = "RECOVERY" /\ To(f, l) = "READY"
        BY <2>1, <3>1, <4>1 DEF RecoveryIsBehind
      <4>3. k \in 1 .. Len(f) /\ l \in 1 .. Len(f)
        BY <3>1, <4>1, <4>2
      <4> QED
        BY <1>3, <4>2, <4>3
    <3>3. CASE j = Len(f) + 1
      <4>1. Len(f) # 0 /\ Len(f) \in 1 .. Len(f) /\ i <= Len(f)
        BY <1>2, <3>1
      <4>2. To(g, j) \in VALID[To(f, Len(f))] /\ To(g, Len(f)) = To(f, Len(f))
        <5> HIDE DEF VALID
        <5> QED
          BY <1>3, <3>3, <4>1
      <4>3. To(f, Len(f)) \in DOMAIN VALID
        BY <4>1 DEF PathIsValid
      <4>4. /\ To(g, j) = "READY" => To(f, Len(f)) \in {"INIT", "RECOVERY"}
            /\ To(g, j) # "READY" => To(f, Len(f)) \in {"READY", "RUN", "SAFE_MODE"}
        <5>1. ASSUME NEW a, NEW b, a \in DOMAIN VALID, b \in VALID[a], b \in {"READY", "RUN", "SAFE_MODE"}
              PROVE  /\ b = "READY" => a \in {"INIT", "RECOVERY"}
                     /\ b # "READY" => a \in {"READY", "RUN", "SAFE_MODE"}
          BY <5>1 DEF VALID
        <5> QED
          BY <2>1, <4>2, <4>3, <5>1
      <4>5. CASE To(g, j) # "READY"
        <5>1. To(f, Len(f)) \in {"READY", "RUN", "SAFE_MODE"} /\ i < Len(f)
          BY <3>1, <4>1, <4>4, <4>5
        <5>2. PICK k \in i .. Len(f), l \in i .. Len(f) : k < l /\ To(f, k) = "RECOVERY" /\ To(f, l) = "READY"
          BY <3>1, <4>1, <5>1 DEF RecoveryIsBehind
        <5>3. k \in 1 .. Len(f) /\ l \in 1 .. Len(f) /\ k \in i .. j /\ l \in i .. j
          BY <1>2, <3>1, <3>3, <5>2
        <5> QED
          BY <1>3, <5>2, <5>3
      <4>6. CASE To(g, j) = "READY"
        <5>1. To(f, Len(f)) # "INIT"
          <6>1. To(f, Len(f)) \in VALID[IF Len(f) = 1 THEN "INIT" ELSE To(f, Len(f) - 1)]
            BY <4>1 DEF PathIsValid
          <6>2. "INIT" \notin VALID["INIT"]
            BY DEF VALID
          <6>3. Len(f) # 1 => To(f, Len(f) - 1) \in DOMAIN VALID
            <7>1. Len(f) # 1 => Len(f) - 1 \in 1 .. Len(f)
              <8>1. \A n \in Nat : n # 0 /\ n # 1 => n - 1 \in 1 .. n
                OBVIOUS
              <8> QED
                BY <1>2, <4>1, <8>1
            <7> HIDE DEF VALID
            <7> QED
              BY <7>1 DEF PathIsValid
          <6>4. CASE Len(f) = 1
            <7> HIDE DEF VALID
            <7> QED
              BY <6>1, <6>2, <6>4
          <6>5. CASE Len(f) # 1
            <7>1. To(f, Len(f)) \in VALID[To(f, Len(f) - 1)]
              <8> HIDE DEF VALID
              <8> QED
                BY <6>1, <6>5
            <7> HIDE DEF VALID
            <7> QED
              BY <1>a, <6>3, <6>5, <7>1
          <6> QED
            BY <6>4, <6>5
        <5>2. To(g, Len(f)) = "RECOVERY"
          BY <4>2, <4>4, <4>6, <5>1
        <5>3. Len(f) \in i .. j /\ j \in i .. j /\ Len(f) < j
          BY <1>2, <3>3, <4>1
        <5> QED
          BY <4>6, <5>2, <5>3
      <4> QED
        BY <4>5, <4>6
    <3> QED
      BY <1>2, <3>2, <3>3
  <2> QED
    BY <2>1 DEF RecoveryIsBehind
<1> QED
  BY <1>1, <1>4, <1>5

\* What a log held before it grew is a transition of this machine as before.
LEMMA OwnMembersAgree ==
    ASSUME NEW S, NEW old \in Seq(S), NEW new \in Seq(S), Len(old) <= Len(new),
           \A i \in 1 .. Len(old) : new[i] = old[i]
    PROVE  \A i \in 1 .. Len(old) : old[i] \in OwnMembers(old) <=> old[i] \in OwnMembers(new)
<1> SUFFICES ASSUME NEW i \in 1 .. Len(old)
             PROVE  old[i] \in OwnMembers(old) <=> old[i] \in OwnMembers(new)
  OBVIOUS
<1>1. i \in DOMAIN old /\ i \in DOMAIN new /\ new[i] = old[i]
  OBVIOUS
<1>2. old[i] \in ToSet(old) /\ old[i] \in ToSet(new)
  BY <1>1, Zenon DEF ToSet
<1> QED
  BY <1>2, Zenon DEF OwnMembers

\* An entry of another kind, or of another machine, leaves the path alone; a
\* transition of this machine is at its end.
LEMMA OwnStep ==
    ASSUME log \in Seq(ToSet(log)), NEW input, log' = record(log, input)
    PROVE  \E e : /\ e.event_type = input.event_type /\ e.payload = input.payload
                  /\ log' \in Seq(ToSet(log'))
                  /\ Own' = IF IsTransition(e) /\ e.payload[1] = "production" THEN Append(Own, e) ELSE Own
<1>1. PICK e, old, new : /\ e = Numbered(input, Len(log) + 1) /\ old = log /\ new = log'
  OBVIOUS
<1>2. e.event_type = input.event_type /\ e.payload = input.payload
  BY <1>1 DEF Numbered
<1>3. new = Append(old, e)
  BY <1>1 DEF record
<1> DEFINE S == ToSet(old) \cup {e}
<1>4. old \in Seq(S) /\ e \in S
  BY <1>1 DEF ToSet
<1>5. /\ new \in Seq(S) /\ Len(new) = Len(old) + 1 /\ Len(old) \in Nat /\ new[Len(old) + 1] = e
      /\ \A i \in 1 .. Len(old) : new[i] = old[i]
  <2> HIDE DEF S
  <2> QED
    BY <1>3, <1>4
<1>6. new \in Seq(ToSet(new))
  BY <1>5 DEF ToSet
<1>7. PICK keep, keep2 : keep = OwnMembers(old) /\ keep2 = OwnMembers(new)
  OBVIOUS
<1>8. \A i \in 1 .. Len(old) : old[i] \in keep <=> old[i] \in keep2
  <2> HIDE DEF S
  <2>1. \A i \in 1 .. Len(old) : old[i] \in OwnMembers(old) <=> old[i] \in OwnMembers(new)
    BY <1>4, <1>5, OwnMembersAgree
  <2> QED
    BY <1>7, <2>1, Zenon
<1>9. e \in keep2 <=> IsTransition(e) /\ e.payload[1] = "production"
  BY <1>5, <1>7 DEF OwnMembers, ToSet
<1>10. Filter(Append(old, e), keep2) = IF e \in keep2 THEN Append(Filter(old, keep), e) ELSE Filter(old, keep)
  <2> HIDE DEF S
  <2> QED
    BY <1>4, <1>8, FilterGrows
<1>11. Own = Filter(old, keep) /\ Own' = Filter(new, keep2)
  BY <1>1, <1>7, Zenon DEF Own, transitionsOf, OwnMembers
<1>12. Own' = IF IsTransition(e) /\ e.payload[1] = "production" THEN Append(Own, e) ELSE Own
  BY <1>3, <1>9, <1>10, <1>11, Zenon
<1> QED
  BY <1>1, <1>2, <1>6, <1>12

\* Entries that are no transitions leave the path alone.
LEMMA OwnKept ==
    ASSUME log \in Seq(ToSet(log)), NEW S, NEW inputs \in Seq(S), \A x \in S : x.event_type # "State.transitioned",
           log' = recordAll(log, inputs)
    PROVE  log' \in Seq(ToSet(log')) /\ Own' = Own
<1>1. PICK added, old, new : /\ added = [i \in DOMAIN inputs |-> Numbered(inputs[i], Len(log) + i)]
                             /\ old = log /\ new = log'
  OBVIOUS
<1>2. new = old \o added
  BY <1>1 DEF recordAll
<1>3. /\ DOMAIN inputs = 1 .. Len(inputs) /\ Len(inputs) \in Nat
      /\ \A i \in 1 .. Len(inputs) : inputs[i] \in S
  OBVIOUS
<1> DEFINE R == ToSet(old) \cup {added[i] : i \in 1 .. Len(inputs)}
<1>4. added \in Seq(R) /\ Len(added) = Len(inputs) /\ old \in Seq(R)
  BY <1>1, <1>3 DEF ToSet
<1>5. \A i \in 1 .. Len(added) : ~IsTransition(added[i])
  <2>1. ASSUME NEW i \in 1 .. Len(inputs) PROVE ~IsTransition(added[i])
    <3>1. added[i] = Numbered(inputs[i], Len(log) + i)
      BY <1>1, <1>3
    <3>2. added[i].event_type = inputs[i].event_type
      BY <3>1 DEF Numbered
    <3> QED
      BY <1>3, <3>2 DEF IsTransition
  <2> QED
    BY <1>4, <2>1
<1>6. new \in Seq(R) /\ Len(new) \in Nat /\ Len(old) \in Nat
      /\ Len(old) <= Len(new) /\ \A i \in 1 .. Len(old) : new[i] = old[i]
  <2> HIDE DEF R
  <2> QED
    BY <1>2, <1>4
<1>7. new \in Seq(ToSet(new))
  BY <1>6 DEF ToSet
<1>8. PICK keep, keep2 : keep = OwnMembers(old) /\ keep2 = OwnMembers(new)
  OBVIOUS
<1>9. \A i \in 1 .. Len(old) : old[i] \in keep <=> old[i] \in keep2
  <2> HIDE DEF R
  <2>1. \A i \in 1 .. Len(old) : old[i] \in OwnMembers(old) <=> old[i] \in OwnMembers(new)
    BY <1>4, <1>6, OwnMembersAgree
  <2> QED
    BY <1>8, <2>1, Zenon
<1>10. \A i \in 1 .. Len(added) : added[i] \notin keep2
  BY <1>5, <1>8 DEF OwnMembers
<1>11. Filter(old \o added, keep2) = Filter(old, keep)
  <2> HIDE DEF R
  <2> QED
    BY <1>4, <1>9, <1>10, FilterSkips
<1>12. Own = Filter(old, keep) /\ Own' = Filter(new, keep2)
  BY <1>1, <1>8, Zenon DEF Own, transitionsOf, OwnMembers
<1> QED
  BY <1>1, <1>2, <1>7, <1>11, <1>12, Zenon

\* The planned symbols have an increasing order, and it leaves none out.
LEMMA AllocationsAreThePlan ==
    ASSUME NEW planned \in SUBSET Symbols
    PROVE  \E m \in Nat : /\ m = Cardinality(planned) /\ Allocations(planned) \in [1 .. m -> planned]
                          /\ Increasing(Allocations(planned))
                          /\ \A s \in planned : \E i \in 1 .. m : Allocations(planned)[i] = s
<1>1. planned \in SUBSET Nat /\ IsFiniteSet(planned)
  BY GovernanceAssumption, FS_Subset
<1>2. \E a \in [1 .. Cardinality(planned) -> planned] : Increasing(a)
  BY <1>1, EnumerationExists
<1>3. Allocations(planned) \in [1 .. Cardinality(planned) -> planned] /\ Increasing(Allocations(planned))
  BY <1>2 DEF Allocations, Increasing
<1>4. \A s \in planned : \E i \in 1 .. Cardinality(planned) : Allocations(planned)[i] = s
  <2>1. PICK a : a = Allocations(planned)
    OBVIOUS
  <2> QED
    BY <1>1, <1>3, <2>1, EnumerationIsComplete
<1>5. Cardinality(planned) \in Nat
  BY <1>1, FS_CardinalityType
<1> QED
  BY <1>3, <1>4, <1>5

\* A cycle decides about the first m of the k allocations: all of them, or up
\* to the one on which the adapter throws.
Course(plan, k, fates, m, planned) ==
    /\ k \in Nat /\ m \in Nat /\ m <= k
    /\ plan = Allocations(planned) /\ plan \in [1 .. k -> planned] /\ Increasing(plan)
    /\ fates \in [1 .. m -> Fates] /\ Len(fates) = m
    /\ \A i \in 1 .. m : fates[i] \in Throws => i = m
    /\ m < k => m > 0 /\ fates[m] \in Throws

LEMMA CourseOfPlan ==
    ASSUME NEW planned \in SUBSET Symbols, NEW fates \in Courses(planned)
    PROVE  \E plan, k, m : Course(plan, k, fates, m, planned)
<1>1. PICK k \in Nat : /\ k = Cardinality(planned) /\ Allocations(planned) \in [1 .. k -> planned]
                      /\ Increasing(Allocations(planned))
  BY AllocationsAreThePlan
<1>2. /\ fates \in UNION {[1..i -> Fates] : i \in 0..k}
      /\ \A i \in DOMAIN fates : fates[i] \in Throws => i = Len(fates)
      /\ Len(fates) < k => fates # <<>> /\ Last(fates) \in Throws
  BY <1>1 DEF Courses
<1>3. PICK m \in 0..k : fates \in [1..m -> Fates]
  BY <1>2
<1>4. fates \in Seq(Fates) /\ Len(fates) = m /\ DOMAIN fates = 1 .. m
  BY <1>3
<1>5. m < k => m > 0 /\ fates[m] \in Throws
  <2> SUFFICES ASSUME m < k PROVE m > 0 /\ fates[m] \in Throws
    OBVIOUS
  <2>1. fates # <<>> /\ Last(fates) = fates[m] /\ Last(fates) \in Throws
    BY <1>2, <1>4 DEF Last
  <2>2. m > 0
    BY <1>4, <2>1
  <2> QED
    BY <2>1, <2>2
<1>6. PICK plan : plan = Allocations(planned)
  OBVIOUS
<1>7. Course(plan, k, fates, m, planned)
  BY <1>1, <1>2, <1>3, <1>4, <1>5, <1>6 DEF Course
<1> QED
  BY <1>7, Zenon

\* The stages a cycle records, whatever the ports answer, are no transitions.
LEMMA CycleIsSilent ==
    ASSUME NEW n, NEW planned \in SUBSET Symbols, NEW fates \in Courses(planned)
    PROVE  \E S : CycleEvents(n, planned, fates) \in Seq(S) /\ \A x \in S : x.event_type # "State.transitioned"
<1>0. PICK plan, k, m : Course(plan, k, fates, m, planned)
  BY CourseOfPlan
<1>1. /\ m \in Nat /\ plan = Allocations(planned) /\ \A i \in 1 .. m : plan[i] \in planned
      /\ fates \in [1 .. m -> Fates] /\ Len(fates) = m
  BY <1>0 DEF Course
<1> DEFINE sym(i) == plan[i]
           decided(i) == orch("Risk.decided", n, <<sym(i), IF fates[i] = "refused" THEN "refused" ELSE "approved">>)
           ofOrder(i) == {decided(i), exec("Order.sent", sym(i)), exec("Fill.received", sym(i)), exec("Order.rejected", sym(i))}
           orders == UNION {ofOrder(i) : i \in 1 .. m}
           perOrder == [i \in 1 .. m |-> OrderEvents(n, sym(i), fates[i])]
<1>3. ASSUME NEW i \in 1 .. m PROVE \A x \in ofOrder(i) : x.event_type # "State.transitioned"
  BY DEF orch, exec, Event
<1>4. ASSUME NEW i \in 1 .. m PROVE OrderEvents(n, sym(i), fates[i]) \in Seq(orders)
  <2>1. PICK s, f, a, b, c, d : /\ s = sym(i) /\ f = fates[i] /\ a = decided(i)
                                /\ b = exec("Order.sent", s) /\ c = exec("Fill.received", s) /\ d = exec("Order.rejected", s)
    OBVIOUS
  <2>2. {a, b, c, d} \subseteq orders
    BY <2>1
  <2>3. GatewayEvents(s, f) \in {<<b, c>>, <<b>>, <<d>>, <<>>}
    BY <2>1 DEF GatewayEvents
  <2>4. OrderEvents(n, s, f) = <<a>> \o GatewayEvents(s, f)
    BY <2>1, Zenon DEF OrderEvents
  <2> HIDE DEF orders
  <2>5. <<a>> \in Seq(orders) /\ <<b, c>> \in Seq(orders) /\ <<b>> \in Seq(orders) /\ <<d>> \in Seq(orders) /\ <<>> \in Seq(orders)
    BY <2>2
  <2>6. GatewayEvents(s, f) \in Seq(orders)
    BY <2>3, <2>5
  <2>7. <<a>> \o GatewayEvents(s, f) \in Seq(orders)
    BY <2>5, <2>6
  <2> QED
    BY <2>1, <2>4, <2>7, Zenon
<1>5. \A x \in orders : x.event_type # "State.transitioned"
  <2> HIDE DEF ofOrder
  <2> QED
    BY <1>3
<1>6. FlattenSeq(perOrder) \in Seq(orders)
  <2> HIDE DEF orders, sym
  <2>1. perOrder \in Seq(Seq(orders))
    BY <1>1, <1>4
  <2> QED
    BY <2>1, FlattenType
<1>7. PICK a, b, c, rest, O : /\ a = orch("MarketHealth.scored", n, <<MarketMode(MarketScore(Features[day]))>>)
                              /\ b = orch("Strategy.evaluated", n, <<MarketMode(MarketScore(Features[day]))>>)
                              /\ c = orch("Portfolio.planned", n, plan)
                              /\ rest = FlattenSeq(perOrder) /\ O = orders
  OBVIOUS
<1>8. CycleEvents(n, planned, fates) = <<a, b, c>> \o rest
  <2>2. rest = FlattenSeq([i \in 1 .. m |-> OrderEvents(n, plan[i], fates[i])])
    BY <1>7
  <2> HIDE DEF perOrder, orders
  <2> QED
    BY <1>1, <1>7, <2>2, Zenon DEF CycleEvents
<1> DEFINE S == {a, b, c} \cup O
<1>9. \A x \in {a, b, c} : x.event_type # "State.transitioned"
  BY <1>7 DEF orch, Event
<1>10. rest \in Seq(O) /\ \A x \in O : x.event_type # "State.transitioned"
  BY <1>5, <1>6, <1>7
<1>11. <<a, b, c>> \o rest \in Seq(S)
  <2>1. <<a, b, c>> \in Seq(S) /\ rest \in Seq(S)
    BY <1>10
  <2> QED
    BY <2>1
<1> QED
  BY <1>8, <1>9, <1>10, <1>11

\* The parts and the steps that do not write to the log.
LEMMA ProductionStutter == ASSUME ProductionInv, log' = log PROVE ProductionInv'
<1>1. Own' = Own
  BY Zenon DEF Own
<1> QED
  BY <1>1, Zenon DEF ProductionInv

\* A transition of the runtime goes where the table allows.
LEMMA RuntimeKeeps ==
    ASSUME ProductionInv, NEW to \in DOMAIN VALID, RuntimeTransition(to) PROVE ProductionInv'
<1>1. PICK input : input = Transition("production", to, day)
  OBVIOUS
<1>2. input.event_type = "State.transitioned" /\ input.payload = <<"production", to>>
  BY <1>1 DEF Transition, Event
<1>3. log' = record(log, input) /\ to \in VALID[state]
  BY <1>1, Zenon DEF RuntimeTransition
<1>4. log \in Seq(ToSet(log))
  BY DEF ProductionInv
<1>5. PICK e : /\ e.event_type = input.event_type /\ e.payload = input.payload
               /\ log' \in Seq(ToSet(log'))
               /\ Own' = IF IsTransition(e) /\ e.payload[1] = "production" THEN Append(Own, e) ELSE Own
  BY <1>3, <1>4, OwnStep
<1>6. IsTransition(e) /\ e.payload[1] = "production" /\ e.payload[2] = to
  BY <1>2, <1>5 DEF IsTransition
<1>7. PICK f, S : f = Own /\ S = ToSet(log)
  OBVIOUS
<1>8. f \in Seq(S) /\ PathIsValid(f) /\ RecoveryIsBehind(f) /\ Own' = Append(f, e)
  BY <1>5, <1>6, <1>7, Zenon DEF ProductionInv
<1>9. state = IF Len(f) = 0 THEN "INIT" ELSE To(f, Len(f))
  <2>1. state = IF f = <<>> THEN "INIT" ELSE Last(f).payload[2]
    BY <1>7, Zenon DEF state, currentState, Own
  <2>2. f = <<>> <=> Len(f) = 0
    BY <1>8
  <2> QED
    BY <2>1, <2>2 DEF Last, To
<1>10. e.payload[2] \in VALID[IF Len(f) = 0 THEN "INIT" ELSE To(f, Len(f))]
  BY <1>3, <1>6, <1>9, Zenon
<1>11. PathIsValid(Append(f, e)) /\ RecoveryIsBehind(Append(f, e))
  BY <1>8, <1>10, PathGrows
<1>12. Own' \in Seq(ToSet(log'))
  BY <1>5, FilterType DEF Own, transitionsOf
<1> QED
  BY <1>5, <1>8, <1>11, <1>12, Zenon DEF ProductionInv

\* The risk engine's transition is of another machine.
LEMMA RiskKeeps == ASSUME ProductionInv, RiskTransition PROVE ProductionInv'
<1>1. PICK input : input = Transition("risk", "READY", day)
  OBVIOUS
<1>2. input.payload = <<"risk", "READY">>
  BY <1>1 DEF Transition, Event
<1>3. log' = record(log, input) /\ log \in Seq(ToSet(log))
  BY <1>1, Zenon DEF RiskTransition, ProductionInv
<1>4. PICK e : /\ e.event_type = input.event_type /\ e.payload = input.payload
               /\ log' \in Seq(ToSet(log'))
               /\ Own' = IF IsTransition(e) /\ e.payload[1] = "production" THEN Append(Own, e) ELSE Own
  BY <1>3, OwnStep
<1>5. e.payload[1] # "production"
  BY <1>2, <1>4
<1>6. Own' = Own
  BY <1>4, <1>5
<1>7. Own' \in Seq(ToSet(log'))
  BY <1>4, FilterType DEF Own, transitionsOf
<1> QED
  BY <1>4, <1>6, <1>7, Zenon DEF ProductionInv

\* A cycle records no transition.
LEMMA CycleKeeps ==
    ASSUME ProductionInv, NEW planned \in SUBSET Symbols, NEW fates \in Courses(planned), RunCycle(planned, fates)
    PROVE  ProductionInv'
<1>1. PICK n, inputs : n = cycle' /\ inputs = CycleEvents(n, planned, fates)
  OBVIOUS
<1>2. log' = recordAll(log, inputs) /\ log \in Seq(ToSet(log))
  BY <1>1, Zenon DEF RunCycle, ProductionInv
<1>3. PICK S : inputs \in Seq(S) /\ \A x \in S : x.event_type # "State.transitioned"
  BY <1>1, CycleIsSilent
<1>4. log' \in Seq(ToSet(log')) /\ Own' = Own
  BY <1>2, <1>3, OwnKept
<1>5. Own' \in Seq(ToSet(log'))
  BY <1>4, FilterType DEF Own, transitionsOf
<1> QED
  BY <1>4, <1>5, Zenon DEF ProductionInv

\* INV-S2 for any number of cycles, days and symbols: after a HALT of the
\* production runtime no RUN without RECOVERY and READY between, though the
\* state is derived from a log that the risk engine, the orchestrator and
\* the gateway write to as well (ProductionRuntime, CycleOrchestrator).
THEOREM HaltsHold == Spec => []HaltNeedsRecovery
<1>1. Init => ProductionInv
  <2> SUFFICES ASSUME Init PROVE ProductionInv
    OBVIOUS
  <2>1. log = <<>>
    BY DEF Init
  <2>2. Own = <<>>
    BY <2>1, FilterEmpty DEF Own, transitionsOf
  <2>3. <<>> \in Seq(ToSet(log)) /\ Len(<<>>) = 0
    OBVIOUS
  <2>4. PathIsValid(<<>>) /\ RecoveryIsBehind(<<>>)
    BY DEF PathIsValid, RecoveryIsBehind
  <2> QED
    BY <2>1, <2>2, <2>3, <2>4, Zenon DEF ProductionInv
<1>2. ProductionInv /\ [Next]_vars => ProductionInv'
  <2> SUFFICES ASSUME ProductionInv, [Next]_vars PROVE ProductionInv'
    OBVIOUS
  <2>1. CASE InProduction
    <3>1. CASE NextDay
      BY <3>1, ProductionStutter DEF NextDay
    <3>2. CASE \E to \in DOMAIN VALID : RuntimeTransition(to)
      <4> HIDE DEF VALID
      <4> QED
        BY <3>2, RuntimeKeeps
    <3>3. CASE \E planned \in SUBSET Symbols : \E fates \in Courses(planned) : RunCycle(planned, fates)
      BY <3>3, CycleKeeps
    <3> QED
      BY <2>1, <3>1, <3>2, <3>3, RiskKeeps, Zenon DEF InProduction
  <2>2. CASE InControl
    <3>1. log' = log
      BY <2>2 DEF InControl, Deploy, Rollback, production
    <3> QED
      BY <3>1, ProductionStutter
  <2>3. CASE InAi
    <3>1. log' = log
      BY <2>3 DEF InAi, Propose, TransitionProposal, Freeze, GenerateReport, production
    <3> QED
      BY <3>1, ProductionStutter
  <2>4. CASE InResearch
    <3>1. log' = log
      BY <2>4 DEF InResearch, RunExperiment, production
    <3> QED
      BY <3>1, ProductionStutter
  <2>5. CASE UNCHANGED vars
    <3>1. log' = log
      BY <2>5 DEF vars, production
    <3> QED
      BY <3>1, ProductionStutter
  <2> QED
    BY <2>1, <2>2, <2>3, <2>4, <2>5 DEF Next
<1>3. ProductionInv => HaltNeedsRecovery
  <2> SUFFICES ASSUME ProductionInv PROVE HaltNeedsRecovery
    OBVIOUS
  <2>1. PICK f, S : f = Own /\ S = ToSet(log)
    OBVIOUS
  <2>2. f \in Seq(S) /\ RecoveryIsBehind(f)
    BY <2>1, Zenon DEF ProductionInv
  <2> DEFINE path == [i \in DOMAIN transitionsOf(log, "production") |-> transitionsOf(log, "production")[i].payload[2]]
  <2>3. path = [i \in DOMAIN f |-> f[i].payload[2]]
    BY <2>1, Zenon DEF Own
  <2> HIDE DEF path
  <2>4. DOMAIN path = 1 .. Len(f) /\ \A i \in 1 .. Len(f) : path[i] = To(f, i)
    BY <2>2, <2>3 DEF To
  <2>5. \A i, j \in DOMAIN path : (i < j /\ path[i] = "HALT" /\ path[j] = "RUN") =>
           \E k, l \in i .. j : k < l /\ path[k] = "RECOVERY" /\ path[l] = "READY"
    <3> TAKE i, j \in DOMAIN path
    <3> HAVE i < j /\ path[i] = "HALT" /\ path[j] = "RUN"
    <3>1. PICK k \in i .. j, l \in i .. j : k < l /\ To(f, k) = "RECOVERY" /\ To(f, l) = "READY"
      BY <2>2, <2>4 DEF RecoveryIsBehind
    <3>2. k \in 1 .. Len(f) /\ l \in 1 .. Len(f)
      BY <2>2, <2>4
    <3> QED
      BY <2>4, <3>1, <3>2
  <2> QED
    BY <2>5 DEF HaltNeedsRecovery, path
<1> QED
  BY <1>1, <1>2, <1>3, PTL DEF Spec

-----------------------------------------------------------------------------
(* The AI layer.  What a log says of a proposal. *)

IsMoveOf(x, id) == x.event_type = "AI.proposalTransitioned" /\ x.correlation_id = <<"prop", id>>
MovesIn(l, id) == {i \in DOMAIN l : l[i].event_type = "AI.proposalTransitioned" /\ l[i].correlation_id = <<"prop", id>>}
StatusIn(l, id) == IF MovesIn(l, id) = {} THEN "draft" ELSE l[Max(MovesIn(l, id))].payload[2]
IsEvidence(x, corr) == x.event_type = "AI.proposalValidated" /\ x.correlation_id = corr
Ends(x, corr) == /\ x.event_type = "AI.proposalTransitioned" /\ x.correlation_id = corr
                 /\ x.payload[2] \in {"rejected", "archived"}
HasEvidence(l, corr) == \E i \in 1 .. Len(l) : IsEvidence(l[i], corr)
HasEnded(l, corr) == \E i \in 1 .. Len(l) : Ends(l[i], corr)
FrozenWell(l) ==
    \A i \in 1 .. Len(l) : l[i].event_type = "AI.artifactFrozen" =>
       /\ \E j \in 1 .. i : IsEvidence(l[j], l[i].correlation_id)
       /\ ~\E j \in 1 .. i : Ends(l[j], l[i].correlation_id)

\* What an entry more changes of it.
LEMMA EntryAdded ==
    ASSUME NEW S, NEW l \in Seq(S), NEW x
    PROVE  /\ Append(l, x) \in Seq(S \cup {x}) /\ Len(Append(l, x)) = Len(l) + 1
           /\ \A id : StatusIn(Append(l, x), id) = IF IsMoveOf(x, id) THEN x.payload[2] ELSE StatusIn(l, id)
           /\ \A corr : HasEvidence(Append(l, x), corr) <=> HasEvidence(l, corr) \/ IsEvidence(x, corr)
           /\ \A corr : HasEnded(Append(l, x), corr) <=> HasEnded(l, corr) \/ Ends(x, corr)
           /\ (/\ FrozenWell(l)
               /\ x.event_type = "AI.artifactFrozen" => HasEvidence(l, x.correlation_id) /\ ~HasEnded(l, x.correlation_id))
              => FrozenWell(Append(l, x))
<1>1. PICK n, u : n = Len(l) /\ u = Append(l, x)
  OBVIOUS
<1>2. /\ n \in Nat /\ u \in Seq(S \cup {x}) /\ Len(u) = n + 1 /\ u[n + 1] = x
      /\ DOMAIN u = 1 .. n + 1 /\ DOMAIN l = 1 .. n
      /\ \A i \in 1 .. n : u[i] = l[i]
  <2>1. l \in Seq(S \cup {x})
    OBVIOUS
  <2> QED
    BY <1>1, <2>1
<1>3. /\ n + 1 \in 1 .. n + 1 /\ \A i \in 1 .. n : i \in 1 .. n + 1
      /\ \A i \in 1 .. n + 1 : i \in 1 .. n \/ i = n + 1
  BY <1>2
<1>4. ASSUME NEW id PROVE StatusIn(u, id) = IF IsMoveOf(x, id) THEN x.payload[2] ELSE StatusIn(l, id)
  <2>1. PICK old, new : old = MovesIn(l, id) /\ new = MovesIn(u, id)
    OBVIOUS
  <2>2. old \in SUBSET (1 .. n) /\ new \in SUBSET (1 .. n + 1)
    BY <1>2, <2>1 DEF MovesIn
  <2>3. \A i \in 1 .. n : i \in old <=> i \in new
    BY <1>2, <1>3, <2>1 DEF MovesIn
  <2>4. n + 1 \in new <=> IsMoveOf(x, id)
    BY <1>2, <1>3, <2>1 DEF MovesIn, IsMoveOf
  <2>5. CASE IsMoveOf(x, id)
    <3>1. Max(new) \in new /\ \A y \in new : Max(new) >= y
      <4>1. n + 1 \in Nat /\ new \in SUBSET (1 .. n + 1) /\ new # {}
        BY <1>2, <2>2, <2>4, <2>5
      <4> QED
        BY <4>1, MaxIsMember
    <3> HIDE DEF Max
    <3>2. Max(new) = n + 1
      <4>1. PICK m : m = Max(new)
        OBVIOUS
      <4>2. m \in new /\ \A y \in new : m >= y
        BY <3>1, <4>1, Zenon
      <4>3. n + 1 \in new
        BY <2>4, <2>5
      <4>4. m \in 1 .. n + 1 /\ m >= n + 1
        BY <2>2, <4>2, <4>3
      <4>5. m = n + 1
        BY <1>2, <4>4
      <4> QED
        BY <4>1, <4>5
    <3>3. StatusIn(u, id) = u[n + 1].payload[2]
      BY <2>1, <2>4, <2>5, <3>2 DEF StatusIn
    <3> QED
      BY <1>2, <2>5, <3>3
  <2>6. CASE ~IsMoveOf(x, id)
    <3>1. new = old
      BY <1>3, <2>2, <2>3, <2>4, <2>6
    <3>2. old # {} => Max(old) \in 1 .. n
      <4>1. old # {} => Max(old) \in old
        <5>1. n \in Nat /\ old \in SUBSET (1 .. n)
          BY <1>2, <2>2
        <5> QED
          BY <5>1, MaxIsMember
      <4> HIDE DEF Max
      <4> QED
        BY <2>2, <4>1
    <3> HIDE DEF Max
    <3>3. old # {} => u[Max(old)] = l[Max(old)]
      BY <1>2, <3>2
    <3> QED
      BY <2>1, <2>6, <3>1, <3>3 DEF StatusIn
  <2> QED
    BY <2>5, <2>6
<1>5. ASSUME NEW corr PROVE HasEvidence(u, corr) <=> HasEvidence(l, corr) \/ IsEvidence(x, corr)
  <2>1. HasEvidence(u, corr) <=> \E i \in 1 .. n + 1 : IsEvidence(u[i], corr)
    BY <1>2 DEF HasEvidence
  <2>2. HasEvidence(l, corr) <=> \E i \in 1 .. n : IsEvidence(l[i], corr)
    BY <1>1 DEF HasEvidence
  <2> QED
    BY <1>2, <1>3, <2>1, <2>2, Zenon
<1>6. ASSUME NEW corr PROVE HasEnded(u, corr) <=> HasEnded(l, corr) \/ Ends(x, corr)
  <2>1. HasEnded(u, corr) <=> \E i \in 1 .. n + 1 : Ends(u[i], corr)
    BY <1>2 DEF HasEnded
  <2>2. HasEnded(l, corr) <=> \E i \in 1 .. n : Ends(l[i], corr)
    BY <1>1 DEF HasEnded
  <2> QED
    BY <1>2, <1>3, <2>1, <2>2, Zenon
<1>7. ASSUME FrozenWell(l),
             x.event_type = "AI.artifactFrozen" => HasEvidence(l, x.correlation_id) /\ ~HasEnded(l, x.correlation_id)
      PROVE  FrozenWell(u)
  <2> SUFFICES ASSUME NEW i \in 1 .. n + 1, u[i].event_type = "AI.artifactFrozen"
               PROVE  /\ \E j \in 1 .. i : IsEvidence(u[j], u[i].correlation_id)
                      /\ ~\E j \in 1 .. i : Ends(u[j], u[i].correlation_id)
    BY <1>2 DEF FrozenWell
  <2>1. CASE i \in 1 .. n
    <3>1. /\ u[i] = l[i] /\ \A j \in 1 .. i : u[j] = l[j]
      BY <1>2, <2>1
    <3>2. /\ \E j \in 1 .. i : IsEvidence(l[j], l[i].correlation_id)
          /\ ~\E j \in 1 .. i : Ends(l[j], l[i].correlation_id)
      BY <1>1, <1>7, <2>1, <3>1 DEF FrozenWell
    <3> QED
      BY <3>1, <3>2
  <2>2. CASE i = n + 1
    <3>1. HasEvidence(l, x.correlation_id) /\ ~HasEnded(l, x.correlation_id) /\ u[i] = x
      BY <1>2, <1>7, <2>2
    <3>2. HasEvidence(u, x.correlation_id)
      BY <1>5, <3>1
    <3>3. ~HasEnded(u, x.correlation_id)
      <4>1. ~Ends(x, x.correlation_id)
        BY <2>2, <3>1 DEF Ends
      <4> QED
        BY <1>6, <3>1, <4>1
    <3>4. i = Len(u)
      BY <1>2, <2>2
    <3> QED
      BY <3>1, <3>2, <3>3, <3>4, Zenon DEF HasEvidence, HasEnded
  <2> QED
    BY <1>3, <2>1, <2>2
<1> QED
  BY <1>1, <1>2, <1>4, <1>5, <1>6, <1>7, Zenon

\* The log l and the statuses p agree: who the entries are about, the status
\* of each, the evidence behind a validation, and no end without its mark.
LogKnows(l, p) ==
    /\ \A i \in 1 .. Len(l) : \/ l[i].correlation_id = <<"report">>
                              \/ \E id \in 1 .. Len(p) : l[i].correlation_id = <<"prop", id>>
    /\ \A id \in 1 .. Len(p) : StatusIn(l, id) = p[id].status
    /\ \A id \in 1 .. Len(p) : MayFreeze(p[id].status) => HasEvidence(l, <<"prop", id>>)
    /\ \A id \in 1 .. Len(p) : p[id].status \notin {"rejected", "archived"} => ~HasEnded(l, <<"prop", id>>)
    /\ FrozenWell(l)

Statuses == DOMAIN LIFECYCLE
AiProposal == [kind : ProposalKinds, status : Statuses]

AiInv ==
    /\ proposals \in Seq(AiProposal) /\ memory \in Seq(AiProposal)
    /\ Len(memory) = Len(proposals) /\ \A id \in 1 .. Len(memory) : memory[id].kind = proposals[id].kind
    /\ aiLog \in Seq(ToSet(aiLog))
    /\ LogKnows(aiLog, proposals)

\* An entry that is neither a move nor evidence leaves what the log knows.
LEMMA SilentEntry ==
    ASSUME NEW S, NEW l \in Seq(S), NEW p \in Seq(AiProposal), LogKnows(l, p), NEW x,
           x.event_type # "AI.proposalTransitioned",
           \/ x.correlation_id = <<"report">>
           \/ \E id \in 1 .. Len(p) : x.correlation_id = <<"prop", id>>,
           x.event_type = "AI.artifactFrozen" =>
              \E id \in 1 .. Len(p) : x.correlation_id = <<"prop", id>> /\ MayFreeze(p[id].status)
    PROVE  LogKnows(Append(l, x), p)
<1>1. PICK u : u = Append(l, x)
  OBVIOUS
<1>2. /\ u \in Seq(S \cup {x}) /\ Len(u) = Len(l) + 1
      /\ \A id : StatusIn(u, id) = IF IsMoveOf(x, id) THEN x.payload[2] ELSE StatusIn(l, id)
      /\ \A corr : HasEvidence(u, corr) <=> HasEvidence(l, corr) \/ IsEvidence(x, corr)
      /\ \A corr : HasEnded(u, corr) <=> HasEnded(l, corr) \/ Ends(x, corr)
      /\ (/\ FrozenWell(l)
          /\ x.event_type = "AI.artifactFrozen" => HasEvidence(l, x.correlation_id) /\ ~HasEnded(l, x.correlation_id))
         => FrozenWell(u)
  BY <1>1, EntryAdded, Zenon
<1>3. /\ \A id : ~IsMoveOf(x, id)
      /\ \A corr : ~Ends(x, corr)
  BY DEF IsMoveOf, Ends
<1>4. \A i \in 1 .. Len(u) : \/ u[i].correlation_id = <<"report">>
                             \/ \E id \in 1 .. Len(p) : u[i].correlation_id = <<"prop", id>>
  <2>1. \A i \in 1 .. Len(u) : u[i] = x \/ (i \in 1 .. Len(l) /\ u[i] = l[i])
    <3>1. l \in Seq(S \cup {x})
      OBVIOUS
    <3> QED
      BY <1>1, <3>1
  <2>2. \A i \in 1 .. Len(l) : \/ l[i].correlation_id = <<"report">>
                               \/ \E id \in 1 .. Len(p) : l[i].correlation_id = <<"prop", id>>
    BY DEF LogKnows
  <2> QED
    BY <2>1, <2>2, Zenon
<1>5. FrozenWell(u)
  <2>1. ASSUME x.event_type = "AI.artifactFrozen"
        PROVE  HasEvidence(l, x.correlation_id) /\ ~HasEnded(l, x.correlation_id)
    <3>1. PICK id \in 1 .. Len(p) : x.correlation_id = <<"prop", id>> /\ MayFreeze(p[id].status)
      BY <2>1
    <3>2. p[id].status \notin {"rejected", "archived"}
      BY <3>1 DEF MayFreeze
    <3>3. HasEvidence(l, <<"prop", id>>) /\ ~HasEnded(l, <<"prop", id>>)
      BY <3>1, <3>2, Zenon DEF LogKnows
    <3> QED
      BY <3>1, <3>3, Zenon
  <2> QED
    BY <1>2, <2>1, Zenon DEF LogKnows
<1>6. LogKnows(u, p)
  <2>1. \A id : StatusIn(u, id) = StatusIn(l, id)
    BY <1>2, <1>3, Zenon
  <2>2. \A corr : (HasEvidence(l, corr) => HasEvidence(u, corr)) /\ (HasEnded(u, corr) <=> HasEnded(l, corr))
    BY <1>2, <1>3, Zenon
  <2> QED
    BY <1>4, <1>5, <2>1, <2>2, Zenon DEF LogKnows
<1> QED
  BY <1>1, <1>6, Zenon

\* A new proposal is a draft, and no entry so far is about it.
LEMMA DraftIsNew ==
    ASSUME NEW S, NEW l \in Seq(S), NEW p \in Seq(AiProposal), LogKnows(l, p), NEW d \in AiProposal, d.status = "draft"
    PROVE  LogKnows(l, Append(p, d))
<1>1. PICK q, n : q = Append(p, d) /\ n = Len(p)
  OBVIOUS
<1>2. /\ n \in Nat /\ Len(q) = n + 1 /\ q[n + 1] = d /\ \A id \in 1 .. n : q[id] = p[id]
      /\ \A id \in 1 .. n + 1 : id \in 1 .. n \/ id = n + 1
      /\ \A id \in 1 .. n : id \in 1 .. n + 1
  BY <1>1
<1>3. \A i \in 1 .. Len(l) : l[i].correlation_id # <<"prop", n + 1>>
  <2> TAKE i \in 1 .. Len(l)
  <2>1. \/ l[i].correlation_id = <<"report">>
        \/ \E id \in 1 .. n : l[i].correlation_id = <<"prop", id>>
    BY <1>1, Zenon DEF LogKnows
  <2>2. <<"report">> # <<"prop", n + 1>>
    OBVIOUS
  <2>3. \A id \in 1 .. n : <<"prop", id>> # <<"prop", n + 1>>
    BY <1>2
  <2> QED
    BY <2>1, <2>2, <2>3, Zenon
<1>4. StatusIn(l, n + 1) = "draft"
  <2>1. MovesIn(l, n + 1) = {}
    BY <1>3 DEF MovesIn
  <2> QED
    BY <2>1 DEF StatusIn
<1>5. ~HasEnded(l, <<"prop", n + 1>>) /\ ~MayFreeze("draft")
  BY <1>3 DEF HasEnded, Ends, MayFreeze
<1>6. LogKnows(l, q)
  <2>1. \A i \in 1 .. Len(l) : \/ l[i].correlation_id = <<"report">>
                               \/ \E id \in 1 .. n + 1 : l[i].correlation_id = <<"prop", id>>
    BY <1>1, <1>2, Zenon DEF LogKnows
  <2>2. ASSUME NEW id \in 1 .. n + 1
        PROVE  /\ StatusIn(l, id) = q[id].status
               /\ MayFreeze(q[id].status) => HasEvidence(l, <<"prop", id>>)
               /\ q[id].status \notin {"rejected", "archived"} => ~HasEnded(l, <<"prop", id>>)
    <3>1. CASE id = n + 1
      BY <1>2, <1>4, <1>5, <3>1, Zenon
    <3>2. CASE id \in 1 .. n
      BY <1>1, <1>2, <3>2, Zenon DEF LogKnows
    <3> QED
      BY <1>2, <3>1, <3>2
  <2> QED
    BY <1>2, <2>1, <2>2, Zenon DEF LogKnows
<1> QED
  BY <1>1, <1>6, Zenon

\* A transition of the lifecycle: the move, and the evidence with a validation.
LEMMA MoveIsKnown ==
    ASSUME NEW S, NEW l \in Seq(S), NEW p \in Seq(AiProposal), LogKnows(l, p), NEW id \in 1 .. Len(p),
           NEW to \in LIFECYCLE[p[id].status], NEW move, NEW evidence,
           IsMoveOf(move, id), move.payload[2] = to,
           IsEvidence(evidence, <<"prop", id>>)
    PROVE  /\ to # "validated" => LogKnows(Append(l, move), [p EXCEPT ![id].status = to])
           /\ to = "validated" => LogKnows(Append(Append(l, move), evidence), [p EXCEPT ![id].status = to])
<1>1. PICK q, u, w, corr : /\ q = [p EXCEPT ![id].status = to] /\ u = Append(l, move) /\ w = Append(u, evidence)
                           /\ corr = <<"prop", id>>
  OBVIOUS
<1>2. /\ u \in Seq(S \cup {move}) /\ Len(u) = Len(l) + 1
      /\ \A k : StatusIn(u, k) = IF IsMoveOf(move, k) THEN move.payload[2] ELSE StatusIn(l, k)
      /\ \A c : HasEvidence(u, c) <=> HasEvidence(l, c) \/ IsEvidence(move, c)
      /\ \A c : HasEnded(u, c) <=> HasEnded(l, c) \/ Ends(move, c)
      /\ (/\ FrozenWell(l)
          /\ move.event_type = "AI.artifactFrozen" => HasEvidence(l, move.correlation_id) /\ ~HasEnded(l, move.correlation_id))
         => FrozenWell(u)
  BY <1>1, EntryAdded, Zenon
<1>a. PICK R : R = S \cup {move}
  OBVIOUS
<1>3. /\ w \in Seq(R \cup {evidence}) /\ Len(w) = Len(u) + 1
      /\ \A k : StatusIn(w, k) = IF IsMoveOf(evidence, k) THEN evidence.payload[2] ELSE StatusIn(u, k)
      /\ \A c : HasEvidence(w, c) <=> HasEvidence(u, c) \/ IsEvidence(evidence, c)
      /\ \A c : HasEnded(w, c) <=> HasEnded(u, c) \/ Ends(evidence, c)
      /\ (/\ FrozenWell(u)
          /\ evidence.event_type = "AI.artifactFrozen" => HasEvidence(u, evidence.correlation_id) /\ ~HasEnded(u, evidence.correlation_id))
         => FrozenWell(w)
  <2>1. u \in Seq(R)
    BY <1>2, <1>a
  <2>2. w = Append(u, evidence)
    BY <1>1
  <2>3. /\ Append(u, evidence) \in Seq(R \cup {evidence}) /\ Len(Append(u, evidence)) = Len(u) + 1
        /\ \A k : StatusIn(Append(u, evidence), k) = IF IsMoveOf(evidence, k) THEN evidence.payload[2] ELSE StatusIn(u, k)
        /\ \A c : HasEvidence(Append(u, evidence), c) <=> HasEvidence(u, c) \/ IsEvidence(evidence, c)
        /\ \A c : HasEnded(Append(u, evidence), c) <=> HasEnded(u, c) \/ Ends(evidence, c)
        /\ (/\ FrozenWell(u)
            /\ evidence.event_type = "AI.artifactFrozen" => HasEvidence(u, evidence.correlation_id) /\ ~HasEnded(u, evidence.correlation_id))
           => FrozenWell(Append(u, evidence))
    BY <2>1, EntryAdded
  <2> QED
    BY <2>2, <2>3, Zenon
<1>4. /\ move.event_type = "AI.proposalTransitioned" /\ move.correlation_id = corr
      /\ evidence.event_type = "AI.proposalValidated" /\ evidence.correlation_id = corr
  BY <1>1 DEF IsMoveOf, IsEvidence
<1>5. \A k \in 1 .. Len(p) : IsMoveOf(move, k) <=> k = id
  <2>1. \A k \in 1 .. Len(p) : <<"prop", k>> = <<"prop", id>> <=> k = id
    OBVIOUS
  <2> QED
    BY <1>1, <1>4, <2>1 DEF IsMoveOf
<1>6. /\ \A k : ~IsMoveOf(evidence, k) /\ \A c : ~Ends(evidence, c)
      /\ \A c : ~IsEvidence(move, c)
  BY <1>4 DEF IsMoveOf, Ends, IsEvidence
<1>7. Ends(move, corr) <=> to \in {"rejected", "archived"}
  BY <1>4 DEF Ends
<1>8. /\ q \in Seq(AiProposal) /\ Len(q) = Len(p) /\ q[id].status = to
      /\ \A k \in 1 .. Len(p) : k # id => q[k] = p[k]
  <2>1. p[id] \in AiProposal
    OBVIOUS
  <2>2. to \in Statuses
    BY <2>1 DEF LIFECYCLE, Statuses, AiProposal
  <2>3. p \in [1 .. Len(p) -> AiProposal] /\ q = [p EXCEPT ![id] = [@ EXCEPT !.status = to]]
    BY <1>1
  <2>4. [p[id] EXCEPT !.status = to] \in AiProposal /\ [p[id] EXCEPT !.status = to].status = to
    BY <2>1, <2>2 DEF AiProposal
  <2> HIDE DEF Statuses, AiProposal
  <2> QED
    BY <1>1, <2>3, <2>4
<1>9. FrozenWell(u) /\ FrozenWell(w)
  <2>1. FrozenWell(u)
    BY <1>2, <1>4, Zenon DEF LogKnows
  <2> QED
    BY <1>3, <1>4, <2>1, Zenon
<1>10. /\ \A i \in 1 .. Len(u) : \/ u[i].correlation_id = <<"report">>
                                 \/ \E k \in 1 .. Len(p) : u[i].correlation_id = <<"prop", k>>
       /\ \A i \in 1 .. Len(w) : \/ w[i].correlation_id = <<"report">>
                                 \/ \E k \in 1 .. Len(p) : w[i].correlation_id = <<"prop", k>>
  <2>1. \A i \in 1 .. Len(u) : u[i] = move \/ (i \in 1 .. Len(l) /\ u[i] = l[i])
    <3>1. l \in Seq(S \cup {move})
      OBVIOUS
    <3> QED
      BY <1>1, <3>1
  <2>2. \A i \in 1 .. Len(w) : w[i] = evidence \/ (i \in 1 .. Len(u) /\ w[i] = u[i])
    <3>1. u \in Seq(R \cup {evidence})
      BY <1>2, <1>a
    <3> QED
      BY <1>1, <3>1
  <2>3. \A i \in 1 .. Len(l) : \/ l[i].correlation_id = <<"report">>
                               \/ \E k \in 1 .. Len(p) : l[i].correlation_id = <<"prop", k>>
    BY DEF LogKnows
  <2> QED
    BY <1>1, <1>4, <2>1, <2>2, <2>3, ZenonT(40)
<1>11. /\ \A k \in 1 .. Len(p) : StatusIn(u, k) = q[k].status
       /\ \A k : StatusIn(w, k) = StatusIn(u, k)
  <2>1. \A k : StatusIn(w, k) = StatusIn(u, k)
    BY <1>3, <1>6, Zenon
  <2>2. ASSUME NEW k \in 1 .. Len(p) PROVE StatusIn(u, k) = q[k].status
    <3>1. CASE k = id
      BY <1>2, <1>5, <1>8, <3>1
    <3>2. CASE k # id
      <4>1. StatusIn(l, k) = p[k].status
        BY DEF LogKnows
      <4> QED
        BY <1>2, <1>5, <1>8, <3>2, <4>1
    <3> QED
      BY <3>1, <3>2
  <2> QED
    BY <2>1, <2>2
<1>12. ASSUME NEW k \in 1 .. Len(p), q[k].status \notin {"rejected", "archived"}
       PROVE  ~HasEnded(u, <<"prop", k>>) /\ ~HasEnded(w, <<"prop", k>>)
  <2>1. ~HasEnded(l, <<"prop", k>>)
    <3>1. p[k].status \notin {"rejected", "archived"}
      <4>1. CASE k = id
        <5>1. p[id].status = "rejected" => to = "archived"
          BY DEF LIFECYCLE
        <5>2. p[id].status # "archived"
          BY DEF LIFECYCLE
        <5> QED
          BY <1>8, <1>12, <4>1, <5>1, <5>2
      <4>2. CASE k # id
        BY <1>8, <1>12, <4>2
      <4> QED
        BY <4>1, <4>2
    <3> QED
      BY <3>1, Zenon DEF LogKnows
  <2>2. ~Ends(move, <<"prop", k>>)
    <3>1. CASE k = id
      BY <1>1, <1>7, <1>8, <1>12, <3>1
    <3>2. CASE k # id
      <4>1. <<"prop", k>> # <<"prop", id>>
        BY <3>2
      <4> QED
        BY <1>1, <1>4, <4>1 DEF Ends
    <3> QED
      BY <3>1, <3>2
  <2> QED
    BY <1>2, <1>3, <1>6, <2>1, <2>2, Zenon
<1>13. ASSUME NEW k \in 1 .. Len(p), MayFreeze(q[k].status)
       PROVE  /\ HasEvidence(w, <<"prop", k>>)
              /\ to # "validated" => HasEvidence(u, <<"prop", k>>)
  <2>1. CASE k # id
    <3>1. HasEvidence(l, <<"prop", k>>)
      BY <1>8, <1>13, <2>1, Zenon DEF LogKnows
    <3> QED
      BY <1>2, <1>3, <3>1, Zenon
  <2>2. CASE k = id
    <3>1. HasEvidence(w, <<"prop", k>>)
      BY <1>3, <2>2, Zenon
    <3>2. ASSUME to # "validated" PROVE HasEvidence(u, <<"prop", k>>)
      <4>1. to = "approved"
        BY <1>8, <1>13, <2>2, <3>2 DEF MayFreeze
      <4>2. p[id].status = "validated"
        <5>0. p[id] \in AiProposal
          OBVIOUS
        <5>1. p[id].status \in Statuses
          BY <5>0 DEF AiProposal
        <5> QED
          BY <4>1, <5>1 DEF LIFECYCLE, Statuses
      <4>3. HasEvidence(l, <<"prop", id>>)
        BY <4>2, Zenon DEF LogKnows, MayFreeze
      <4> QED
        BY <1>2, <2>2, <4>3, Zenon
    <3> QED
      BY <3>1, <3>2
  <2> QED
    BY <2>1, <2>2
<1>14. to # "validated" => LogKnows(u, q)
  BY <1>8, <1>9, <1>10, <1>11, <1>12, <1>13, Zenon DEF LogKnows
<1>15. LogKnows(w, q)
  BY <1>8, <1>9, <1>10, <1>11, <1>12, <1>13, Zenon DEF LogKnows
<1> QED
  BY <1>1, <1>14, <1>15, Zenon

\* A sequence is one over its own elements.
LEMMA SeqOfOwn == ASSUME NEW S, NEW s \in Seq(S) PROVE s \in Seq(ToSet(s))
<1>1. \A i \in 1 .. Len(s) : s[i] \in ToSet(s)
  BY DEF ToSet
<1> QED
  BY <1>1

\* The parts that do not touch the AI layer.
LEMMA AiStutter == ASSUME AiInv, UNCHANGED ai PROVE AiInv'
<1>1. UNCHANGED <<proposals, memory, aiLog>>
  BY DEF ai
<1> QED
  BY <1>1, Zenon DEF AiInv

\* A proposal is drafted.
LEMMA ProposeKeeps == ASSUME AiInv, NEW kind \in ProposalKinds, Propose(kind) PROVE AiInv'
<1>1. PICK l, p, d, id, x : /\ l = aiLog /\ p = proposals /\ d = Draft(kind) /\ id = Len(proposals) + 1
                            /\ x = Numbered(AiEvent("AI.proposalCreated", Len(proposals) + 1, <<kind>>), Len(aiLog) + 1)
  OBVIOUS
<1>2. proposals' = Append(p, d) /\ memory' = Append(memory, d) /\ aiLog' = Append(l, x)
  BY <1>1, Zenon DEF Propose, recordProposal, record
<1>3. /\ p \in Seq(AiProposal) /\ memory \in Seq(AiProposal) /\ l \in Seq(ToSet(l)) /\ LogKnows(l, p)
      /\ Len(memory) = Len(p) /\ \A i \in 1 .. Len(memory) : memory[i].kind = p[i].kind
  BY <1>1, Zenon DEF AiInv
<1>4. d \in AiProposal /\ d.status = "draft"
  BY <1>1 DEF Draft, AiProposal, Statuses, LIFECYCLE
<1>5. x.event_type = "AI.proposalCreated" /\ x.correlation_id = <<"prop", id>>
  BY <1>1 DEF Numbered, AiEvent, Event
<1>6. PICK q, S : q = Append(p, d) /\ S = ToSet(l)
  OBVIOUS
<1>7. LogKnows(l, q) /\ q \in Seq(AiProposal) /\ Len(q) = id
  <2>1. l \in Seq(S)
    BY <1>3, <1>6
  <2> HIDE DEF AiProposal
  <2>2. LogKnows(l, Append(p, d))
    BY <1>3, <1>4, <2>1, DraftIsNew
  <2> QED
    BY <1>1, <1>3, <1>4, <1>6, <2>2
<1>8. LogKnows(Append(l, x), q)
  <2>1. id \in 1 .. Len(q)
    BY <1>7, <1>1, <1>3
  <2>2. \E k \in 1 .. Len(q) : x.correlation_id = <<"prop", k>>
    BY <1>5, <2>1
  <2>3. x.event_type # "AI.proposalTransitioned" /\ x.event_type # "AI.artifactFrozen"
    BY <1>5
  <2>4. l \in Seq(S)
    BY <1>3, <1>6
  <2> QED
    BY <1>7, <2>2, <2>3, <2>4, SilentEntry
<1>9. Append(l, x) \in Seq(ToSet(Append(l, x)))
  <2>1. PICK u, R : u = Append(l, x) /\ R = ToSet(l) \cup {x}
    OBVIOUS
  <2>2. u \in Seq(R)
    BY <1>3, <2>1
  <2> QED
    BY <2>1, <2>2, SeqOfOwn
<1>10. /\ Append(memory, d) \in Seq(AiProposal) /\ Len(Append(memory, d)) = Len(q)
       /\ \A i \in 1 .. Len(Append(memory, d)) : Append(memory, d)[i].kind = q[i].kind
  <2> HIDE DEF AiProposal
  <2> QED
    BY <1>3, <1>4, <1>6
<1> QED
  BY <1>2, <1>6, <1>7, <1>8, <1>9, <1>10, Zenon DEF AiInv

\* A proposal moves through its lifecycle.
LEMMA TransitionKeeps ==
    ASSUME AiInv, NEW id \in DOMAIN proposals, NEW to \in DOMAIN LIFECYCLE, TransitionProposal(id, to) PROVE AiInv'
<1>1. PICK l, p, from, a, b, x, y :
         /\ l = aiLog /\ p = proposals /\ from = proposals[id].status
         /\ a = AiEvent("AI.proposalTransitioned", id, <<from, to>>) /\ b = AiEvent("AI.proposalValidated", id, <<>>)
         /\ x = Numbered(a, Len(aiLog) + 1) /\ y = Numbered(b, Len(aiLog) + 2)
  OBVIOUS
<1>2. /\ p \in Seq(AiProposal) /\ memory \in Seq(AiProposal) /\ l \in Seq(ToSet(l)) /\ LogKnows(l, p)
      /\ Len(memory) = Len(p) /\ \A i \in 1 .. Len(memory) : memory[i].kind = p[i].kind
  BY <1>1, Zenon DEF AiInv
<1>3. /\ proposals' = [p EXCEPT ![id].status = to] /\ memory' = memory
      /\ aiLog' = recordAll(l, TransitionEvents(id, from, to)) /\ to \in LIFECYCLE[p[id].status]
  BY <1>1, Zenon DEF TransitionProposal
<1>4. id \in 1 .. Len(p)
  BY <1>1, <1>2
<1>5. /\ to = "validated" => TransitionEvents(id, from, to) = <<a, b>>
      /\ to # "validated" => TransitionEvents(id, from, to) = <<a>>
  <2>1. TransitionEvents(id, from, to) = <<a>> \o (IF to = "validated" THEN <<b>> ELSE <<>>)
    BY <1>1, Zenon DEF TransitionEvents
  <2>2. <<a>> \o <<b>> = <<a, b>> /\ <<a>> \o <<>> = <<a>>
    BY Pair
  <2> QED
    BY <2>1, <2>2
<1>6. /\ to = "validated" => aiLog' = Append(Append(l, x), y)
      /\ to # "validated" => aiLog' = Append(l, x)
  <2>1. ASSUME to = "validated" PROVE recordAll(l, <<a, b>>) = Append(Append(l, x), y)
    <3>1. PICK added : added = [i \in DOMAIN <<a, b>> |-> Numbered(<<a, b>>[i], Len(l) + i)]
      OBVIOUS
    <3>2. added = <<x, y>>
      BY <1>1, <3>1
    <3>3. l \o <<x, y>> = Append(Append(l, x), y)
      <4>1. l \in Seq(ToSet(l) \cup {x, y})
        BY <1>2
      <4> QED
        BY <4>1
    <3> QED
      BY <3>1, <3>2, <3>3, Zenon DEF recordAll
  <2>2. ASSUME to # "validated" PROVE recordAll(l, <<a>>) = Append(l, x)
    <3>1. PICK added : added = [i \in DOMAIN <<a>> |-> Numbered(<<a>>[i], Len(l) + i)]
      OBVIOUS
    <3>2. added = <<x>>
      BY <1>1, <3>1
    <3>3. l \o <<x>> = Append(l, x)
      <4>1. l \in Seq(ToSet(l) \cup {x})
        BY <1>2
      <4> QED
        BY <4>1
    <3> QED
      BY <3>1, <3>2, <3>3, Zenon DEF recordAll
  <2> QED
    BY <1>3, <1>5, <2>1, <2>2, Zenon
<1>7. /\ IsMoveOf(x, id) /\ x.payload[2] = to
      /\ IsEvidence(y, <<"prop", id>>)
  BY <1>1 DEF Numbered, AiEvent, Event, IsMoveOf, IsEvidence
<1>8. PICK q, S : q = [p EXCEPT ![id].status = to] /\ S = ToSet(l)
  OBVIOUS
<1>9. /\ to # "validated" => LogKnows(Append(l, x), q)
      /\ to = "validated" => LogKnows(Append(Append(l, x), y), q)
  <2>1. l \in Seq(S)
    BY <1>2, <1>8
  <2> HIDE DEF AiProposal, LIFECYCLE
  <2>2. /\ to # "validated" => LogKnows(Append(l, x), [p EXCEPT ![id].status = to])
        /\ to = "validated" => LogKnows(Append(Append(l, x), y), [p EXCEPT ![id].status = to])
    BY <1>2, <1>3, <1>4, <1>7, <2>1, MoveIsKnown
  <2> QED
    BY <1>8, <2>2, Zenon
<1>10. /\ q \in Seq(AiProposal) /\ Len(q) = Len(p) /\ \A i \in 1 .. Len(p) : q[i].kind = p[i].kind
  <2>1. p[id] \in AiProposal
    BY <1>2, <1>4
  <2>2. [p[id] EXCEPT !.status = to] \in AiProposal /\ [p[id] EXCEPT !.status = to].kind = p[id].kind
    BY <2>1 DEF AiProposal, Statuses
  <2>3. q = [p EXCEPT ![id] = [@ EXCEPT !.status = to]]
    BY <1>8
  <2> HIDE DEF AiProposal
  <2> QED
    BY <1>2, <1>4, <2>2, <2>3
<1>11. aiLog' \in Seq(ToSet(aiLog'))
  <2>1. PICK u, w, R : u = Append(l, x) /\ w = Append(Append(l, x), y) /\ R = ToSet(l) \cup {x, y}
    OBVIOUS
  <2>2. l \in Seq(R) /\ x \in R /\ y \in R
    BY <1>2, <2>1
  <2>3. u \in Seq(R) /\ w \in Seq(R)
    BY <2>1, <2>2
  <2>4. u \in Seq(ToSet(u)) /\ w \in Seq(ToSet(w))
    BY <2>3, SeqOfOwn
  <2> QED
    BY <1>6, <2>1, <2>4, Zenon
<1> QED
  <2>1. LogKnows(aiLog', q)
    BY <1>6, <1>9, Zenon
  <2>2. proposals' = q
    BY <1>3, <1>8
  <2>3. /\ q \in Seq(AiProposal) /\ memory' \in Seq(AiProposal) /\ Len(memory') = Len(q)
        /\ \A i \in 1 .. Len(memory') : memory'[i].kind = q[i].kind
    BY <1>2, <1>3, <1>10, Zenon
  <2> QED
    BY <1>11, <2>1, <2>2, <2>3, Zenon DEF AiInv

\* One entry that is neither a move nor evidence.
LEMMA SilentKeeps ==
    ASSUME AiInv, NEW input, aiLog' = record(aiLog, input), UNCHANGED <<proposals, memory>>,
           input.event_type # "AI.proposalTransitioned",
           \/ input.correlation_id = <<"report">>
           \/ \E id \in 1 .. Len(proposals) : input.correlation_id = <<"prop", id>>,
           input.event_type = "AI.artifactFrozen" =>
              \E id \in 1 .. Len(proposals) : input.correlation_id = <<"prop", id>> /\ MayFreeze(proposals[id].status)
    PROVE  AiInv'
<1>1. PICK l, p, x, S : l = aiLog /\ p = proposals /\ x = Numbered(input, Len(aiLog) + 1) /\ S = ToSet(aiLog)
  OBVIOUS
<1>2. aiLog' = Append(l, x)
  BY <1>1, Zenon DEF record
<1>3. x.event_type = input.event_type /\ x.correlation_id = input.correlation_id
  BY <1>1 DEF Numbered
<1>4. l \in Seq(S) /\ p \in Seq(AiProposal) /\ LogKnows(l, p)
  BY <1>1, Zenon DEF AiInv
<1>5. /\ x.event_type # "AI.proposalTransitioned"
      /\ \/ x.correlation_id = <<"report">>
         \/ \E id \in 1 .. Len(p) : x.correlation_id = <<"prop", id>>
      /\ x.event_type = "AI.artifactFrozen" =>
            \E id \in 1 .. Len(p) : x.correlation_id = <<"prop", id>> /\ MayFreeze(p[id].status)
  BY <1>1, <1>3, Zenon
<1>6. LogKnows(Append(l, x), p)
  BY <1>4, <1>5, SilentEntry
<1>7. Append(l, x) \in Seq(ToSet(Append(l, x)))
  <2>1. PICK u, R : u = Append(l, x) /\ R = S \cup {x}
    OBVIOUS
  <2>2. u \in Seq(R)
    BY <1>4, <2>1
  <2> QED
    BY <2>1, <2>2, SeqOfOwn
<1> QED
  BY <1>1, <1>2, <1>6, <1>7, Zenon DEF AiInv

\* A validated proposal is frozen.
LEMMA FreezeKeeps ==
    ASSUME AiInv, NEW id \in DOMAIN proposals, NEW version, Freeze(id, version) PROVE AiInv'
<1>1. PICK input : input = AiEvent("AI.artifactFrozen", id, freezeProposal(id, version))
  OBVIOUS
<1>2. input.event_type = "AI.artifactFrozen" /\ input.correlation_id = <<"prop", id>>
  BY <1>1 DEF AiEvent, Event
<1>3. aiLog' = record(aiLog, input) /\ UNCHANGED <<proposals, memory>> /\ MayFreeze(proposals[id].status)
  BY <1>1, Zenon DEF Freeze
<1>4. id \in 1 .. Len(proposals)
  BY DEF AiInv
<1>5. \E k \in 1 .. Len(proposals) : input.correlation_id = <<"prop", k>> /\ MayFreeze(proposals[k].status)
  BY <1>2, <1>3, <1>4, Zenon
<1>6. input.event_type # "AI.proposalTransitioned"
  BY <1>2
<1> QED
  BY <1>3, <1>5, <1>6, SilentKeeps

\* A report is written.
LEMMA ReportKeeps == ASSUME AiInv, GenerateReport PROVE AiInv'
<1>1. PICK input : input = Event("AI.reportGenerated", <<"report">>, "ai", 1, 1, <<>>)
  OBVIOUS
<1>2. input.event_type = "AI.reportGenerated" /\ input.correlation_id = <<"report">>
  BY <1>1 DEF Event
<1>3. aiLog' = record(aiLog, input) /\ UNCHANGED <<proposals, memory>>
  BY <1>1, Zenon DEF GenerateReport
<1>4. input.event_type # "AI.proposalTransitioned" /\ input.event_type # "AI.artifactFrozen"
  BY <1>2
<1> QED
  BY <1>2, <1>3, <1>4, SilentKeeps

\* What the log knows is what an auditor reads in it.
LEMMA AiIsGated == AiInv => AiLogTellsStatus /\ ArtifactsWereValidated
<1> SUFFICES ASSUME AiInv PROVE AiLogTellsStatus /\ ArtifactsWereValidated
  OBVIOUS
<1>1. PICK l, p : l = aiLog /\ p = proposals
  OBVIOUS
<1>2. /\ p \in Seq(AiProposal) /\ memory \in Seq(AiProposal) /\ l \in Seq(ToSet(l)) /\ LogKnows(l, p)
      /\ Len(memory) = Len(p) /\ \A i \in 1 .. Len(memory) : memory[i].kind = p[i].kind
  BY <1>1, Zenon DEF AiInv
<1>3. DOMAIN p = 1 .. Len(p) /\ DOMAIN memory = 1 .. Len(memory) /\ DOMAIN l = 1 .. Len(l)
  BY <1>2
<1>4. \A id : StatusInLog(id) = StatusIn(l, id)
  <2> HIDE DEF Max
  <2> QED
    BY <1>1, Zenon DEF StatusInLog, StatusIn, Moves, MovesIn
<1>5. AiLogTellsStatus
  BY <1>1, <1>2, <1>3, <1>4, Zenon DEF AiLogTellsStatus, LogKnows
<1>6. ASSUME NEW i \in DOMAIN aiLog, aiLog[i].event_type = "AI.artifactFrozen"
      PROVE  LET before == {aiLog[j] : j \in {k \in 1..i : aiLog[k].correlation_id = aiLog[i].correlation_id}}
             IN /\ \E e \in before : e.event_type = "AI.proposalValidated"
                /\ ~\E e \in before : /\ e.event_type = "AI.proposalTransitioned"
                                      /\ e.payload[2] \in {"rejected", "archived"}
  <2>1. i \in 1 .. Len(l) /\ l[i].event_type = "AI.artifactFrozen"
    BY <1>1, <1>3, <1>6
  <2>2. /\ \E j \in 1 .. i : IsEvidence(l[j], l[i].correlation_id)
        /\ ~\E j \in 1 .. i : Ends(l[j], l[i].correlation_id)
    BY <1>2, <2>1, Zenon DEF LogKnows, FrozenWell
  <2> DEFINE before == {aiLog[j] : j \in {k \in 1..i : aiLog[k].correlation_id = aiLog[i].correlation_id}}
  <2>3. \E e \in before : e.event_type = "AI.proposalValidated"
    BY <1>1, <2>2 DEF IsEvidence
  <2>4. ASSUME NEW e \in before, e.event_type = "AI.proposalTransitioned", e.payload[2] \in {"rejected", "archived"} PROVE FALSE
    <3>1. PICK j \in 1 .. i : e = l[j] /\ l[j].correlation_id = l[i].correlation_id
      BY <1>1
    <3> QED
      BY <2>2, <2>4, <3>1 DEF Ends
  <2> QED
    BY <2>3, <2>4
<1> QED
  BY <1>5, <1>6 DEF ArtifactsWereValidated

-----------------------------------------------------------------------------
(* Research. *)

\* What the research log holds, and whose evidence the champion has.
ResearchInv ==
    /\ rpLog \in Seq(ToSet(rpLog))
    /\ \A e \in ToSet(rpLog) : e.type = "result" => e.result = RunOf(e.experiment)
    /\ champion # <<>> => \E e \in ToSet(rpLog) : e.type = "result" /\ e.result = champion[1] /\ e.result.passed

\* The parts that do not touch the research platform.
LEMMA ResearchStutter == ASSUME ResearchInv, UNCHANGED research PROVE ResearchInv'
<1>1. UNCHANGED <<sourceLog, rpLog, champion>>
  BY DEF research
<1>3. \A x : RunOf(x)' = RunOf(x)
  BY <1>1, Zenon DEF RunOf
<1> QED
  BY <1>1, <1>3, Zenon DEF ResearchInv

\* A log that grows by some entries holds them and what it held.
LEMMA GrownLog ==
    ASSUME NEW S, NEW s \in Seq(S), NEW R, NEW t \in Seq(R)
    PROVE  /\ s \o t \in Seq(ToSet(s \o t))
           /\ \A x : x \in ToSet(s \o t) <=> x \in ToSet(s) \/ x \in ToSet(t)
<1>1. PICK u, Q : u = s \o t /\ Q = S \cup R
  OBVIOUS
<1>2. s \in Seq(Q) /\ t \in Seq(Q)
  BY <1>1
<1>3. /\ u \in Seq(Q) /\ Len(s) \in Nat /\ Len(t) \in Nat /\ Len(u) = Len(s) + Len(t)
      /\ \A i \in 1 .. Len(s) : u[i] = s[i]
      /\ \A i \in 1 .. Len(t) : u[Len(s) + i] = t[i]
  BY <1>1, <1>2
<1>4. u \in Seq(ToSet(u))
  BY <1>3, SeqOfOwn
<1>5. DOMAIN u = 1 .. Len(u) /\ DOMAIN s = 1 .. Len(s) /\ DOMAIN t = 1 .. Len(t)
  BY <1>3
<1>6. ASSUME NEW x PROVE x \in ToSet(u) <=> x \in ToSet(s) \/ x \in ToSet(t)
  <2>1. ASSUME x \in ToSet(u) PROVE x \in ToSet(s) \/ x \in ToSet(t)
    <3>1. PICK i \in 1 .. Len(u) : x = u[i]
      BY <1>5, <2>1 DEF ToSet
    <3>2. CASE i \in 1 .. Len(s)
      BY <1>3, <1>5, <3>1, <3>2 DEF ToSet
    <3>3. CASE i \notin 1 .. Len(s)
      <4>1. i - Len(s) \in 1 .. Len(t) /\ Len(s) + (i - Len(s)) = i
        BY <1>3, <3>3
      <4>2. x = t[i - Len(s)]
        BY <1>3, <3>1, <4>1
      <4> QED
        BY <1>5, <4>1, <4>2 DEF ToSet
    <3> QED
      BY <3>2, <3>3
  <2>2. ASSUME x \in ToSet(s) PROVE x \in ToSet(u)
    <3>1. PICK i \in 1 .. Len(s) : x = s[i]
      BY <1>5, <2>2 DEF ToSet
    <3>2. i \in 1 .. Len(u) /\ u[i] = x
      BY <1>3, <3>1
    <3> QED
      BY <1>5, <3>2 DEF ToSet
  <2>3. ASSUME x \in ToSet(t) PROVE x \in ToSet(u)
    <3>1. PICK i \in 1 .. Len(t) : x = t[i]
      BY <1>5, <2>3 DEF ToSet
    <3>2. Len(s) + i \in 1 .. Len(u) /\ u[Len(s) + i] = x
      BY <1>3, <3>1
    <3> QED
      BY <1>5, <3>2 DEF ToSet
  <2> QED
    BY <2>1, <2>2, <2>3
<1> QED
  BY <1>1, <1>4, <1>6, Zenon

\* An experiment is run and its result put to the champion.
LEMMA ExperimentKeeps == ASSUME ResearchInv, NEW x \in Experiments, RunExperiment(x) PROVE ResearchInv'
<1>1. sourceLog' = sourceLog
  BY DEF RunExperiment
<1>2. \A y : RunOf(y)' = RunOf(y)
  BY <1>1, Zenon DEF RunOf
<1>3. /\ rpLog \in Seq(ToSet(rpLog))
      /\ \A e \in ToSet(rpLog) : e.type = "result" => e.result = RunOf(e.experiment)
      /\ champion # <<>> => \E e \in ToSet(rpLog) : e.type = "result" /\ e.result = champion[1] /\ e.result.passed
  BY Zenon DEF ResearchInv
<1>4. PICK r, won : r = RunOf(x) /\ won = (Evaluated(r) # champion)
  OBVIOUS
<1>5. CASE x.throws
  <2>1. PICK a, b, t : a = [type |-> "started"] /\ b = [type |-> "failed"] /\ t = <<a, b>>
    OBVIOUS
  <2>2. rpLog' = rpLog \o t /\ champion' = champion
    BY <1>5, <2>1, Zenon DEF RunExperiment
  <2>3. t \in Seq({a, b}) /\ ToSet(t) = {a, b}
    BY <2>1 DEF ToSet
  <2>4. a.type # "result" /\ b.type # "result"
    BY <2>1
  <2>5. /\ rpLog' \in Seq(ToSet(rpLog'))
        /\ \A e : e \in ToSet(rpLog') <=> e \in ToSet(rpLog) \/ e \in ToSet(t)
    BY <1>3, <2>2, <2>3, GrownLog, Zenon
  <2>6. \A e \in ToSet(rpLog') : e.type = "result" => e \in ToSet(rpLog)
    BY <2>3, <2>4, <2>5
  <2>7. \A e \in ToSet(rpLog) : e \in ToSet(rpLog')
    BY <2>5, Zenon
  <2> QED
    BY <1>1, <1>2, <1>3, <2>2, <2>5, <2>6, <2>7, Zenon DEF ResearchInv
<1>6. CASE ~x.throws
  <2>1. PICK a, b, c, d, t : /\ a = [type |-> "started"] /\ b = [type |-> "result", experiment |-> x, result |-> r]
                             /\ c = [type |-> "completed", passed |-> r.passed]
                             /\ d = [type |-> "promotion", promoted |-> won] /\ t = <<a, b, c, d>>
    OBVIOUS
  <2>2. rpLog' = rpLog \o t /\ champion' = Evaluated(r)
    BY <1>4, <1>6, <2>1, Zenon DEF RunExperiment
  <2>3. t \in Seq({a, b, c, d}) /\ ToSet(t) = {a, b, c, d}
    BY <2>1 DEF ToSet
  <2>4. /\ a.type # "result" /\ c.type # "result" /\ d.type # "result"
        /\ b.type = "result" /\ b.experiment = x /\ b.result = r
    BY <2>1
  <2>5. /\ rpLog' \in Seq(ToSet(rpLog'))
        /\ \A e : e \in ToSet(rpLog') <=> e \in ToSet(rpLog) \/ e \in ToSet(t)
    BY <1>3, <2>2, <2>3, GrownLog, Zenon
  <2>6. \A e \in ToSet(rpLog') : e.type = "result" => e \in ToSet(rpLog) \/ e = b
    BY <2>3, <2>4, <2>5
  <2>7. b \in ToSet(rpLog') /\ \A e \in ToSet(rpLog) : e \in ToSet(rpLog')
    BY <2>3, <2>5
  <2>8. \A e \in ToSet(rpLog') : e.type = "result" => e.result = RunOf(e.experiment)
    BY <1>3, <1>4, <2>4, <2>6, Zenon
  <2>9. champion' # <<>> => \E e \in ToSet(rpLog') : e.type = "result" /\ e.result = champion'[1] /\ e.result.passed
    <3>1. CASE Evaluated(r) = champion
      BY <1>3, <2>2, <2>7, <3>1, Zenon
    <3>2. CASE Evaluated(r) # champion
      <4>1. Evaluated(r) = <<r>> /\ r.passed
        BY <3>2 DEF Evaluated, evaluate, Validated
      <4>2. champion'[1] = r
        BY <2>2, <4>1
      <4> QED
        BY <2>4, <2>7, <4>1, <4>2, Zenon
    <3> QED
      BY <3>1, <3>2
  <2> QED
    BY <1>1, <1>2, <1>3, <2>5, <2>8, <2>9, Zenon DEF ResearchInv
<1> QED
  BY <1>5, <1>6

\* What was promoted met its criteria in every fold.
LEMMA ResearchIsGated == ResearchInv => ChampionPassedItsFolds
<1> SUFFICES ASSUME ResearchInv, champion # <<>>
             PROVE  \E e \in ToSet(rpLog) :
                      /\ e.type = "result" /\ e.result = champion[1]
                      /\ \A i \in 1..e.experiment.folds :
                           meetsCriteria(runWindow(sourceLog, FoldEnd(i, e.experiment.folds)), e.experiment.criteria)
                      /\ e.experiment.folds = 0 => meetsCriteria(runWindow(sourceLog, PeriodEnd), e.experiment.criteria)
  BY Zenon DEF ChampionPassedItsFolds
<1>1. PICK e \in ToSet(rpLog) : e.type = "result" /\ e.result = champion[1] /\ e.result.passed
  BY Zenon DEF ResearchInv
<1>2. PICK x, r : x = e.experiment /\ r = e.result
  OBVIOUS
<1>3. r = RunOf(x) /\ r.passed
  BY <1>1, <1>2, Zenon DEF ResearchInv
<1>4. x.folds = 0 => meetsCriteria(runWindow(sourceLog, PeriodEnd), x.criteria)
  <2> SUFFICES ASSUME x.folds = 0 PROVE meetsCriteria(runWindow(sourceLog, PeriodEnd), x.criteria)
    OBVIOUS
  <2>1. r = runOnce(sourceLog, x.criteria)
    BY <1>3, Zenon DEF RunOf
  <2>2. r.passed = meetsCriteria(runWindow(sourceLog, PeriodEnd), x.criteria)
    BY <2>1 DEF runOnce
  <2> QED
    BY <1>3, <2>2, Zenon
<1>5. ASSUME NEW i \in 1 .. x.folds PROVE meetsCriteria(runWindow(sourceLog, FoldEnd(i, x.folds)), x.criteria)
  <2>1. x.folds # 0
    BY <1>5
  <2>2. r = runWFV(sourceLog, x.criteria, x.folds)
    BY <1>3, <2>1, Zenon DEF RunOf
  <2>3. PICK results : results = FoldResults(sourceLog, x.criteria, x.folds)
    OBVIOUS
  <2>4. r.passed = Gate(results)
    BY <2>2, <2>3 DEF runWFV
  <2>5. DOMAIN results = 1 .. x.folds /\ results[i] = meetsCriteria(runWindow(sourceLog, FoldEnd(i, x.folds)), x.criteria)
    BY <2>3, Zenon DEF FoldResults
  <2> QED
    BY <1>3, <2>4, <2>5, Zenon DEF Gate
<1> QED
  BY <1>1, <1>2, <1>4, <1>5, Zenon

\* For any number of proposals, reports, transitions and artifacts, and any
\* number of experiments over any recorded log: the AI layer's log gives the
\* status of every proposal, nothing is frozen that was not validated or that
\* had ended, and the champion met its criteria on every fold of an experiment
\* in the log (AILayer, ExperimentRunner, ResearchPlatform).
THEOREM PromotionHolds == Spec => []PromotionIsGated
<1>1. Init => AiInv /\ ResearchInv
  <2> SUFFICES ASSUME Init PROVE AiInv /\ ResearchInv
    OBVIOUS
  <2>1. /\ proposals = <<>> /\ memory = <<>> /\ aiLog = <<>> /\ rpLog = <<>> /\ champion = <<>>
    BY DEF Init
  <2>2. /\ \A S : <<>> \in Seq(S)
        /\ Len(<<>>) = 0 /\ 1 .. 0 = {}
    OBVIOUS
  <2>3. LogKnows(<<>>, <<>>)
    BY <2>2 DEF LogKnows, FrozenWell
  <2>4. AiInv
    BY <2>1, <2>2, <2>3, Zenon DEF AiInv
  <2>6. ToSet(<<>>) = {}
    BY DEF ToSet
  <2>7. ResearchInv
    BY <2>1, <2>2, <2>6, Zenon DEF ResearchInv
  <2> QED
    BY <2>4, <2>7
<1>2. AiInv /\ ResearchInv /\ [Next]_vars => AiInv' /\ ResearchInv'
  <2> SUFFICES ASSUME AiInv, ResearchInv, [Next]_vars PROVE AiInv' /\ ResearchInv'
    OBVIOUS
  <2>1. CASE InProduction
    <3>1. UNCHANGED ai /\ UNCHANGED research
      BY <2>1 DEF InProduction, RuntimeTransition, RiskTransition, NextDay, RunCycle
    <3> QED
      BY <3>1, AiStutter, ResearchStutter
  <2>2. CASE InControl
    <3>1. UNCHANGED ai /\ UNCHANGED research
      BY <2>2 DEF InControl, Deploy, Rollback
    <3> QED
      BY <3>1, AiStutter, ResearchStutter
  <2>3. CASE InAi
    <3>1. UNCHANGED research
      BY <2>3 DEF InAi, Propose, TransitionProposal, Freeze, GenerateReport
    <3>2. ASSUME NEW kind \in ProposalKinds, Propose(kind) PROVE AiInv'
      BY <3>2, ProposeKeeps
    <3>3. ASSUME NEW id \in DOMAIN proposals, NEW to \in DOMAIN LIFECYCLE, TransitionProposal(id, to) PROVE AiInv'
      BY <3>3, TransitionKeeps
    <3>4. ASSUME NEW id \in DOMAIN proposals, NEW version, Freeze(id, version) PROVE AiInv'
      BY <3>4, FreezeKeeps
    <3>5. AiInv'
      BY <2>3, <3>2, <3>3, <3>4, ReportKeeps, Zenon DEF InAi
    <3> QED
      BY <3>1, <3>5, ResearchStutter
  <2>4. CASE InResearch
    <3>1. UNCHANGED ai
      BY <2>4 DEF InResearch, RunExperiment
    <3>2. ResearchInv'
      BY <2>4, ExperimentKeeps DEF InResearch
    <3>3. AiInv'
      BY <3>1, AiStutter
    <3> QED
      BY <3>2, <3>3
  <2>5. CASE UNCHANGED vars
    <3>1. UNCHANGED ai /\ UNCHANGED research
      BY <2>5 DEF vars
    <3> QED
      BY <3>1, AiStutter, ResearchStutter
  <2> QED
    BY <2>1, <2>2, <2>3, <2>4, <2>5 DEF Next
<1>3. AiInv /\ ResearchInv => PromotionIsGated
  BY AiIsGated, ResearchIsGated DEF PromotionIsGated
<1> QED
  BY <1>1, <1>2, <1>3, PTL DEF Spec

-----------------------------------------------------------------------------
(* The operator's views.  What each of them says of any log. *)

\* The positions of the entries of a type.
Marked(l, type) == {i \in 1 .. Len(l) : l[i].event_type = type}

\* A view by type counts the entries of that type.
LEMMA OfTypeCounts ==
    ASSUME NEW S, NEW l \in Seq(S), NEW type
    PROVE  /\ IsFiniteSet(Marked(l, type)) /\ OfType(l, type) \in Seq(S)
           /\ Len(OfType(l, type)) = Cardinality(Marked(l, type))
           /\ \A j \in 1 .. Len(OfType(l, type)) : \E i \in Marked(l, type) : OfType(l, type)[j] = l[i]
           /\ OfType(l, type) = <<>> <=> Marked(l, type) = {}
<1>1. PICK keep, f : keep = {e \in ToSet(l) : e.event_type = type} /\ f = Filter(l, keep)
  OBVIOUS
<1>2. OfType(l, type) = f
  BY <1>1 DEF OfType
<1>3. \A i \in 1 .. Len(l) : l[i] \in keep <=> l[i].event_type = type
  BY <1>1 DEF ToSet
<1>4. {i \in 1 .. Len(l) : l[i] \in keep} = Marked(l, type)
  BY <1>3 DEF Marked
<1>5. f \in Seq(S)
  BY <1>1, FilterType
<1>6. IsFiniteSet(Marked(l, type)) /\ Len(f) = Cardinality(Marked(l, type))
  BY <1>1, <1>4, FilterCounts
<1>7. /\ \A j \in 1 .. Len(f) : \E i \in 1 .. Len(l) : f[j] = l[i] /\ l[i] \in keep
      /\ \A i \in 1 .. Len(l) : l[i] \in keep => \E j \in 1 .. Len(f) : f[j] = l[i]
  <2>1. /\ \A j \in 1 .. Len(Filter(l, keep)) :
               \E i \in 1 .. Len(l) : Filter(l, keep)[j] = l[i] /\ l[i] \in keep
        /\ \A i \in 1 .. Len(l) : l[i] \in keep =>
               \E j \in 1 .. Len(Filter(l, keep)) : Filter(l, keep)[j] = l[i]
    BY FilterKeeps
  <2> QED
    BY <1>1, <2>1, Zenon
<1>8. \A j \in 1 .. Len(f) : \E i \in Marked(l, type) : f[j] = l[i]
  BY <1>3, <1>7 DEF Marked
<1>9. f = <<>> <=> Marked(l, type) = {}
  <2>1. f # <<>> => 1 \in 1 .. Len(f)
    BY <1>5
  <2>2. f = <<>> => 1 .. Len(f) = {}
    OBVIOUS
  <2> QED
    BY <1>3, <1>7, <1>8, <2>1, <2>2 DEF Marked
<1> QED
  BY <1>2, <1>5, <1>6, <1>8, <1>9

\* The state the overview shows is the one the runtime reads: the loop over
\* the log and the last of the filtered transitions agree.
LEMMA OverviewShowsCurrentState ==
    ASSUME NEW S, NEW l \in Seq(S) PROVE runtimeState(l) = currentState(l, "production")
<1>1. PICK keep, n : keep = OwnMembers(l) /\ n = Len(l)
  OBVIOUS
<1>2. PICK g : FilterRun(g, S, l, keep)
  BY FilterSteps
<1>3. /\ n \in Nat /\ g[0] = <<>> /\ g[n] = Filter(l, keep)
      /\ \A k \in 0 .. n : g[k] \in Seq(S)
      /\ \A k \in 0 .. n - 1 : g[k + 1] = IF l[k + 1] \in keep THEN Append(g[k], l[k + 1]) ELSE g[k]
      /\ \A i \in 1 .. n : l[i] \in S
  BY <1>1, <1>2 DEF FilterRun, StepsThrough
<1> DEFINE own(e) == IsTransition(e) /\ e.payload[1] = "production"
           E(h) == [i \in 0 .. Len(l) |->
                      IF i = 0 THEN "INIT"
                      ELSE IF IsTransition(l[i]) /\ l[i].payload[1] = "production" THEN l[i].payload[2] ELSE h[i - 1]]
           Read(f) == IF f = <<>> THEN "INIT" ELSE Last(f).payload[2]
           r == [i \in 0 .. n |-> Read(g[i])]
<1>4. \A i \in 1 .. n : l[i] \in keep <=> own(l[i])
  BY <1>1, <1>3 DEF OwnMembers, ToSet
<1>5. ASSUME NEW k \in 0 .. n - 1
      PROVE  Read(g[k + 1]) = IF own(l[k + 1]) THEN l[k + 1].payload[2] ELSE Read(g[k])
  <2>1. PICK x, a : x = l[k + 1] /\ a = g[k]
    OBVIOUS
  <2>2. x \in S /\ a \in Seq(S) /\ (x \in keep <=> own(x)) /\ g[k + 1] = IF x \in keep THEN Append(a, x) ELSE a
    <3>1. k + 1 \in 1 .. n /\ k \in 0 .. n
      BY <1>3
    <3> QED
      BY <1>3, <1>4, <2>1, <3>1
  <2>3. Append(a, x) # <<>> /\ Last(Append(a, x)) = x
    BY <2>2 DEF Last
  <2> HIDE DEF own
  <2>4. CASE own(x)
    BY <2>1, <2>2, <2>3, <2>4, Zenon
  <2>5. CASE ~own(x)
    BY <2>1, <2>2, <2>5, Zenon
  <2> QED
    BY <2>4, <2>5
<1> HIDE DEF Read
<1>6. r = E(r)
  <2>1. ASSUME NEW i \in 0 .. n PROVE r[i] = E(r)[i]
    <3>1. CASE i = 0
      <4>1. Read(<<>>) = "INIT"
        BY DEF Read
      <4> QED
        BY <1>1, <1>3, <3>1, <4>1
    <3>2. CASE i # 0
      <4>1. i - 1 \in 0 .. n - 1 /\ (i - 1) + 1 = i /\ i - 1 \in 0 .. n
        BY <1>3, <3>2
      <4>2. r[i] = Read(g[i]) /\ r[i - 1] = Read(g[i - 1])
        BY <4>1
      <4>3. Read(g[i]) = IF own(l[i]) THEN l[i].payload[2] ELSE Read(g[i - 1])
        <5>1. Read(g[(i - 1) + 1]) = IF own(l[(i - 1) + 1]) THEN l[(i - 1) + 1].payload[2] ELSE Read(g[i - 1])
          BY <1>5, <4>1
        <5> QED
          BY <4>1, <5>1
      <4>4. E(r)[i] = IF own(l[i]) THEN l[i].payload[2] ELSE r[i - 1]
        <5> HIDE DEF r
        <5> QED
          BY <1>1, <3>2
      <4> HIDE DEF own, r, E
      <4> QED
        BY <4>2, <4>3, <4>4
    <3> QED
      BY <3>1, <3>2
  <2>2. PICK e : e = E(r)
    OBVIOUS
  <2>3. e = [i \in 0 .. n |-> e[i]]
    <3> HIDE DEF r
    <3> QED
      BY <1>1, <2>2
  <2>4. r = [i \in 0 .. n |-> r[i]]
    OBVIOUS
  <2> HIDE DEF r, E
  <2>5. r = e
    BY <2>1, <2>2, <2>3, <2>4
  <2> QED
    BY <2>2, <2>5
<1> DEFINE ch == CHOOSE h : h = E(h)
<1>7. ch = E(ch)
  <2> HIDE DEF E, r
  <2> QED
    BY <1>6
<1>8. runtimeState(l) = ch[Len(l)]
  BY DEF runtimeState
<1> HIDE DEF ch
<1>9. ch[0] = "INIT" /\ \A k \in 0 .. n - 1 : ch[k + 1] = IF own(l[k + 1]) THEN l[k + 1].payload[2] ELSE ch[k]
  <2>1. ch[0] = "INIT"
    BY <1>1, <1>3, <1>7
  <2>2. ASSUME NEW k \in 0 .. n - 1 PROVE ch[k + 1] = IF own(l[k + 1]) THEN l[k + 1].payload[2] ELSE ch[k]
    <3>1. k + 1 \in 0 .. Len(l) /\ k + 1 # 0 /\ (k + 1) - 1 = k
      BY <1>1, <1>3
    <3>2. ch[k + 1] = IF own(l[k + 1]) THEN l[k + 1].payload[2] ELSE ch[(k + 1) - 1]
      BY <1>7, <3>1
    <3> QED
      BY <3>1, <3>2
  <2> QED
    BY <2>1, <2>2
<1> DEFINE T == {k \in Nat : k <= n => ch[k] = Read(g[k])}
<1>10. 0 \in T
  BY <1>3, <1>9 DEF Read
<1>11. ASSUME NEW k \in Nat, k \in T PROVE k + 1 \in T
  <2> SUFFICES ASSUME k + 1 <= n PROVE ch[k + 1] = Read(g[k + 1])
    OBVIOUS
  <2>1. k \in 0 .. n - 1 /\ k <= n
    BY <1>3
  <2> HIDE DEF own
  <2> QED
    BY <1>5, <1>9, <1>11, <2>1
<1> HIDE DEF T
<1>12. n \in T
  BY <1>3, <1>10, <1>11, SetInduction
<1>13. ch[n] = Read(Filter(l, keep))
  BY <1>3, <1>12 DEF T
<1>14. transitionsOf(l, "production") = Filter(l, keep)
  BY <1>1 DEF transitionsOf, OwnMembers
<1>15. currentState(l, "production") = Read(Filter(l, keep))
  BY <1>14, Zenon DEF currentState, Read
<1> QED
  BY <1>1, <1>8, <1>13, <1>15

\* The decisions of the days of the diary are all the decisions.
LEMMA DiaryAddsUp ==
    ASSUME NEW S, NEW l \in Seq(S)
    PROVE  SumFunction([d \in DOMAIN diaryView(l) |-> diaryView(l)[d].decisions]) = Len(OfType(l, "Risk.decided"))
<1>1. PICK P, D : P = Marked(l, "Risk.decided") /\ D = Days(l)
  OBVIOUS
<1>2. IsFiniteSet(P) /\ Len(OfType(l, "Risk.decided")) = Cardinality(P)
  BY <1>1, OfTypeCounts
<1>3. IsFiniteSet(D)
  <2>1. ToSet(l) = {l[i] : i \in 1 .. Len(l)}
    BY DEF ToSet
  <2>2. D = {l[i].event_time : i \in 1 .. Len(l)}
    BY <1>1, <2>1 DEF Days
  <2>3. IsFiniteSet(1 .. Len(l)) /\ Len(l) \in Nat
    BY FS_Interval
  <2> DEFINE t == [i \in 1 .. Len(l) |-> l[i].event_time]
  <2>4. t \in Surjection(1 .. Len(l), D)
    BY <2>2 DEF Surjection
  <2> HIDE DEF t
  <2> QED
    BY <2>3, <2>4, FS_Surjection DEF ExistsSurjection
<1> DEFINE f == [i \in P |-> l[i].event_time]
           c == [d \in D |-> diaryView(l)[d].decisions]
<1>4. f \in [P -> D]
  BY <1>1 DEF Days, Marked, ToSet
<1>5. ASSUME NEW d \in D PROVE c[d] = Cardinality({x \in P : f[x] = d})
  <2>1. diaryView(l)[d].decisions = Len(OfType(OnDay(l, d), "Risk.decided"))
    BY <1>1 DEF diaryView
  <2>2. PICK keep, keep2, g : /\ keep = {e \in ToSet(l) : e.event_time = d} /\ g = Filter(l, keep)
                              /\ keep2 = {e \in ToSet(g) : e.event_type = "Risk.decided"}
    OBVIOUS
  <2>3. OfType(OnDay(l, d), "Risk.decided") = Filter(Filter(l, keep), keep2)
    BY <2>2 DEF OfType, OnDay
  <2>4. Filter(Filter(l, keep), keep2) = Filter(l, keep \cap keep2)
    BY FilterTwice
  <2>5. g \in Seq(S) /\ \A i \in 1 .. Len(l) : l[i] \in keep => \E j \in 1 .. Len(g) : g[j] = l[i]
    <3>1. /\ Filter(l, keep) \in Seq(S)
          /\ \A i \in 1 .. Len(l) : l[i] \in keep => \E j \in 1 .. Len(Filter(l, keep)) : Filter(l, keep)[j] = l[i]
      BY FilterType, FilterKeeps
    <3> QED
      BY <2>2, <3>1, Zenon
  <2>6. \A i \in 1 .. Len(l) : l[i] \in keep \cap keep2 <=> (i \in P /\ l[i].event_time = d)
    <3> TAKE i \in 1 .. Len(l)
    <3>1. l[i] \in keep <=> l[i].event_time = d
      BY <2>2 DEF ToSet
    <3>2. l[i] \in keep => l[i] \in ToSet(g)
      BY <2>5 DEF ToSet
    <3>3. l[i] \in keep2 <=> l[i] \in ToSet(g) /\ l[i].event_type = "Risk.decided"
      BY <2>2
    <3>4. i \in P <=> l[i].event_type = "Risk.decided"
      BY <1>1 DEF Marked
    <3> QED
      BY <3>1, <3>2, <3>3, <3>4
  <2>7. {i \in 1 .. Len(l) : l[i] \in keep \cap keep2} = {x \in P : f[x] = d}
    BY <1>1, <2>6 DEF Marked
  <2>8. Len(Filter(l, keep \cap keep2)) = Cardinality({i \in 1 .. Len(l) : l[i] \in keep \cap keep2})
    BY FilterCounts
  <2>9. c[d] = diaryView(l)[d].decisions
    OBVIOUS
  <2> HIDE DEF f, c
  <2> QED
    BY <2>1, <2>3, <2>4, <2>7, <2>8, <2>9, Zenon
<1>6. DOMAIN diaryView(l) = D
  BY <1>1 DEF diaryView
<1>7. DOMAIN c = D
  OBVIOUS
<1>8. SumFunction([d \in DOMAIN diaryView(l) |-> diaryView(l)[d].decisions]) = SumFunction(c)
  BY <1>6, Zenon
<1> HIDE DEF f, c
<1>9. SumFunctionOnSet(c, D) = Cardinality(P)
  BY <1>2, <1>3, <1>4, <1>5, SumOfParts
<1>10. SumFunction(c) = SumFunctionOnSet(c, D)
  BY <1>7 DEF SumFunction
<1> QED
  BY <1>2, <1>8, <1>9, <1>10, Zenon

\* A halt is a halt of some day.
LEMMA HaltsAreDated ==
    ASSUME NEW S, NEW l \in Seq(S)
    PROVE  Halts(l) # <<>> <=> \E d \in DOMAIN diaryView(l) : diaryView(l)[d].halted
<1>1. PICK keep, f : /\ keep = {e \in ToSet(l) : IsTransition(e) /\ e.payload[2] = "HALT"}
                     /\ f = Halts(l) /\ f = Filter(l, keep)
  BY DEF Halts
<1>2. f \in Seq(S) /\ \A j \in 1 .. Len(f) : \E i \in 1 .. Len(l) : f[j] = l[i]
  <2>1. /\ Filter(l, keep) \in Seq(S)
        /\ \A j \in 1 .. Len(Filter(l, keep)) : \E i \in 1 .. Len(l) : Filter(l, keep)[j] = l[i] /\ l[i] \in keep
    BY FilterType, FilterKeeps
  <2> QED
    BY <1>1, <2>1, Zenon
<1>3. DOMAIN diaryView(l) = Days(l) /\ \A d \in Days(l) : diaryView(l)[d].halted <=> \E e \in ToSet(f) : e.event_time = d
  BY <1>1 DEF diaryView
<1>4. ToSet(f) = {f[j] : j \in 1 .. Len(f)} /\ Days(l) = {l[i].event_time : i \in 1 .. Len(l)}
  BY <1>2 DEF ToSet, Days
<1>5. f # <<>> => \E d \in Days(l) : \E e \in ToSet(f) : e.event_time = d
  <2> SUFFICES ASSUME f # <<>> PROVE \E d \in Days(l) : \E e \in ToSet(f) : e.event_time = d
    OBVIOUS
  <2>1. 1 \in 1 .. Len(f)
    BY <1>2
  <2>2. f[1] \in ToSet(f) /\ f[1].event_time \in Days(l)
    BY <1>2, <1>4, <2>1
  <2> QED
    BY <2>2
<1>6. f = <<>> => ToSet(f) = {}
  BY DEF ToSet
<1> QED
  BY <1>1, <1>3, <1>5, <1>6, Zenon

\* What a cycle records: the stages under its own correlation, which of them
\* decided about which symbol, and where the orders went out.
Handed == Arrives \cup Throws
Verdict(fate) == IF fate = "refused" THEN "refused" ELSE "approved"
OrderEntries(n, planned) ==
    {orch("Risk.decided", n, <<s, v>>) : s \in planned, v \in {"refused", "approved"}}
    \cup {exec(type, s) : type \in {"Order.sent", "Fill.received", "Order.rejected"}, s \in planned}

\* An order is decided about first, and sent next if the adapter gets it.
LEMMA OrderStages ==
    ASSUME NEW n, NEW planned, NEW s \in planned, NEW fate \in Fates
    PROVE  \E o : /\ o = OrderEvents(n, s, fate) /\ o \in Seq(OrderEntries(n, planned))
                  /\ Len(o) >= 1 /\ (fate \in Handed => Len(o) >= 2)
                  /\ o[1] = orch("Risk.decided", n, <<s, Verdict(fate)>>)
                  /\ \A i \in 2 .. Len(o) : o[i].correlation_id = <<"exec">> /\ o[i].event_type # "MarketHealth.scored"
                  /\ \A i \in 2 .. Len(o) : o[i].event_type = "Order.sent" <=> (fate \in Handed /\ i = 2)
<1>1. PICK a, b, c, d, R : /\ a = orch("Risk.decided", n, <<s, Verdict(fate)>>) /\ b = exec("Order.sent", s)
                           /\ c = exec("Fill.received", s) /\ d = exec("Order.rejected", s) /\ R = OrderEntries(n, planned)
  OBVIOUS
<1>2. {a, b, c, d} \subseteq R
  BY <1>1 DEF OrderEntries, Verdict
<1>3. /\ \A x \in {b, c, d} : x.correlation_id = <<"exec">> /\ x.event_type # "MarketHealth.scored"
      /\ b.event_type = "Order.sent" /\ c.event_type # "Order.sent" /\ d.event_type # "Order.sent"
  BY <1>1 DEF exec, Event
<1>4. PICK o, g : o = OrderEvents(n, s, fate) /\ g = GatewayEvents(s, fate)
  OBVIOUS
<1>5. o = <<a>> \o g
  BY <1>1, <1>4, Zenon DEF OrderEvents, Verdict
<1>6. /\ fate = "filled" => g = <<b, c>>
      /\ fate \in Throws => g = <<b>>
      /\ fate = "rejected" => g = <<d>>
      /\ fate = "refused" => g = <<>>
  BY <1>1, <1>4 DEF GatewayEvents, Throws
<1>14. /\ "filled" \in Handed /\ "rejected" \notin Handed /\ "refused" \notin Handed /\ Throws \subseteq Handed
       /\ fate \in {"filled", "rejected", "refused"} \cup Throws
  BY DEF Handed, Arrives, Throws, Fates
<1>7. PICK one : one = <<a>>
  OBVIOUS
<1>8. one \in Seq(R) /\ Len(one) = 1 /\ one[1] = a
  BY <1>2, <1>7
<1>9. CASE fate = "filled"
  <2>1. g \in Seq(R) /\ Len(g) = 2 /\ g[1] = b /\ g[2] = c
    <3>1. g = <<b, c>>
      BY <1>6, <1>9, Zenon
    <3> QED
      BY <1>2, <3>1
  <2>2. /\ one \o g \in Seq(R) /\ Len(one \o g) = 3 /\ \A i \in 1 .. 1 : (one \o g)[i] = one[i]
        /\ \A i \in 1 .. 2 : (one \o g)[1 + i] = g[i]
    <3>1. PICK t : t = one \o g
      OBVIOUS
    <3>2. /\ t \in Seq(R) /\ Len(t) = Len(one) + Len(g)
          /\ \A i \in 1 .. Len(one) : t[i] = one[i]
          /\ \A i \in 1 .. Len(g) : t[Len(one) + i] = g[i]
      <4>1. /\ one \o g \in Seq(R) /\ Len(one \o g) = Len(one) + Len(g)
            /\ \A i \in 1 .. Len(one) : (one \o g)[i] = one[i]
            /\ \A i \in 1 .. Len(g) : (one \o g)[Len(one) + i] = g[i]
        <5>1. one \in Seq(R) /\ g \in Seq(R)
          BY <1>8, <2>1
        <5> QED
          BY <5>1, ConcatFacts
      <4> QED
        BY <3>1, <4>1, Zenon
    <3> QED
      BY <1>8, <2>1, <3>1, <3>2
  <2>3. o = one \o g
    BY <1>5, <1>7
  <2>4. o \in Seq(R) /\ Len(o) = 3 /\ o[1] = a /\ o[1 + 1] = b /\ o[1 + 2] = c
    BY <1>8, <2>1, <2>2, <2>3
  <2>5. o[2] = b /\ o[3] = c /\ 2 .. 3 = {2, 3}
    BY <2>4
  <2> QED
    BY <1>1, <1>3, <1>4, <1>9, <1>14, <2>4, <2>5
<1>10. CASE fate = "rejected"
  <2>1. g \in Seq(R) /\ Len(g) = 1 /\ g[1] = d
    <3>1. g = <<d>>
      BY <1>6, <1>10, Zenon
    <3> QED
      BY <1>2, <3>1
  <2>2. /\ one \o g \in Seq(R) /\ Len(one \o g) = 2 /\ \A i \in 1 .. 1 : (one \o g)[i] = one[i]
        /\ \A i \in 1 .. 1 : (one \o g)[1 + i] = g[i]
    BY <1>8, <2>1, ConcatFacts
  <2>3. o = one \o g
    BY <1>5, <1>7
  <2>4. o \in Seq(R) /\ Len(o) = 2 /\ o[1] = a /\ o[1 + 1] = d
    BY <1>8, <2>1, <2>2, <2>3
  <2>5. o[2] = d /\ 2 .. 2 = {2}
    BY <2>4
  <2> QED
    BY <1>1, <1>3, <1>4, <1>10, <1>14, <2>4, <2>5
<1>12. CASE fate \in Throws
  <2>1. g \in Seq(R) /\ Len(g) = 1 /\ g[1] = b
    <3>1. g = <<b>>
      BY <1>6, <1>12, Zenon
    <3> QED
      BY <1>2, <3>1
  <2>2. /\ one \o g \in Seq(R) /\ Len(one \o g) = 2 /\ \A i \in 1 .. 1 : (one \o g)[i] = one[i]
        /\ \A i \in 1 .. 1 : (one \o g)[1 + i] = g[i]
    BY <1>8, <2>1, ConcatFacts
  <2>3. o = one \o g
    BY <1>5, <1>7
  <2>4. o \in Seq(R) /\ Len(o) = 2 /\ o[1] = a /\ o[1 + 1] = b
    BY <1>8, <2>1, <2>2, <2>3
  <2>5. o[2] = b /\ 2 .. 2 = {2}
    BY <2>4
  <2> QED
    BY <1>1, <1>3, <1>4, <1>12, <1>14, <2>4, <2>5
<1>11. CASE fate = "refused"
  <2>1. g = <<>>
    BY <1>6, <1>11
  <2>2. o = one
    BY <1>5, <1>7, <1>8, <2>1, ConcatOne
  <2>3. o \in Seq(R) /\ Len(o) = 1 /\ o[1] = a /\ 2 .. 1 = {}
    BY <1>8, <2>2
  <2> QED
    BY <1>1, <1>4, <1>11, <1>14, <2>3
<1> QED
  BY <1>9, <1>10, <1>11, <1>12, <1>14

\* q lists the positions of the entries that a cycle recorded itself: three
\* stages and a decision for each of the m planned symbols.
IsCycle(inputs, n, fates, plan, m, q) ==
    /\ q \in [1 .. m + 3 -> 1 .. Len(inputs)] /\ Increasing(q)
    /\ \A i \in 1 .. Len(inputs) : inputs[i].correlation_id = CorrelationId(n) <=> \E j \in 1 .. m + 3 : q[j] = i
    /\ \A i \in 1 .. Len(inputs) : inputs[i].correlation_id \in {CorrelationId(n), <<"exec">>}
    /\ q[1] = 1 /\ q[2] = 2 /\ q[3] = 3
    /\ inputs[1].event_type = "MarketHealth.scored" /\ inputs[1].payload # <<>>
    /\ inputs[2].event_type = "Strategy.evaluated"
    /\ inputs[3].event_type = "Portfolio.planned" /\ inputs[3].payload = plan
    /\ \A j \in 1 .. m : inputs[q[j + 3]] = orch("Risk.decided", n, <<plan[j], Verdict(fates[j])>>)
    /\ \A i \in 2 .. Len(inputs) : inputs[i].event_type # "MarketHealth.scored"
    /\ \A i \in 1 .. Len(inputs) : inputs[i].event_type = "Order.sent" <=>
          \E j \in 1 .. m : fates[j] \in Handed /\ i = q[j + 3] + 1
    /\ \A j \in 1 .. m : fates[j] \in Handed => q[j + 3] + 1 \in 1 .. Len(inputs)

LEMMA CycleStages ==
    ASSUME NEW n, NEW planned \in SUBSET Symbols, NEW fates \in Courses(planned)
    PROVE  \E S, size, m, plan, q :
              /\ Course(plan, size, fates, m, planned)
              /\ CycleEvents(n, planned, fates) \in Seq(S) /\ IsCycle(CycleEvents(n, planned, fates), n, fates, plan, m, q)
<1>0. PICK plan, size, m : Course(plan, size, fates, m, planned)
  BY CourseOfPlan
<1>1. /\ m \in Nat /\ plan = Allocations(planned) /\ \A i \in 1 .. m : plan[i] \in planned
      /\ fates \in [1 .. m -> Fates] /\ Len(fates) = m
  BY <1>0 DEF Course
<1>2. PICK R : R = OrderEntries(n, planned)
  OBVIOUS
<1>3. PICK ss : ss = [j \in 1 .. m |-> OrderEvents(n, plan[j], fates[j])]
  OBVIOUS
<1>4. ASSUME NEW j \in 1 .. m
      PROVE  /\ ss[j] \in Seq(R) /\ Len(ss[j]) >= 1 /\ (fates[j] \in Handed => Len(ss[j]) >= 2)
             /\ ss[j][1] = orch("Risk.decided", n, <<plan[j], Verdict(fates[j])>>)
             /\ \A i \in 2 .. Len(ss[j]) : ss[j][i].correlation_id = <<"exec">> /\ ss[j][i].event_type # "MarketHealth.scored"
             /\ \A i \in 2 .. Len(ss[j]) : ss[j][i].event_type = "Order.sent" <=> (fates[j] \in Handed /\ i = 2)
  <2>1. PICK s, fate : s = plan[j] /\ fate = fates[j]
    OBVIOUS
  <2>2. s \in planned /\ fate \in Fates
    BY <1>1, <2>1
  <2>3. ss[j] = OrderEvents(n, s, fate)
    BY <1>3, <2>1
  <2>4. PICK o : /\ o = OrderEvents(n, s, fate) /\ o \in Seq(OrderEntries(n, planned))
                 /\ Len(o) >= 1 /\ (fate \in Handed => Len(o) >= 2)
                 /\ o[1] = orch("Risk.decided", n, <<s, Verdict(fate)>>)
                 /\ \A i \in 2 .. Len(o) : o[i].correlation_id = <<"exec">> /\ o[i].event_type # "MarketHealth.scored"
                 /\ \A i \in 2 .. Len(o) : o[i].event_type = "Order.sent" <=> (fate \in Handed /\ i = 2)
    BY <2>2, OrderStages
  <2> QED
    BY <1>2, <2>1, <2>3, <2>4, Zenon
<1>a. \A j \in 1 .. m : ss[j] \in Seq(R)
  BY <1>4, Zenon
<1>b. \A j \in 1 .. m : Len(ss[j]) >= 1 /\ (fates[j] \in Handed => Len(ss[j]) >= 2)
  BY <1>4, Zenon
<1>c. \A j \in 1 .. m : ss[j][1] = orch("Risk.decided", n, <<plan[j], Verdict(fates[j])>>)
  BY <1>4, Zenon
<1>d. \A j \in 1 .. m : \A i \in 2 .. Len(ss[j]) :
         /\ ss[j][i].correlation_id = <<"exec">> /\ ss[j][i].event_type # "MarketHealth.scored"
         /\ ss[j][i].event_type = "Order.sent" <=> (fates[j] \in Handed /\ i = 2)
  BY <1>4, Zenon
<1>5. ss \in Seq(Seq(R)) /\ Len(ss) = m
  BY <1>1, <1>3, <1>a
<1>6. PICK rest : rest = FlattenSeq(ss)
  OBVIOUS
<1>7. rest \in Seq(R)
  BY <1>5, <1>6, FlattenType
<1>8. PICK o : Blocks(o, ss, rest)
  BY <1>5, <1>6, FlattenBlocks
<1>9. PICK a, b, c, L : /\ a = orch("MarketHealth.scored", n, <<MarketMode(MarketScore(Features[day]))>>)
                        /\ b = orch("Strategy.evaluated", n, <<MarketMode(MarketScore(Features[day]))>>)
                        /\ c = orch("Portfolio.planned", n, plan) /\ L = Len(rest)
  OBVIOUS
<1>10. PICK inputs, head, S : inputs = CycleEvents(n, planned, fates) /\ head = <<a, b, c>> /\ S = R \cup {a, b, c}
  OBVIOUS
<1>11. inputs = head \o rest
  <2>2. rest = FlattenSeq([j \in 1 .. m |-> OrderEvents(n, plan[j], fates[j])])
    BY <1>3, <1>6
  <2> QED
    BY <1>1, <1>9, <1>10, <2>2, Zenon DEF CycleEvents
<1>12. /\ inputs \in Seq(S) /\ L \in Nat /\ Len(inputs) = L + 3
       /\ inputs[1] = a /\ inputs[2] = b /\ inputs[3] = c
       /\ \A x \in 1 .. L : inputs[3 + x] = rest[x]
  <2>1. head \in Seq(S) /\ rest \in Seq(S) /\ Len(head) = 3 /\ head[1] = a /\ head[2] = b /\ head[3] = c
    BY <1>7, <1>10
  <2>2. /\ head \o rest \in Seq(S) /\ Len(rest) \in Nat /\ Len(head \o rest) = Len(head) + Len(rest)
        /\ \A i \in 1 .. Len(head) : (head \o rest)[i] = head[i]
        /\ \A i \in 1 .. Len(rest) : (head \o rest)[Len(head) + i] = rest[i]
    <3>1. head \in Seq(S) /\ rest \in Seq(S) /\ Len(rest) \in Nat
      BY <2>1
    <3> QED
      BY <3>1, ConcatFacts
  <2> QED
    BY <1>9, <1>11, <2>1, <2>2
<1>13. /\ \A x \in {a, b, c} : x.correlation_id = CorrelationId(n) /\ x.event_type # "Order.sent"
       /\ a.event_type = "MarketHealth.scored" /\ a.payload # <<>>
       /\ b.event_type = "Strategy.evaluated" /\ c.event_type = "Portfolio.planned" /\ c.payload = plan
  BY <1>9 DEF orch, Event
<1>14. CorrelationId(n) # <<"exec">>
  BY DEF CorrelationId
<1>15. \A j \in 1 .. m : /\ ss[j][1].correlation_id = CorrelationId(n)
                         /\ ss[j][1].event_type \notin {"MarketHealth.scored", "Order.sent"}
  <2> TAKE j \in 1 .. m
  <2>1. PICK e, p : e = ss[j][1] /\ p = <<plan[j], Verdict(fates[j])>>
    OBVIOUS
  <2>2. e = orch("Risk.decided", n, p)
    BY <1>c, <2>1, Zenon
  <2>3. e.correlation_id = CorrelationId(n) /\ e.event_type \notin {"MarketHealth.scored", "Order.sent"}
    BY <2>2 DEF orch, Event
  <2> QED
    BY <2>1, <2>3, Zenon
<1>e. \A k \in 1 .. m : o[k] \in Nat /\ Len(ss[k]) \in Nat /\ o[k] + Len(ss[k]) <= L /\ Len(ss[k]) >= 1
  BY <1>a, <1>b, <1>5, <1>8, <1>9 DEF Blocks
<1>f. \A k, l \in 1 .. m : k < l => o[k] + Len(ss[k]) <= o[l]
  BY <1>5, <1>8 DEF Blocks
<1>g. \A k \in 1 .. m : \A i \in 1 .. Len(ss[k]) : rest[o[k] + i] = ss[k][i]
  BY <1>5, <1>8 DEF Blocks
<1>h. \A x \in 1 .. L : \E k \in 1 .. m : \E i \in 1 .. Len(ss[k]) : x = o[k] + i
  BY <1>5, <1>8, <1>9 DEF Blocks
<1> DEFINE q == [j \in 1 .. m + 3 |-> IF j <= 3 THEN j ELSE o[j - 3] + 4]
<1>17. /\ q[1] = 1 /\ q[2] = 2 /\ q[3] = 3
       /\ \A j \in 1 .. m : q[j + 3] = o[j] + 4
  <2>1. ASSUME NEW j \in 1 .. m PROVE q[j + 3] = o[j] + 4
    <3>1. j + 3 \in 1 .. m + 3 /\ ~(j + 3 <= 3) /\ (j + 3) - 3 = j
      BY <1>1
    <3> QED
      BY <3>1
  <2> QED
    BY <1>1, <2>1
<1>18. DOMAIN q = 1 .. m + 3 /\ q = [j \in 1 .. m + 3 |-> q[j]]
  OBVIOUS
<1> HIDE DEF q
<1>19. ASSUME NEW j \in 1 .. m + 3 PROVE j \in {1, 2, 3} \/ (j - 3 \in 1 .. m /\ j = (j - 3) + 3 /\ q[j] = o[j - 3] + 4)
  <2>1. CASE j <= 3
    BY <1>1, <2>1
  <2>2. CASE j > 3
    <3>1. j - 3 \in 1 .. m /\ j = (j - 3) + 3
      BY <1>1, <2>2
    <3>2. q[(j - 3) + 3] = o[j - 3] + 4
      BY <1>17, <3>1
    <3> QED
      BY <3>1, <3>2
  <2> QED
    BY <1>1, <2>1, <2>2
<1>20. q \in [1 .. m + 3 -> 1 .. L + 3]
  <2>1. ASSUME NEW j \in 1 .. m + 3 PROVE q[j] \in 1 .. L + 3
    <3>1. CASE j \in {1, 2, 3}
      BY <1>12, <1>17, <3>1
    <3>2. CASE j - 3 \in 1 .. m /\ q[j] = o[j - 3] + 4
      <4>1. PICK k : k = j - 3
        OBVIOUS
      <4>2. o[k] \in Nat /\ Len(ss[k]) \in Nat /\ o[k] + Len(ss[k]) <= L /\ Len(ss[k]) >= 1
        BY <1>e, <3>2, <4>1
      <4> QED
        BY <1>12, <3>2, <4>1, <4>2
    <3> QED
      BY <1>19, <3>1, <3>2
  <2> QED
    BY <1>18, <2>1
<1>21. Increasing(q)
  <2> SUFFICES ASSUME NEW i \in 1 .. m + 3, NEW j \in 1 .. m + 3, i < j PROVE q[i] < q[j]
    BY <1>18 DEF Increasing
  <2>1. CASE j \in {1, 2, 3}
    BY <1>17, <2>1
  <2>2. CASE j \notin {1, 2, 3} /\ i \in {1, 2, 3}
    <3>1. j - 3 \in 1 .. m /\ q[j] = o[j - 3] + 4 /\ o[j - 3] \in Nat
      BY <1>e, <1>19, <2>2
    <3> QED
      BY <1>17, <2>2, <3>1
  <2>3. CASE j \notin {1, 2, 3} /\ i \notin {1, 2, 3}
    <3>1. PICK k, l : k = i - 3 /\ l = j - 3
      OBVIOUS
    <3>2. k \in 1 .. m /\ l \in 1 .. m /\ k < l /\ q[i] = o[k] + 4 /\ q[j] = o[l] + 4
      BY <1>19, <2>3, <3>1
    <3>3. o[k] + Len(ss[k]) <= o[l] /\ Len(ss[k]) >= 1 /\ Len(ss[k]) \in Nat /\ o[k] \in Nat /\ o[l] \in Nat
      BY <1>e, <1>f, <3>2
    <3> QED
      BY <3>2, <3>3
  <2> QED
    BY <2>1, <2>2, <2>3
\* Each entry after the third is the i-th of the k-th order.
<1>22. ASSUME NEW x \in 4 .. L + 3
       PROVE  \E k \in 1 .. m : \E i \in 1 .. Len(ss[k]) : x = o[k] + i + 3 /\ inputs[x] = ss[k][i]
  <2>1. x - 3 \in 1 .. L /\ x = 3 + (x - 3)
    BY <1>12
  <2>0. PICK k \in 1 .. m : \E i \in 1 .. Len(ss[k]) : x - 3 = o[k] + i
    BY <1>h, <2>1
  <2>2. PICK i \in 1 .. Len(ss[k]) : x - 3 = o[k] + i
    BY <2>0
  <2>3. inputs[3 + (x - 3)] = rest[x - 3]
    BY <1>12, <2>1
  <2>4. rest[o[k] + i] = ss[k][i]
    BY <1>g
  <2>5. inputs[x] = ss[k][i]
    BY <2>1, <2>2, <2>3, <2>4
  <2>6. x = o[k] + i + 3
    BY <1>e, <2>2
  <2> QED
    BY <2>5, <2>6
\* Offsets tell the orders apart.
<1>23. ASSUME NEW k \in 1 .. m, NEW l \in 1 .. m, NEW i \in 1 .. Len(ss[k]), NEW j \in 1 .. Len(ss[l]), o[k] + i = o[l] + j
       PROVE  k = l /\ i = j
  <2>1. /\ o[k] \in Nat /\ o[l] \in Nat /\ Len(ss[k]) \in Nat /\ Len(ss[l]) \in Nat
        /\ (k < l => o[k] + Len(ss[k]) <= o[l]) /\ (l < k => o[l] + Len(ss[l]) <= o[k])
    BY <1>e, <1>f
  <2>2. ~(k < l) /\ ~(l < k)
    BY <1>23, <2>1
  <2>3. k = l
    BY <1>1, <2>2
  <2> QED
    BY <1>23, <2>1, <2>3
<1>24. ASSUME NEW j \in 1 .. m PROVE inputs[q[j + 3]] = ss[j][1]
  <2>1. 1 \in 1 .. Len(ss[j]) /\ o[j] + 1 \in 1 .. L
    BY <1>e, <1>12
  <2>2. inputs[3 + (o[j] + 1)] = rest[o[j] + 1] /\ rest[o[j] + 1] = ss[j][1]
    BY <1>12, <1>g, <2>1
  <2>3. 3 + (o[j] + 1) = q[j + 3]
    BY <1>e, <1>17
  <2> QED
    BY <2>2, <2>3
<1>25. ASSUME NEW x \in 1 .. L + 3
       PROVE  /\ inputs[x].correlation_id = CorrelationId(n) <=> \E j \in 1 .. m + 3 : q[j] = x
              /\ inputs[x].correlation_id \in {CorrelationId(n), <<"exec">>}
              /\ x > 1 => inputs[x].event_type # "MarketHealth.scored"
              /\ inputs[x].event_type = "Order.sent" <=> \E j \in 1 .. m : fates[j] \in Handed /\ x = q[j + 3] + 1
  <2>1. CASE x \in {1, 2, 3}
    <3>1. inputs[x] \in {a, b, c} /\ q[x] = x /\ x \in 1 .. m + 3
      BY <1>1, <1>12, <1>17, <2>1
    <3>2. \A j \in 1 .. m : x # q[j + 3] + 1
      BY <1>e, <1>17, <2>1
    <3>3. x > 1 => inputs[x] \in {b, c}
      BY <1>12, <2>1
    <3> QED
      BY <1>13, <3>1, <3>2, <3>3
  <2>2. CASE x \in 4 .. L + 3
    <3>a. PICK k \in 1 .. m : \E i \in 1 .. Len(ss[k]) : x = o[k] + i + 3 /\ inputs[x] = ss[k][i]
      BY <1>22, <2>2
    <3>1. PICK i \in 1 .. Len(ss[k]) : x = o[k] + i + 3 /\ inputs[x] = ss[k][i]
      BY <3>a
    <3>0. o[k] \in Nat /\ i \in Nat /\ x \in Nat
      BY <1>e, <3>1
    <3>2. CASE i = 1
      <4>1. q[k + 3] = x /\ k + 3 \in 1 .. m + 3
        <5>1. PICK y, w : y = o[k] /\ w = q[k + 3]
          OBVIOUS
        <5>2. y \in Nat /\ w = y + 4 /\ x = y + 1 + 3
          BY <1>17, <3>0, <3>1, <3>2, <5>1, Zenon
        <5>3. w = x /\ k + 3 \in 1 .. m + 3
          BY <1>1, <5>2
        <5> QED
          BY <5>1, <5>3, Zenon
      <4>2. ASSUME NEW j \in 1 .. m, fates[j] \in Handed, x = q[j + 3] + 1 PROVE FALSE
        <5>1. 2 \in 1 .. Len(ss[j]) /\ o[j] \in Nat /\ q[j + 3] = o[j] + 4
          BY <1>b, <1>e, <1>17, <4>2
        <5>2. o[k] + i = o[j] + 2
          <6>1. PICK y, z, w : y = o[k] /\ z = o[j] /\ w = q[j + 3]
            OBVIOUS
          <6>2. y \in Nat /\ z \in Nat /\ w = z + 4 /\ x = w + 1 /\ x = y + i + 3
            BY <3>0, <3>1, <4>2, <5>1, <6>1, Zenon
          <6>3. y + i = z + 2
            BY <3>0, <6>2
          <6> QED
            BY <6>1, <6>3, Zenon
        <5>3. i = 2
          BY <1>23, <5>1, <5>2
        <5> QED
          BY <3>2, <5>3
      <4>3. inputs[x] = ss[k][1]
        BY <3>1, <3>2
      <4> QED
        BY <1>15, <4>1, <4>2, <4>3
    <3>3. CASE i # 1
      <4>1. i \in 2 .. Len(ss[k])
        BY <3>3
      <4>2. ASSUME NEW j \in 1 .. m + 3, q[j] = x PROVE FALSE
        <5>1. j \notin {1, 2, 3}
          BY <1>17, <2>2, <4>2
        <5>2. PICK l : l = j - 3
          OBVIOUS
        <5>3. l \in 1 .. m /\ x = o[l] + 4
          BY <1>19, <4>2, <5>1, <5>2
        <5>4. 1 \in 1 .. Len(ss[l]) /\ o[l] \in Nat
          BY <1>e, <5>3
        <5>5. o[k] + i = o[l] + 1
          <6>1. PICK y, z : y = o[k] /\ z = o[l]
            OBVIOUS
          <6>2. y \in Nat /\ z \in Nat /\ x = z + 4 /\ x = y + i + 3
            BY <3>0, <3>1, <5>3, <5>4, <6>1, Zenon
          <6>3. y + i = z + 1
            BY <3>0, <6>2
          <6> QED
            BY <6>1, <6>3, Zenon
        <5>6. i = 1
          BY <1>23, <5>3, <5>4, <5>5
        <5> QED
          BY <3>3, <5>6
      <4>3. /\ inputs[x].correlation_id = <<"exec">> /\ inputs[x].event_type # "MarketHealth.scored"
            /\ inputs[x].event_type = "Order.sent" <=> (fates[k] \in Handed /\ i = 2)
        BY <1>d, <3>1, <4>1
      <4>4. (fates[k] \in Handed /\ i = 2) => \E j \in 1 .. m : fates[j] \in Handed /\ x = q[j + 3] + 1
        <5>1. i = 2 => x = q[k + 3] + 1
          BY <1>17, <3>0, <3>1
        <5> QED
          BY <5>1
      <4>5. ASSUME NEW j \in 1 .. m, fates[j] \in Handed, x = q[j + 3] + 1 PROVE fates[k] \in Handed /\ i = 2
        <5>1. 2 \in 1 .. Len(ss[j]) /\ o[j] \in Nat /\ q[j + 3] = o[j] + 4
          BY <1>b, <1>e, <1>17, <4>5
        <5>2. o[k] + i = o[j] + 2
          <6>1. PICK y, z, w : y = o[k] /\ z = o[j] /\ w = q[j + 3]
            OBVIOUS
          <6>2. y \in Nat /\ z \in Nat /\ w = z + 4 /\ x = w + 1 /\ x = y + i + 3
            BY <3>0, <3>1, <4>5, <5>1, <6>1, Zenon
          <6>3. y + i = z + 2
            BY <3>0, <6>2
          <6> QED
            BY <6>1, <6>3, Zenon
        <5>3. k = j /\ i = 2
          BY <1>23, <5>1, <5>2
        <5> QED
          BY <4>5, <5>3
      <4> QED
        BY <1>14, <4>2, <4>3, <4>4, <4>5
    <3> QED
      BY <3>2, <3>3
  <2> QED
    BY <1>12, <2>1, <2>2
<1>26. ASSUME NEW j \in 1 .. m, fates[j] \in Handed PROVE q[j + 3] + 1 \in 1 .. L + 3
  <2>1. o[j] \in Nat /\ Len(ss[j]) \in Nat /\ Len(ss[j]) >= 2 /\ o[j] + Len(ss[j]) <= L /\ q[j + 3] = o[j] + 4
    BY <1>b, <1>e, <1>17, <1>26
  <2> QED
    BY <1>12, <2>1, SMTT(30)
<1>27. IsCycle(inputs, n, fates, plan, m, q)
  <2>1. /\ \A i \in 1 .. Len(inputs) : inputs[i].correlation_id = CorrelationId(n) <=> \E j \in 1 .. m + 3 : q[j] = i
        /\ \A i \in 1 .. Len(inputs) : inputs[i].correlation_id \in {CorrelationId(n), <<"exec">>}
        /\ \A i \in 1 .. Len(inputs) : inputs[i].event_type = "Order.sent" <=>
              \E j \in 1 .. m : fates[j] \in Handed /\ i = q[j + 3] + 1
    BY <1>12, <1>25
  <2>2. \A i \in 2 .. Len(inputs) : inputs[i].event_type # "MarketHealth.scored"
    BY <1>12, <1>25
  <2>3. \A j \in 1 .. m : inputs[q[j + 3]] = orch("Risk.decided", n, <<plan[j], Verdict(fates[j])>>)
    BY <1>c, <1>24, Zenon
  <2>4. \A j \in 1 .. m : fates[j] \in Handed => q[j + 3] + 1 \in 1 .. Len(inputs)
    BY <1>12, <1>26
  <2>5. q \in [1 .. m + 3 -> 1 .. Len(inputs)]
    BY <1>12, <1>20
  <2>6. /\ inputs[1].event_type = "MarketHealth.scored" /\ inputs[1].payload # <<>>
        /\ inputs[2].event_type = "Strategy.evaluated"
        /\ inputs[3].event_type = "Portfolio.planned" /\ inputs[3].payload = plan
    BY <1>12, <1>13
  <2> QED
    BY <1>17, <1>21, <2>1, <2>2, <2>3, <2>4, <2>5, <2>6, Zenon DEF IsCycle
<1> QED
  BY <1>0, <1>10, <1>12, <1>27, Zenon

\* Entries are recorded after the others, each with its number.
LEMMA RecordedAfter ==
    ASSUME NEW S, NEW l \in Seq(S), NEW R, NEW inputs \in Seq(R)
    PROVE  \E new : /\ new = recordAll(l, inputs) /\ new \in Seq(ToSet(new))
                    /\ Len(l) \in Nat /\ Len(inputs) \in Nat /\ Len(new) = Len(l) + Len(inputs)
                    /\ \A i \in 1 .. Len(l) : new[i] = l[i]
                    /\ \A i \in 1 .. Len(inputs) : new[Len(l) + i] = Numbered(inputs[i], Len(l) + i)
<1>1. PICK added, new : added = [i \in DOMAIN inputs |-> Numbered(inputs[i], Len(l) + i)] /\ new = recordAll(l, inputs)
  OBVIOUS
<1>2. new = l \o added
  BY <1>1 DEF recordAll
<1>3. DOMAIN inputs = 1 .. Len(inputs) /\ Len(inputs) \in Nat
  OBVIOUS
<1>4. PICK Q : Q = S \cup {added[i] : i \in 1 .. Len(inputs)}
  OBVIOUS
<1>5. l \in Seq(Q) /\ added \in Seq(Q) /\ Len(added) = Len(inputs)
  BY <1>1, <1>3, <1>4
<1>6. /\ l \o added \in Seq(Q) /\ Len(l) \in Nat /\ Len(added) \in Nat /\ Len(l \o added) = Len(l) + Len(added)
      /\ \A i \in 1 .. Len(l) : (l \o added)[i] = l[i]
      /\ \A i \in 1 .. Len(added) : (l \o added)[Len(l) + i] = added[i]
  <2>1. l \in Seq(Q) /\ added \in Seq(Q)
    BY <1>5
  <2> QED
    BY <2>1, ConcatFacts
<1>7. new \in Seq(Q) /\ Len(l) \in Nat /\ Len(new) = Len(l) + Len(inputs) /\ \A i \in 1 .. Len(l) : new[i] = l[i]
  BY <1>2, <1>5, <1>6, Zenon
<1>8. \A i \in 1 .. Len(inputs) : new[Len(l) + i] = added[i]
  BY <1>2, <1>5, <1>6, Zenon
<1>9. \A i \in 1 .. Len(inputs) : added[i] = Numbered(inputs[i], Len(l) + i)
  BY <1>1, <1>3
<1>10. new \in Seq(ToSet(new))
  BY <1>7, SeqOfOwn
<1> QED
  BY <1>1, <1>3, <1>7, <1>8, <1>9, <1>10

\* One entry is a sequence of one.
LEMMA RecordedOne ==
    ASSUME NEW S, NEW l \in Seq(S), NEW x PROVE record(l, x) = recordAll(l, <<x>>)
<1>1. PICK one, y : one = <<x>> /\ y = Numbered(x, Len(l) + 1)
  OBVIOUS
<1>2. one \in Seq({x}) /\ Len(one) = 1 /\ one[1] = x /\ DOMAIN one = 1 .. 1
  BY <1>1
<1>3. PICK f, g : f = [i \in DOMAIN one |-> Numbered(one[i], Len(l) + i)] /\ g = <<y>>
  OBVIOUS
<1>4. f \in Seq({y}) /\ Len(f) = 1 /\ f[1] = y
  <2>1. \A i \in 1 .. 1 : i = 1
    OBVIOUS
  <2>2. f = [i \in 1 .. 1 |-> y]
    BY <1>1, <1>2, <1>3, <2>1
  <2> QED
    BY <2>2
<1>5. g \in Seq({y}) /\ Len(g) = 1 /\ g[1] = y
  BY <1>3
<1>6. f = g
  BY <1>4, <1>5, SameElements
<1>7. l \o g = Append(l, y)
  BY <1>3, ConcatOne
<1>8. recordAll(l, one) = l \o f
  BY <1>3, Zenon DEF recordAll
<1>9. record(l, x) = Append(l, y)
  BY <1>1, Zenon DEF record
<1> QED
  BY <1>1, <1>6, <1>7, <1>8, <1>9, Zenon

\* p lists the positions of the entries of cycle n: its stages, with the plan
\* of size allocations, then m decisions in the order of the plan; what was
\* handed out was approved there, and what the adapter threw on came last.
ExplainedAt(l, n, out, thr, size, m, p) ==
    /\ p \in [1 .. m + 3 -> 1 .. Len(l)] /\ Increasing(p)
    /\ \A i \in 1 .. Len(l) : l[i].correlation_id = CorrelationId(n) <=> \E j \in 1 .. m + 3 : p[j] = i
    /\ l[p[1]].event_type = "MarketHealth.scored" /\ l[p[2]].event_type = "Strategy.evaluated"
    /\ l[p[3]].event_type = "Portfolio.planned" /\ l[p[3]].payload \in [1 .. size -> Symbols]
    /\ \A j \in 1 .. m : /\ l[p[j + 3]].event_type = "Risk.decided"
                         /\ l[p[j + 3]].payload[1] = l[p[3]].payload[j]
    /\ \A s \in Symbols : <<n, s>> \in out => \E j \in 1 .. m : l[p[j + 3]].payload = <<s, "approved">>
    /\ m <= size
    /\ m < size => \E s \in Symbols : <<n, s>> \in thr
    /\ \A s \in Symbols : <<n, s>> \in thr => m > 0 /\ l[p[m + 3]].payload = <<s, "approved">>
Explained(l, n, out, thr) == \E size, m \in Nat : \E p : ExplainedAt(l, n, out, thr, size, m, p)

\* What the log of c cycles holds when the orders in out were handed to the
\* adapter, which threw on those in thr.
Known(l, c, out, thr) ==
    /\ l \in Seq(ToSet(l)) /\ c \in Nat
    /\ \A i \in 1 .. Len(l) : l[i].seq = i
    /\ \A i \in 1 .. Len(l) : \A n \in Nat : l[i].correlation_id = CorrelationId(n) => n \in 1 .. c
    /\ c > 0 => \E i \in 1 .. Len(l) : l[i].event_type = "MarketHealth.scored"
    /\ \A i \in 1 .. Len(l) : l[i].event_type = "MarketHealth.scored" => c > 0 /\ l[i].payload # <<>>
    /\ out \subseteq (1 .. c) \X Symbols /\ thr \subseteq (1 .. c) \X Symbols
    /\ \E origin : origin \in Bijection(Marked(l, "Order.sent"), out)
    /\ \A n \in 1 .. c : Explained(l, n, out, thr)

\* Entries of others do not change the account of a cycle.
LEMMA ExplainedKept ==
    ASSUME NEW S, NEW l \in Seq(S), NEW R, NEW new \in Seq(R), NEW n, NEW out, NEW out2, NEW thr, NEW thr2,
           Explained(l, n, out, thr),
           Len(l) <= Len(new), \A i \in 1 .. Len(l) : new[i] = l[i],
           \A i \in Len(l) + 1 .. Len(new) : new[i].correlation_id # CorrelationId(n),
           \A s \in Symbols : <<n, s>> \in out2 => <<n, s>> \in out,
           \A s \in Symbols : <<n, s>> \in thr2 <=> <<n, s>> \in thr
    PROVE  Explained(new, n, out2, thr2)
<1>0. PICK size, m \in Nat : \E p : ExplainedAt(l, n, out, thr, size, m, p)
  BY Zenon DEF Explained
<1>12. PICK p : ExplainedAt(l, n, out, thr, size, m, p)
  BY <1>0
<1>1. /\ p \in [1 .. m + 3 -> 1 .. Len(l)] /\ Increasing(p)
      /\ \A i \in 1 .. Len(l) : l[i].correlation_id = CorrelationId(n) <=> \E j \in 1 .. m + 3 : p[j] = i
      /\ l[p[1]].event_type = "MarketHealth.scored" /\ l[p[2]].event_type = "Strategy.evaluated"
      /\ l[p[3]].event_type = "Portfolio.planned" /\ l[p[3]].payload \in [1 .. size -> Symbols]
      /\ \A j \in 1 .. m : /\ l[p[j + 3]].event_type = "Risk.decided"
                           /\ l[p[j + 3]].payload[1] = l[p[3]].payload[j]
      /\ \A s \in Symbols : <<n, s>> \in out => \E j \in 1 .. m : l[p[j + 3]].payload = <<s, "approved">>
  BY <1>12, Zenon DEF ExplainedAt
<1>13. /\ m <= size
       /\ m < size => \E s \in Symbols : <<n, s>> \in thr
       /\ \A s \in Symbols : <<n, s>> \in thr => m > 0 /\ l[p[m + 3]].payload = <<s, "approved">>
  BY <1>12, Zenon DEF ExplainedAt
<1>2. Len(l) \in Nat /\ Len(new) \in Nat /\ p \in [1 .. m + 3 -> 1 .. Len(new)]
  BY <1>1
<1>3. \A j \in 1 .. m + 3 : new[p[j]] = l[p[j]]
  BY <1>1
<1>4. 1 \in 1 .. m + 3 /\ 2 \in 1 .. m + 3 /\ 3 \in 1 .. m + 3 /\ \A j \in 1 .. m : j + 3 \in 1 .. m + 3
  OBVIOUS
<1>5. ASSUME NEW i \in 1 .. Len(new) PROVE new[i].correlation_id = CorrelationId(n) <=> \E j \in 1 .. m + 3 : p[j] = i
  <2>1. CASE i <= Len(l)
    <3>1. i \in 1 .. Len(l)
      BY <1>2, <2>1
    <3> QED
      BY <1>1, <3>1
  <2>2. CASE i > Len(l)
    <3>1. i \in Len(l) + 1 .. Len(new)
      BY <1>2, <2>2
    <3>2. \A j \in 1 .. m + 3 : p[j] # i
      BY <1>1, <1>2, <2>2
    <3> QED
      BY <3>1, <3>2
  <2> QED
    BY <1>2, <2>1, <2>2
<1>6. new[p[1]] = l[p[1]] /\ new[p[2]] = l[p[2]] /\ new[p[3]] = l[p[3]] /\ \A j \in 1 .. m : new[p[j + 3]] = l[p[j + 3]]
  BY <1>3, <1>4
<1>7. \A s \in Symbols : <<n, s>> \in out2 => \E j \in 1 .. m : new[p[j + 3]].payload = <<s, "approved">>
  BY <1>1, <1>6
<1>8. \A j \in 1 .. m : /\ new[p[j + 3]].event_type = "Risk.decided"
                        /\ new[p[j + 3]].payload[1] = new[p[3]].payload[j]
  BY <1>1, <1>6, Zenon
<1>9. /\ new[p[1]].event_type = "MarketHealth.scored" /\ new[p[2]].event_type = "Strategy.evaluated"
      /\ new[p[3]].event_type = "Portfolio.planned" /\ new[p[3]].payload \in [1 .. size -> Symbols]
  BY <1>1, <1>6, Zenon
<1>10. Increasing(p)
  BY <1>1
<1>14. \A s \in Symbols : <<n, s>> \in thr2 => m > 0 /\ new[p[m + 3]].payload = <<s, "approved">>
  <2> SUFFICES ASSUME NEW s \in Symbols, <<n, s>> \in thr2 PROVE m > 0 /\ new[p[m + 3]].payload = <<s, "approved">>
    OBVIOUS
  <2>1. m > 0 /\ l[p[m + 3]].payload = <<s, "approved">>
    BY <1>13
  <2>2. m \in 1 .. m
    BY <2>1
  <2> QED
    BY <1>6, <2>1, <2>2
<1>15. m < size => \E s \in Symbols : <<n, s>> \in thr2
  BY <1>13
<1>11. ExplainedAt(new, n, out2, thr2, size, m, p)
  BY <1>2, <1>5, <1>7, <1>8, <1>9, <1>10, <1>13, <1>14, <1>15, Zenon DEF ExplainedAt
<1> QED
  BY <1>11, Zenon DEF Explained

\* An entry of another machine, or a transition, changes nothing that is known.
LEMMA KnownSilent ==
    ASSUME NEW l, NEW c, NEW out, NEW thr, Known(l, c, out, thr), NEW R, NEW inputs \in Seq(R),
           \A x \in R : /\ x.event_type \notin {"Order.sent", "MarketHealth.scored"}
                        /\ \A n : x.correlation_id # CorrelationId(n)
    PROVE  Known(recordAll(l, inputs), c, out, thr)
<1>1. /\ l \in Seq(ToSet(l)) /\ c \in Nat
      /\ \A i \in 1 .. Len(l) : l[i].seq = i
      /\ \A i \in 1 .. Len(l) : \A n \in Nat : l[i].correlation_id = CorrelationId(n) => n \in 1 .. c
      /\ c > 0 => \E i \in 1 .. Len(l) : l[i].event_type = "MarketHealth.scored"
      /\ \A i \in 1 .. Len(l) : l[i].event_type = "MarketHealth.scored" => c > 0 /\ l[i].payload # <<>>
      /\ out \subseteq (1 .. c) \X Symbols /\ thr \subseteq (1 .. c) \X Symbols
      /\ \E origin : origin \in Bijection(Marked(l, "Order.sent"), out)
      /\ \A n \in 1 .. c : Explained(l, n, out, thr)
  BY Zenon DEF Known
<1>2. PICK new : /\ new = recordAll(l, inputs) /\ new \in Seq(ToSet(new))
                 /\ Len(l) \in Nat /\ Len(inputs) \in Nat /\ Len(new) = Len(l) + Len(inputs)
                 /\ \A i \in 1 .. Len(l) : new[i] = l[i]
                 /\ \A i \in 1 .. Len(inputs) : new[Len(l) + i] = Numbered(inputs[i], Len(l) + i)
  <2>1. l \in Seq(ToSet(l))
    BY <1>1
  <2> QED
    BY <2>1, RecordedAfter
<1>3. ASSUME NEW i \in 1 .. Len(new)
      PROVE  \/ i \in 1 .. Len(l) /\ new[i] = l[i]
             \/ /\ i \in Len(l) + 1 .. Len(new) /\ new[i].seq = i
                /\ new[i].event_type \notin {"Order.sent", "MarketHealth.scored"}
                /\ \A n : new[i].correlation_id # CorrelationId(n)
  <2>1. CASE i \in 1 .. Len(l)
    BY <1>2, <2>1
  <2>2. CASE i \notin 1 .. Len(l)
    <3>1. PICK j : j = i - Len(l)
      OBVIOUS
    <3>2. j \in 1 .. Len(inputs) /\ i = Len(l) + j /\ i \in Len(l) + 1 .. Len(new)
      BY <1>2, <2>2, <3>1
    <3>3. PICK x : x = inputs[j]
      OBVIOUS
    <3>4. x \in R
      BY <3>2, <3>3
    <3>5. new[i] = Numbered(x, i)
      BY <1>2, <3>2, <3>3
    <3>6. new[i].seq = i /\ new[i].event_type = x.event_type /\ new[i].correlation_id = x.correlation_id
      BY <3>5 DEF Numbered
    <3> QED
      BY <3>2, <3>4, <3>6
  <2> QED
    BY <2>1, <2>2
<1>4. \A i \in 1 .. Len(l) : i \in 1 .. Len(new) /\ new[i] = l[i]
  BY <1>2
<1>5. Marked(new, "Order.sent") = Marked(l, "Order.sent")
  BY <1>3, <1>4 DEF Marked
<1>6. ASSUME NEW n \in 1 .. c PROVE Explained(new, n, out, thr)
  <2>1. \A i \in Len(l) + 1 .. Len(new) : new[i].correlation_id # CorrelationId(n)
    <3> TAKE i \in Len(l) + 1 .. Len(new)
    <3>1. i \in 1 .. Len(new) /\ i \notin 1 .. Len(l)
      BY <1>2
    <3> QED
      BY <1>3, <3>1
  <2>2. Explained(l, n, out, thr)
    BY <1>1
  <2>3. Len(l) <= Len(new)
    BY <1>2
  <2> QED
    BY <1>1, <1>2, <2>1, <2>2, <2>3, ExplainedKept
<1>7. \A i \in 1 .. Len(new) : new[i].seq = i
  BY <1>1, <1>3
<1>8. \A i \in 1 .. Len(new) : \A n \in Nat : new[i].correlation_id = CorrelationId(n) => n \in 1 .. c
  <2> TAKE i \in 1 .. Len(new)
  <2>1. CASE i \in 1 .. Len(l) /\ new[i] = l[i]
    BY <1>1, <2>1
  <2>2. CASE \A n : new[i].correlation_id # CorrelationId(n)
    BY <2>2
  <2> QED
    BY <1>3, <2>1, <2>2
<1>9. c > 0 => \E i \in 1 .. Len(new) : new[i].event_type = "MarketHealth.scored"
  BY <1>1, <1>4
<1>10. \A i \in 1 .. Len(new) : new[i].event_type = "MarketHealth.scored" => c > 0 /\ new[i].payload # <<>>
  BY <1>1, <1>3
<1>11. Known(new, c, out, thr)
  BY <1>1, <1>2, <1>5, <1>6, <1>7, <1>8, <1>9, <1>10, Zenon DEF Known
<1> QED
  BY <1>2, <1>11

\* A cycle adds its own account, and the orders that ended so.
WithOrders(out, n, plan, fates, m, ends) == out \cup {<<n, plan[i]>> : i \in {j \in 1 .. m : fates[j] \in ends}}

LEMMA KnownCycle ==
    ASSUME NEW l, NEW c, NEW out, NEW thr, Known(l, c, out, thr),
           NEW planned \in SUBSET Symbols, NEW fates, NEW plan, NEW size, NEW m, Course(plan, size, fates, m, planned),
           NEW R, NEW inputs \in Seq(R), NEW q, IsCycle(inputs, c + 1, fates, plan, m, q)
    PROVE  Known(recordAll(l, inputs), c + 1, WithOrders(out, c + 1, plan, fates, m, Handed),
                 WithOrders(thr, c + 1, plan, fates, m, Throws))
<1>0. /\ size \in Nat /\ m \in Nat /\ m <= size
      /\ plan \in [1 .. size -> planned] /\ Increasing(plan) /\ \A j \in 1 .. m : j \in 1 .. size
      /\ \A i \in 1 .. m : fates[i] \in Throws => i = m
      /\ m < size => m > 0 /\ fates[m] \in Throws
  BY DEF Course
<1>1. /\ l \in Seq(ToSet(l)) /\ c \in Nat
      /\ \A i \in 1 .. Len(l) : l[i].seq = i
      /\ \A i \in 1 .. Len(l) : \A n \in Nat : l[i].correlation_id = CorrelationId(n) => n \in 1 .. c
      /\ \A i \in 1 .. Len(l) : l[i].event_type = "MarketHealth.scored" => c > 0 /\ l[i].payload # <<>>
      /\ out \subseteq (1 .. c) \X Symbols /\ thr \subseteq (1 .. c) \X Symbols
      /\ \E origin : origin \in Bijection(Marked(l, "Order.sent"), out)
      /\ \A n \in 1 .. c : Explained(l, n, out, thr)
  BY Zenon DEF Known
<1>2. PICK new : /\ new = recordAll(l, inputs) /\ new \in Seq(ToSet(new))
                 /\ Len(l) \in Nat /\ Len(inputs) \in Nat /\ Len(new) = Len(l) + Len(inputs)
                 /\ \A i \in 1 .. Len(l) : new[i] = l[i]
                 /\ \A i \in 1 .. Len(inputs) : new[Len(l) + i] = Numbered(inputs[i], Len(l) + i)
  <2>1. l \in Seq(ToSet(l))
    BY <1>1
  <2> QED
    BY <2>1, RecordedAfter
<1>3. PICK N, L, d : N = Len(l) /\ L = Len(inputs) /\ d = c + 1
  OBVIOUS
<1>4. /\ N \in Nat /\ L \in Nat /\ d \in Nat /\ d = c + 1 /\ d > 0 /\ Len(new) = N + L /\ Len(l) = N
      /\ \A i \in 1 .. N : new[i] = l[i] /\ i \in 1 .. N + L
  BY <1>1, <1>2, <1>3
<1>5. PICK handed, out2, thr2 : /\ handed = {plan[j] : j \in {i \in 1 .. m : fates[i] \in Handed}}
                                /\ out2 = out \cup {<<d, s>> : s \in handed}
                                /\ thr2 = thr \cup {<<d, plan[i]>> : i \in {j \in 1 .. m : fates[j] \in Throws}}
  OBVIOUS
<1>6. out2 = WithOrders(out, c + 1, plan, fates, m, Handed) /\ thr2 = WithOrders(thr, c + 1, plan, fates, m, Throws)
  BY <1>3, <1>5 DEF WithOrders
<1>k. handed \subseteq Symbols /\ \A s \in handed : \E j \in 1 .. m : plan[j] = s /\ fates[j] \in Handed
  BY <1>0, <1>5
\* The entries the cycle adds.
<1>7. ASSUME NEW i \in 1 .. L
      PROVE  /\ N + i \in 1 .. N + L /\ new[N + i].seq = N + i /\ new[N + i].event_type = inputs[i].event_type
             /\ new[N + i].correlation_id = inputs[i].correlation_id /\ new[N + i].payload = inputs[i].payload
  <2>1. PICK x, y : x = inputs[i] /\ y = new[N + i]
    OBVIOUS
  <2>2. y = Numbered(x, N + i)
    BY <1>2, <1>3, <2>1
  <2>3. y.seq = N + i /\ y.event_type = x.event_type /\ y.correlation_id = x.correlation_id /\ y.payload = x.payload
    BY <2>2 DEF Numbered
  <2>4. N + i \in 1 .. N + L
    BY <1>4
  <2> QED
    BY <2>1, <2>3, <2>4, Zenon
<1>a. \A i \in 1 .. L : N + i \in 1 .. N + L /\ new[N + i].seq = N + i
  BY <1>7, Zenon
<1>b. \A i \in 1 .. L : N + i \in 1 .. N + L /\ new[N + i].event_type = inputs[i].event_type
  BY <1>7, Zenon
<1>c. \A i \in 1 .. L : N + i \in 1 .. N + L /\ new[N + i].correlation_id = inputs[i].correlation_id
  BY <1>7, Zenon
<1>d. \A i \in 1 .. L : N + i \in 1 .. N + L /\ new[N + i].payload = inputs[i].payload
  BY <1>7, Zenon
<1>8. ASSUME NEW i \in 1 .. N + L PROVE i \in 1 .. N \/ (i \notin 1 .. N /\ i - N \in 1 .. L /\ i = N + (i - N))
  BY <1>4
<1>9. /\ q \in [1 .. m + 3 -> 1 .. L] /\ Increasing(q)
      /\ \A i \in 1 .. L : inputs[i].correlation_id = CorrelationId(d) <=> \E j \in 1 .. m + 3 : q[j] = i
      /\ \A i \in 1 .. L : inputs[i].correlation_id \in {CorrelationId(d), <<"exec">>}
      /\ q[1] = 1 /\ q[2] = 2 /\ q[3] = 3
      /\ inputs[1].event_type = "MarketHealth.scored" /\ inputs[1].payload # <<>>
      /\ inputs[2].event_type = "Strategy.evaluated"
      /\ inputs[3].event_type = "Portfolio.planned" /\ inputs[3].payload = plan
      /\ \A j \in 1 .. m : inputs[q[j + 3]] = orch("Risk.decided", d, <<plan[j], Verdict(fates[j])>>)
      /\ \A i \in 2 .. L : inputs[i].event_type # "MarketHealth.scored"
      /\ \A i \in 1 .. L : inputs[i].event_type = "Order.sent" <=>
            \E j \in 1 .. m : fates[j] \in Handed /\ i = q[j + 3] + 1
      /\ \A j \in 1 .. m : fates[j] \in Handed => q[j + 3] + 1 \in 1 .. L
  BY <1>3, Zenon DEF IsCycle
<1>e. \A i \in 1 .. L : inputs[i].correlation_id = CorrelationId(d) <=> \E j \in 1 .. m + 3 : q[j] = i
  BY <1>9, Zenon
<1>f. \A i \in 1 .. L : inputs[i].correlation_id \in {CorrelationId(d), <<"exec">>}
  BY <1>9, Zenon
<1>g. inputs[1].event_type = "MarketHealth.scored" /\ inputs[1].payload # <<>>
  BY <1>9, Zenon
<1>h. \A i \in 2 .. L : inputs[i].event_type # "MarketHealth.scored"
  BY <1>9, Zenon
<1>i. \A i \in 1 .. L : inputs[i].event_type = "Order.sent" <=>
            \E j \in 1 .. m : fates[j] \in Handed /\ i = q[j + 3] + 1
  BY <1>9, Zenon
<1>j. \A j \in 1 .. m : fates[j] \in Handed => q[j + 3] + 1 \in 1 .. L
  BY <1>9, Zenon
<1>10. \A i \in 1 .. m + 3 : q[i] \in 1 .. L /\ \A j \in 1 .. m + 3 : i < j => q[i] < q[j]
  <2>1. DOMAIN q = 1 .. m + 3
    BY <1>9
  <2> QED
    BY <1>9, <2>1 DEF Increasing
<1>11. 1 \in 1 .. L /\ 3 \in 1 .. L /\ 2 \in 1 .. L /\ 1 \in 1 .. m + 3 /\ 2 \in 1 .. m + 3 /\ 3 \in 1 .. m + 3
       /\ \A j \in 1 .. m : j + 3 \in 1 .. m + 3
  <2>1. 1 \in 1 .. m + 3 /\ 2 \in 1 .. m + 3 /\ 3 \in 1 .. m + 3 /\ \A j \in 1 .. m : j + 3 \in 1 .. m + 3
    BY <1>0
  <2>2. q[3] \in 1 .. L /\ q[3] = 3
    BY <1>9, <1>10, <2>1
  <2> QED
    BY <1>4, <2>1, <2>2
<1>12. \A n : CorrelationId(n) = CorrelationId(d) => n = d
  BY DEF CorrelationId
<1>13. \A n : CorrelationId(n) # <<"exec">>
  BY DEF CorrelationId
<1>14. \A i \in 1 .. N + L : new[i].seq = i
  <2> TAKE i \in 1 .. N + L
  <2>1. CASE i \in 1 .. N
    BY <1>1, <1>4, <2>1
  <2>2. CASE i \notin 1 .. N
    <3>1. PICK j : j \in 1 .. L /\ i = N + j
      BY <1>8, <2>2
    <3> QED
      BY <1>a, <3>1
  <2> QED
    BY <2>1, <2>2
<1>15. \A i \in 1 .. N + L : \A n \in Nat : new[i].correlation_id = CorrelationId(n) => n \in 1 .. d
  <2> TAKE i \in 1 .. N + L
  <2> TAKE n \in Nat
  <2>1. CASE i \in 1 .. N
    <3>1. new[i].correlation_id = CorrelationId(n) => n \in 1 .. c
      BY <1>1, <1>4, <2>1
    <3> QED
      BY <1>1, <1>4, <3>1
  <2>2. CASE i \notin 1 .. N
    <3>1. PICK j : j \in 1 .. L /\ i = N + j
      BY <1>8, <2>2
    <3>2. new[i].correlation_id \in {CorrelationId(d), <<"exec">>}
      BY <1>c, <1>f, <3>1
    <3>3. new[i].correlation_id = CorrelationId(n) => n = d
      BY <1>12, <1>13, <3>2
    <3> QED
      BY <1>4, <3>3
  <2> QED
    BY <2>1, <2>2
<1>16. \E i \in 1 .. N + L : new[i].event_type = "MarketHealth.scored"
  <2>1. N + 1 \in 1 .. N + L /\ new[N + 1].event_type = inputs[1].event_type
    BY <1>b, <1>11
  <2> QED
    BY <1>g, <2>1
<1>17. \A i \in 1 .. N + L : new[i].event_type = "MarketHealth.scored" => d > 0 /\ new[i].payload # <<>>
  <2> TAKE i \in 1 .. N + L
  <2>1. CASE i \in 1 .. N
    BY <1>1, <1>4, <2>1
  <2>2. CASE i \notin 1 .. N
    <3>1. PICK j : j \in 1 .. L /\ i = N + j
      BY <1>8, <2>2
    <3>2. new[i].event_type = inputs[j].event_type /\ new[i].payload = inputs[j].payload
      BY <1>b, <1>d, <3>1
    <3>3. j = 1 \/ j \in 2 .. L
      BY <1>4, <3>1
    <3> QED
      BY <1>4, <1>g, <1>h, <3>2, <3>3
  <2> QED
    BY <2>1, <2>2
<1>18. /\ out2 \subseteq (1 .. d) \X Symbols
       /\ \A n \in 1 .. c : \A s : <<n, s>> \in out2 => <<n, s>> \in out
       /\ \A s : <<d, s>> \in out2 <=> s \in handed
       /\ \A x \in out2 : x \notin out => \E s \in handed : x = <<d, s>>
       /\ \A x \in out : x[1] # d
  <2>1. 1 .. c \subseteq 1 .. d /\ d \in 1 .. d /\ d \notin 1 .. c
    BY <1>1, <1>4
  <2> QED
    BY <1>1, <1>5, <1>k, <2>1
<1>l. /\ thr2 \subseteq (1 .. d) \X Symbols
      /\ \A n \in 1 .. c : \A s : <<n, s>> \in thr2 <=> <<n, s>> \in thr
      /\ \A s : <<d, s>> \in thr2 <=> \E j \in 1 .. m : fates[j] \in Throws /\ plan[j] = s
  <2>1. 1 .. c \subseteq 1 .. d /\ d \in 1 .. d /\ d \notin 1 .. c
    BY <1>1, <1>4
  <2>2. PICK late : late = {plan[i] : i \in {j \in 1 .. m : fates[j] \in Throws}}
    OBVIOUS
  <2>3. late \subseteq Symbols /\ thr2 = thr \cup {<<d, s>> : s \in late}
    BY <1>0, <1>5, <2>2
  <2>4. \A s : s \in late <=> \E j \in 1 .. m : fates[j] \in Throws /\ plan[j] = s
    BY <2>2
  <2>5. \A s : <<d, s>> \in thr2 <=> s \in late
    BY <1>1, <2>1, <2>3
  <2>6. \A n \in 1 .. c : \A s : <<n, s>> \in thr2 <=> <<n, s>> \in thr
    BY <2>1, <2>3
  <2>7. thr2 \subseteq (1 .. d) \X Symbols
    BY <1>1, <2>1, <2>3
  <2> QED
    BY <2>4, <2>5, <2>6, <2>7
<1>19. ASSUME NEW n \in 1 .. c PROVE Explained(new, n, out2, thr2)
  <2>1. \A i \in Len(l) + 1 .. Len(new) : new[i].correlation_id # CorrelationId(n)
    <3> TAKE i \in Len(l) + 1 .. Len(new)
    <3>1. i - N \in 1 .. L /\ i = N + (i - N)
      BY <1>4
    <3>2. new[i].correlation_id \in {CorrelationId(d), <<"exec">>}
      BY <1>c, <1>f, <3>1
    <3>3. n # d
      BY <1>1, <1>4
    <3> QED
      BY <1>12, <1>13, <3>2, <3>3
  <2>2. Explained(l, n, out, thr) /\ Len(l) <= Len(new)
    BY <1>1, <1>4
  <2>3. /\ \A s \in Symbols : <<n, s>> \in out2 => <<n, s>> \in out
        /\ \A s \in Symbols : <<n, s>> \in thr2 <=> <<n, s>> \in thr
    BY <1>18, <1>l
  <2> QED
    BY <1>1, <1>2, <2>1, <2>2, <2>3, ExplainedKept
<1>20. Explained(new, d, out2, thr2)
  <2> DEFINE p == [j \in 1 .. m + 3 |-> N + q[j]]
  <2>1. p \in [1 .. m + 3 -> 1 .. N + L] /\ \A j \in 1 .. m + 3 : p[j] = N + q[j]
    BY <1>4, <1>10
  <2> HIDE DEF p
  <2>2. Increasing(p)
    <3>1. DOMAIN p = 1 .. m + 3
      BY <2>1
    <3>2. ASSUME NEW i \in 1 .. m + 3, NEW j \in 1 .. m + 3, i < j PROVE p[i] < p[j]
      <4>1. PICK x, y : x = q[i] /\ y = q[j]
        OBVIOUS
      <4>2. x \in 1 .. L /\ y \in 1 .. L /\ x < y /\ p[i] = N + x /\ p[j] = N + y
        BY <1>10, <2>1, <3>2, <4>1
      <4> QED
        BY <1>4, <4>2
    <3> QED
      BY <3>1, <3>2 DEF Increasing
  <2>3. ASSUME NEW i \in 1 .. N + L PROVE new[i].correlation_id = CorrelationId(d) <=> \E j \in 1 .. m + 3 : p[j] = i
    <3>1. CASE i \in 1 .. N
      <4>1. new[i].correlation_id # CorrelationId(d)
        <5>1. d \notin 1 .. c
          BY <1>1, <1>4
        <5> QED
          BY <1>1, <1>4, <3>1, <5>1
      <4>2. ASSUME NEW j \in 1 .. m + 3, p[j] = i PROVE FALSE
        <5>1. PICK x : x = q[j]
          OBVIOUS
        <5>2. x \in 1 .. L /\ i = N + x
          BY <1>10, <2>1, <4>2, <5>1
        <5> QED
          BY <1>4, <3>1, <5>2
      <4> QED
        BY <4>1, <4>2
    <3>2. CASE i \notin 1 .. N
      <4>1. PICK k : k \in 1 .. L /\ i = N + k
        BY <1>8, <3>2
      <4>2. new[i].correlation_id = CorrelationId(d) <=> \E j \in 1 .. m + 3 : q[j] = k
        BY <1>c, <1>e, <4>1
      <4>3. \A j \in 1 .. m + 3 : p[j] = i <=> q[j] = k
        <5> TAKE j \in 1 .. m + 3
        <5>1. PICK x, y : x = q[j] /\ y = p[j]
          OBVIOUS
        <5>2. x \in 1 .. L /\ y = N + x
          BY <1>10, <2>1, <5>1
        <5>3. y = i <=> x = k
          BY <1>4, <4>1, <5>2
        <5> QED
          BY <5>1, <5>3, Zenon
      <4> QED
        BY <4>2, <4>3
    <3> QED
      BY <3>1, <3>2
  <2>4. /\ new[p[1]].event_type = "MarketHealth.scored" /\ new[p[2]].event_type = "Strategy.evaluated"
        /\ new[p[3]].event_type = "Portfolio.planned" /\ new[p[3]].payload = plan
    <3>1. p[1] = N + 1 /\ p[2] = N + 2 /\ p[3] = N + 3
      BY <1>9, <1>11, <2>1
    <3>2. /\ new[N + 1].event_type = inputs[1].event_type /\ new[N + 2].event_type = inputs[2].event_type
          /\ new[N + 3].event_type = inputs[3].event_type /\ new[N + 3].payload = inputs[3].payload
      BY <1>b, <1>d, <1>11
    <3> QED
      BY <1>9, <3>1, <3>2, Zenon
  <2>5. ASSUME NEW j \in 1 .. m
        PROVE  /\ new[p[j + 3]].event_type = "Risk.decided"
               /\ new[p[j + 3]].payload = <<plan[j], Verdict(fates[j])>>
    <3>1. PICK k, x, v : k = q[j + 3] /\ x = inputs[k] /\ v = <<plan[j], Verdict(fates[j])>>
      OBVIOUS
    <3>2. k \in 1 .. L /\ p[j + 3] = N + k
      BY <1>10, <1>11, <2>1, <3>1
    <3>3. x = orch("Risk.decided", d, v)
      BY <1>9, <3>1, Zenon
    <3>4. x.event_type = "Risk.decided" /\ x.payload = v
      BY <3>3 DEF orch, Event
    <3>5. new[N + k].event_type = x.event_type /\ new[N + k].payload = x.payload
      BY <1>b, <1>d, <3>1, <3>2
    <3> QED
      BY <3>1, <3>2, <3>4, <3>5, Zenon
  <2>6. ASSUME NEW j \in 1 .. m PROVE new[p[j + 3]].payload[1] = new[p[3]].payload[j]
    <3>0. PICK v, x, y : v = new[p[j + 3]].payload /\ x = plan[j] /\ y = Verdict(fates[j])
      OBVIOUS
    <3>a. v = <<x, y>>
      BY <2>5, <3>0, Zenon
    <3>1. new[p[j + 3]].payload[1] = plan[j]
      BY <3>0, <3>a
    <3> QED
      BY <2>4, <3>1
  <2>7. ASSUME NEW s \in Symbols, <<d, s>> \in out2 PROVE \E j \in 1 .. m : new[p[j + 3]].payload = <<s, "approved">>
    <3>1. PICK j \in 1 .. m : plan[j] = s /\ fates[j] \in Handed
      BY <1>18, <1>k, <2>7
    <3>2. Verdict(fates[j]) = "approved"
      BY <3>1 DEF Verdict, Handed, Arrives, Throws
    <3>3. new[p[j + 3]].payload = <<plan[j], Verdict(fates[j])>>
      BY <2>5
    <3> QED
      BY <3>1, <3>2, <3>3
  <2>8. new[p[3]].payload \in [1 .. size -> Symbols]
    <3>1. plan \in [1 .. size -> Symbols]
      BY <1>0
    <3> QED
      BY <2>4, <3>1
  <2>12. m < size => \E s \in Symbols : <<d, s>> \in thr2
    <3> SUFFICES ASSUME m < size PROVE \E s \in Symbols : <<d, s>> \in thr2
      OBVIOUS
    <3>1. m \in 1 .. m /\ fates[m] \in Throws /\ plan[m] \in Symbols
      BY <1>0
    <3> QED
      BY <1>l, <3>1
  <2>13. \A s \in Symbols : <<d, s>> \in thr2 => m > 0 /\ new[p[m + 3]].payload = <<s, "approved">>
    <3> SUFFICES ASSUME NEW s \in Symbols, <<d, s>> \in thr2 PROVE m > 0 /\ new[p[m + 3]].payload = <<s, "approved">>
      OBVIOUS
    <3>1. PICK j \in 1 .. m : fates[j] \in Throws /\ plan[j] = s
      BY <1>l
    <3>2. j = m /\ m > 0
      BY <1>0, <3>1
    <3>3. Verdict(fates[j]) = "approved"
      BY <3>1 DEF Verdict, Throws
    <3>4. new[p[j + 3]].payload = <<plan[j], Verdict(fates[j])>>
      BY <2>5
    <3> QED
      BY <3>1, <3>2, <3>3, <3>4
  <2>9. \A s \in Symbols : <<d, s>> \in out2 => \E j \in 1 .. m : new[p[j + 3]].payload = <<s, "approved">>
    BY <2>7
  <2>10. Len(new) = N + L
    BY <1>4
  <2>11. ExplainedAt(new, d, out2, thr2, size, m, p)
    BY <1>0, <2>1, <2>2, <2>3, <2>4, <2>5, <2>6, <2>8, <2>9, <2>10, <2>12, <2>13, Zenon DEF ExplainedAt
  <2> QED
    BY <1>0, <2>11, Zenon DEF Explained
\* Where each order of the cycle went out, and which order it was.
<1>21. PICK origin : origin \in Bijection(Marked(l, "Order.sent"), out)
  BY <1>1
<1>22. PICK M, M2 : M = Marked(l, "Order.sent") /\ M2 = Marked(new, "Order.sent")
  OBVIOUS
<1>23. /\ \A i \in M : origin[i] \in out
       /\ \A i, k \in M : origin[i] = origin[k] => i = k
       /\ \A x \in out : \E i \in M : origin[i] = x
  BY <1>21, <1>22 DEF Bijection, Injection, Surjection, IsInjective
<1>24. /\ M \subseteq 1 .. N /\ \A i \in 1 .. N : i \in M2 <=> i \in M
       /\ M2 \subseteq 1 .. N + L
       /\ \A i \in 1 .. L : N + i \in M2 <=> \E j \in 1 .. m : fates[j] \in Handed /\ i = q[j + 3] + 1
  <2>1. M = {i \in 1 .. N : l[i].event_type = "Order.sent"} /\ M2 = {i \in 1 .. N + L : new[i].event_type = "Order.sent"}
    BY <1>4, <1>22 DEF Marked
  <2>2. \A i \in 1 .. N : i \in M2 <=> i \in M
    BY <1>4, <2>1
  <2>3. \A i \in 1 .. L : N + i \in M2 <=> \E j \in 1 .. m : fates[j] \in Handed /\ i = q[j + 3] + 1
    BY <1>b, <1>i, <2>1, SMTT(30)
  <2> QED
    BY <2>1, <2>2, <2>3
<1>25. \A i, j \in 1 .. m : q[i + 3] = q[j + 3] => i = j
  <2> SUFFICES ASSUME NEW i \in 1 .. m, NEW j \in 1 .. m, q[i + 3] = q[j + 3], i # j PROVE FALSE
    OBVIOUS
  <2>1. PICK x, y : x = q[i + 3] /\ y = q[j + 3]
    OBVIOUS
  <2>2. x \in 1 .. L /\ y \in 1 .. L /\ (i + 3 < j + 3 => x < y) /\ (j + 3 < i + 3 => y < x)
    BY <1>10, <1>11, <2>1
  <2>3. i + 3 < j + 3 \/ j + 3 < i + 3
    OBVIOUS
  <2> QED
    BY <1>4, <2>1, <2>2, <2>3
<1>26. \A i, j \in 1 .. m : plan[i] = plan[j] => i = j
  <2> SUFFICES ASSUME NEW i \in 1 .. m, NEW j \in 1 .. m, plan[i] = plan[j], i # j PROVE FALSE
    OBVIOUS
  <2>1. PICK x, y : x = plan[i] /\ y = plan[j]
    OBVIOUS
  <2>2. x \in Symbols /\ y \in Symbols /\ Symbols \subseteq Nat
    BY <1>0, <2>1, GovernanceAssumption
  <2>3. DOMAIN plan = 1 .. size /\ i \in 1 .. size /\ j \in 1 .. size
    BY <1>0
  <2>4. (i < j => x < y) /\ (j < i => y < x)
    BY <1>0, <2>1, <2>3 DEF Increasing
  <2> QED
    BY <2>1, <2>2, <2>4
<1> DEFINE at(i) == CHOOSE j \in 1 .. m : fates[j] \in Handed /\ i = N + (q[j + 3] + 1)
           origin2 == [i \in M2 |-> IF i \in 1 .. N THEN origin[i] ELSE <<d, plan[at(i)]>>]
<1>27. ASSUME NEW i \in M2, i \notin 1 .. N
       PROVE  at(i) \in 1 .. m /\ fates[at(i)] \in Handed /\ i = N + (q[at(i) + 3] + 1)
  <2>1. PICK k : k \in 1 .. L /\ i = N + k
    BY <1>8, <1>24, <1>27
  <2>2. \E j \in 1 .. m : fates[j] \in Handed /\ i = N + (q[j + 3] + 1)
    BY <1>24, <2>1
  <2> QED
    BY <2>2
<1> HIDE DEF at
<1>28. \A i \in M2 : (i \in 1 .. N => i \in M /\ origin2[i] = origin[i]) /\ (i \notin 1 .. N => origin2[i] = <<d, plan[at(i)]>>)
  BY <1>24
<1>29. DOMAIN origin2 = M2 /\ origin2 = [i \in M2 |-> origin2[i]]
  OBVIOUS
<1> HIDE DEF origin2
<1>30. \A i \in M2 : i \notin 1 .. N => plan[at(i)] \in handed /\ origin2[i] \in out2 /\ origin2[i] \notin out
  <2> SUFFICES ASSUME NEW i \in M2, i \notin 1 .. N PROVE plan[at(i)] \in handed /\ origin2[i] \in out2 /\ origin2[i] \notin out
    OBVIOUS
  <2>1. PICK s : s = plan[at(i)]
    OBVIOUS
  <2>2. s \in handed
    BY <1>5, <1>27, <2>1
  <2>3. origin2[i] = <<d, s>>
    BY <1>28, <2>1
  <2> QED
    BY <1>18, <2>1, <2>2, <2>3
<1>31. origin2 \in [M2 -> out2]
  <2>1. \A i \in M2 : i \in 1 .. N => origin2[i] \in out2
    BY <1>5, <1>23, <1>28
  <2> QED
    BY <1>29, <1>30, <2>1
<1>32. ASSUME NEW i \in M2, NEW k \in M2, origin2[i] = origin2[k] PROVE i = k
  <2>1. CASE i \in 1 .. N /\ k \in 1 .. N
    BY <1>23, <1>28, <1>32, <2>1
  <2>2. CASE (i \in 1 .. N) # (k \in 1 .. N)
    BY <1>23, <1>28, <1>30, <1>32, <2>2
  <2>3. CASE i \notin 1 .. N /\ k \notin 1 .. N
    <3>1. PICK x, y : x = at(i) /\ y = at(k)
      OBVIOUS
    <3>2. x \in 1 .. m /\ y \in 1 .. m /\ i = N + (q[x + 3] + 1) /\ k = N + (q[y + 3] + 1)
      BY <1>27, <2>3, <3>1
    <3>3. <<d, plan[x]>> = <<d, plan[y]>>
      BY <1>28, <1>32, <2>3, <3>1
    <3>4. x = y
      BY <1>26, <3>2, <3>3
    <3> QED
      BY <3>2, <3>4
  <2> QED
    BY <2>1, <2>2, <2>3
<1>33. ASSUME NEW x \in out2 PROVE \E i \in M2 : origin2[i] = x
  <2>1. CASE x \in out
    <3>1. PICK i \in M : origin[i] = x
      BY <1>23, <2>1
    <3>2. i \in 1 .. N /\ i \in M2
      BY <1>24
    <3> QED
      BY <1>28, <3>1, <3>2
  <2>2. CASE x \notin out
    <3>1. PICK s \in handed : x = <<d, s>>
      BY <1>18, <2>2
    <3>2. PICK j \in 1 .. m : plan[j] = s /\ fates[j] \in Handed
      BY <1>k
    <3>3. fates[j] \in Handed /\ q[j + 3] + 1 \in 1 .. L /\ q[j + 3] \in 1 .. L
      BY <1>j, <1>10, <1>11, <3>2
    <3>4. PICK i : i = N + (q[j + 3] + 1)
      OBVIOUS
    <3>5. i \in M2
      BY <1>24, <3>3, <3>4
    <3>6. i \notin 1 .. N
      BY <1>4, <3>3, <3>4, SMTT(30)
    <3>7. PICK k : k = at(i)
      OBVIOUS
    <3>8. k \in 1 .. m /\ i = N + (q[k + 3] + 1)
      BY <1>27, <3>5, <3>6, <3>7
    <3>9. q[k + 3] = q[j + 3]
      <4>1. q[k + 3] \in 1 .. L
        BY <1>10, <1>11, <3>8
      <4>2. PICK y, z : y = q[k + 3] /\ z = q[j + 3]
        OBVIOUS
      <4>3. y \in 1 .. L /\ z \in 1 .. L /\ i = N + (y + 1) /\ i = N + (z + 1)
        BY <3>3, <3>4, <3>8, <4>1, <4>2, Zenon
      <4>4. y = z
        BY <1>4, <4>3
      <4> QED
        BY <4>2, <4>4
    <3>10. k = j
      BY <1>25, <3>8, <3>9
    <3> QED
      BY <1>28, <3>1, <3>2, <3>5, <3>6, <3>7, <3>10
  <2> QED
    BY <2>1, <2>2
<1>34. origin2 \in Bijection(M2, out2)
  BY <1>31, <1>32, <1>33 DEF Bijection, Injection, Surjection, IsInjective
<1>35. \A n \in 1 .. d : Explained(new, n, out2, thr2)
  <2>1. \A n \in 1 .. d : n \in 1 .. c \/ n = d
    BY <1>1, <1>4
  <2> QED
    BY <1>19, <1>20, <2>1
<1>36. Known(new, d, out2, thr2)
  BY <1>2, <1>4, <1>14, <1>15, <1>16, <1>17, <1>18, <1>l, <1>22, <1>34, <1>35, Zenon DEF Known
<1> QED
  BY <1>2, <1>3, <1>6, <1>36, Zenon

\* The place of each stage in the chain.
LEMMA StageOf ==
    ASSUME NEW e
    PROVE  /\ e.event_type = "MarketHealth.scored" => Stage(e) = 1 /\ e.event_type \in ToSet(ChainOrder)
           /\ e.event_type = "Strategy.evaluated" => Stage(e) = 3 /\ e.event_type \in ToSet(ChainOrder)
           /\ e.event_type = "Portfolio.planned" => Stage(e) = 4 /\ e.event_type \in ToSet(ChainOrder)
           /\ e.event_type = "Risk.decided" => Stage(e) = 5 /\ e.event_type \in ToSet(ChainOrder)
<1>1. PICK c, t : c = ChainOrder /\ t = e.event_type
  OBVIOUS
<1>2. /\ DOMAIN c = 1 .. 7
      /\ c[1] = "MarketHealth.scored" /\ c[2] = "Feature.computed" /\ c[3] = "Strategy.evaluated"
      /\ c[4] = "Portfolio.planned" /\ c[5] = "Risk.decided" /\ c[6] = "Order.sent" /\ c[7] = "Fill.received"
  BY <1>1 DEF ChainOrder
<1>3. /\ \A i \in 1 .. 7 : c[i] = "MarketHealth.scored" <=> i = 1
      /\ \A i \in 1 .. 7 : c[i] = "Strategy.evaluated" <=> i = 3
      /\ \A i \in 1 .. 7 : c[i] = "Portfolio.planned" <=> i = 4
      /\ \A i \in 1 .. 7 : c[i] = "Risk.decided" <=> i = 5
  <2>1. \A i \in 1 .. 7 : i \in {1, 2, 3, 4, 5, 6, 7}
    OBVIOUS
  <2> QED
    BY <1>2, <2>1
<1>4. Stage(e) = CHOOSE i \in 1 .. 7 : c[i] = t
  BY <1>1, <1>2, Zenon DEF Stage
<1>5. ToSet(ChainOrder) = {c[i] : i \in 1 .. 7}
  BY <1>1, <1>2, Zenon DEF ToSet
<1>6. /\ t = "MarketHealth.scored" => (CHOOSE i \in 1 .. 7 : c[i] = t) = 1
      /\ t = "Strategy.evaluated" => (CHOOSE i \in 1 .. 7 : c[i] = t) = 3
      /\ t = "Portfolio.planned" => (CHOOSE i \in 1 .. 7 : c[i] = t) = 4
      /\ t = "Risk.decided" => (CHOOSE i \in 1 .. 7 : c[i] = t) = 5
  BY <1>2, <1>3
<1> QED
  BY <1>1, <1>2, <1>4, <1>5, <1>6

\* The sort of the drill-down leaves a sequence alone that is in order.
ChainSorted(s) == StableSort(s, LAMBDA a, b : Stage(a) < Stage(b) \/ (Stage(a) = Stage(b) /\ a.seq < b.seq))

LEMMA SortedStays ==
    ASSUME NEW S, NEW s \in Seq(S),
           \A i \in 1 .. Len(s) : Stage(s[i]) \in Nat /\ s[i].seq \in Nat,
           \A i, j \in 1 .. Len(s) : i < j => Stage(s[i]) <= Stage(s[j]) /\ s[i].seq < s[j].seq
    PROVE  ChainSorted(s) = s
<1> DEFINE Before(i, j) == Stage(s[i]) < Stage(s[j]) \/ (Stage(s[i]) = Stage(s[j]) /\ s[i].seq < s[j].seq)
           Ahead(i) == {j \in DOMAIN s : Before(j, i) \/ (~Before(i, j) /\ j <= i)}
<1>1. PICK n : n = Len(s)
  OBVIOUS
<1>2. n \in Nat /\ DOMAIN s = 1 .. n
  BY <1>1
<1>3. ASSUME NEW i \in 1 .. n, NEW j \in 1 .. n PROVE Before(i, j) <=> i < j
  <2>1. PICK x, y, v, w : x = Stage(s[i]) /\ y = Stage(s[j]) /\ v = s[i].seq /\ w = s[j].seq
    OBVIOUS
  <2>2. /\ x \in Nat /\ y \in Nat /\ v \in Nat /\ w \in Nat
        /\ (i < j => x <= y /\ v < w) /\ (j < i => y <= x /\ w < v) /\ (i = j => x = y /\ v = w)
    BY <1>1, <2>1
  <2>3. (x < y \/ (x = y /\ v < w)) <=> i < j
    BY <1>2, <2>2
  <2> QED
    BY <2>1, <2>3, Zenon
<1>4. ASSUME NEW i \in 1 .. n PROVE Cardinality(Ahead(i)) = i
  <2>1. \A j \in 1 .. n : (Before(j, i) \/ (~Before(i, j) /\ j <= i)) <=> j <= i
    <3> HIDE DEF Before
    <3> QED
      BY <1>2, <1>3
  <2>2. Ahead(i) = {j \in 1 .. n : j <= i}
    <3> HIDE DEF Before
    <3> QED
      BY <1>2, <2>1
  <2>3. {j \in 1 .. n : j <= i} = 1 .. i
    BY <1>2
  <2>4. Cardinality(1 .. i) = i
    BY <1>2, FS_Interval
  <2> QED
    BY <2>2, <2>3, <2>4, Zenon
<1>5. ChainSorted(s) = [k \in DOMAIN s |-> s[CHOOSE i \in DOMAIN s : Cardinality(Ahead(i)) = k]]
  BY DEF ChainSorted, StableSort
<1> HIDE DEF Ahead
<1>6. ASSUME NEW k \in 1 .. n PROVE (CHOOSE i \in DOMAIN s : Cardinality(Ahead(i)) = k) = k
  BY <1>2, <1>4
<1>7. PICK g : g = [k \in DOMAIN s |-> s[CHOOSE i \in DOMAIN s : Cardinality(Ahead(i)) = k]]
  OBVIOUS
<1>8. ASSUME NEW k \in 1 .. n PROVE g[k] = s[k]
  <2>1. g[k] = s[CHOOSE i \in DOMAIN s : Cardinality(Ahead(i)) = k]
    BY <1>2, <1>7
  <2> QED
    BY <1>6, <2>1, Zenon
<1>9. g = [k \in 1 .. n |-> g[k]]
  BY <1>2, <1>7
<1>10. s = [k \in 1 .. n |-> s[k]]
  BY <1>2
<1>11. g = s
  BY <1>8, <1>9, <1>10
<1> QED
  BY <1>5, <1>7, <1>11, Zenon

\* t recounts the m + 3 entries at the positions p of the log.
Recounts(t, l, S, m, p) ==
    /\ t \in Seq(S) /\ Len(t) = m + 3
    /\ \A j \in 1 .. m + 3 : t[j] = l[p[j]]
    /\ \A i, j \in 1 .. m + 3 : i < j => t[i].seq < t[j].seq

\* The drill-down of a cycle is its own entries, as they were recorded.
LEMMA TimelineOfCycle ==
    ASSUME NEW S, NEW l \in Seq(S), \A i \in 1 .. Len(l) : l[i].seq = i, NEW n, NEW out, NEW thr,
           NEW size \in Nat, NEW m \in Nat, NEW p, ExplainedAt(l, n, out, thr, size, m, p)
    PROVE  Recounts(explainabilityView(l, CorrelationId(n)).timeline, l, S, m, p)
<1>1. PICK keep, t : keep = {e \in ToSet(l) : e.correlation_id = CorrelationId(n)} /\ t = byCorrelation(l, CorrelationId(n))
  OBVIOUS
<1>2. t = Filter(l, keep)
  BY <1>1 DEF byCorrelation
<1>3. p \in [1 .. m + 3 -> 1 .. Len(l)] /\ Increasing(p)
  BY DEF ExplainedAt
<1>4. Selects(p, l, keep, m + 3)
  <2>1. \A i \in 1 .. Len(l) : l[i].correlation_id = CorrelationId(n) <=> \E j \in 1 .. m + 3 : p[j] = i
    BY DEF ExplainedAt
  <2>2. \A i \in 1 .. Len(l) : l[i] \in keep <=> l[i].correlation_id = CorrelationId(n)
    BY <1>1 DEF ToSet
  <2> QED
    BY <1>3, <2>1, <2>2 DEF Selects
<1>5. Len(t) = m + 3 /\ \A j \in 1 .. m + 3 : t[j] = l[p[j]]
  <2>1. m + 3 \in Nat
    OBVIOUS
  <2> QED
    BY <1>2, <1>4, <2>1, FilterSelects
<1>6. t \in Seq(S)
  BY <1>2, FilterType
<1>7. \A j \in 1 .. m + 3 : t[j].seq = p[j] /\ p[j] \in Nat
  BY <1>3, <1>5
<1>8. \A i, j \in 1 .. m + 3 : i < j => t[i].seq < t[j].seq
  <2>1. DOMAIN p = 1 .. m + 3
    BY <1>3
  <2>2. \A i, j \in 1 .. m + 3 : i < j => p[i] < p[j]
    BY <1>3, <2>1 DEF Increasing
  <2> QED
    BY <1>7, <2>2
<1>9. /\ t[1].event_type = "MarketHealth.scored" /\ t[2].event_type = "Strategy.evaluated"
      /\ t[3].event_type = "Portfolio.planned"
      /\ \A j \in 1 .. m + 3 : j \in {1, 2, 3} \/ t[j].event_type = "Risk.decided"
  <2>1. /\ l[p[1]].event_type = "MarketHealth.scored" /\ l[p[2]].event_type = "Strategy.evaluated"
        /\ l[p[3]].event_type = "Portfolio.planned"
        /\ \A j \in 1 .. m : l[p[j + 3]].event_type = "Risk.decided"
    BY DEF ExplainedAt
  <2>2. t[1] = l[p[1]] /\ t[2] = l[p[2]] /\ t[3] = l[p[3]]
    BY <1>5
  <2>3. ASSUME NEW j \in 1 .. m + 3, j \notin {1, 2, 3} PROVE t[j].event_type = "Risk.decided"
    <3>1. j - 3 \in 1 .. m /\ (j - 3) + 3 = j
      BY <2>3
    <3>2. l[p[(j - 3) + 3]].event_type = "Risk.decided"
      BY <2>1, <3>1
    <3> QED
      BY <1>5, <3>1, <3>2
  <2> QED
    BY <2>1, <2>2, <2>3
<1>10. ASSUME NEW j \in 1 .. m + 3
       PROVE  /\ Stage(t[j]) = IF j = 1 THEN 1 ELSE IF j = 2 THEN 3 ELSE IF j = 3 THEN 4 ELSE 5
              /\ t[j].event_type \in ToSet(ChainOrder)
  <2>1. PICK e : e = t[j]
    OBVIOUS
  <2>2. CASE j = 1
    BY <1>9, <2>1, <2>2, StageOf
  <2>3. CASE j = 2
    BY <1>9, <2>1, <2>3, StageOf
  <2>4. CASE j = 3
    BY <1>9, <2>1, <2>4, StageOf
  <2>5. CASE j \notin {1, 2, 3}
    BY <1>9, <2>1, <2>5, StageOf
  <2> QED
    BY <2>2, <2>3, <2>4, <2>5
<1>11. PICK chain : chain = {e \in ToSet(t) : e.event_type \in ToSet(ChainOrder)}
  OBVIOUS
<1>12. Filter(t, chain) = t
  <2>1. \A i \in 1 .. Len(t) : t[i] \in chain
    <3> SUFFICES ASSUME NEW i \in 1 .. Len(t) PROVE t[i] \in chain
      OBVIOUS
    <3>1. t[i] \in ToSet(t)
      BY <1>6 DEF ToSet
    <3>2. t[i].event_type \in ToSet(ChainOrder)
      BY <1>5, <1>10
    <3> QED
      BY <1>11, <3>1, <3>2, Zenon
  <2> QED
    BY <1>6, <2>1, FilterKeeps
<1>13. ChainSorted(t) = t
  <2>1. \A i \in 1 .. Len(t) : Stage(t[i]) \in Nat /\ t[i].seq \in Nat
    <3> SUFFICES ASSUME NEW i \in 1 .. m + 3 PROVE Stage(t[i]) \in Nat /\ t[i].seq \in Nat
      BY <1>5
    <3>1. Stage(t[i]) = IF i = 1 THEN 1 ELSE IF i = 2 THEN 3 ELSE IF i = 3 THEN 4 ELSE 5
      BY <1>10
    <3> QED
      BY <1>7, <3>1
  <2>2. \A i, j \in 1 .. Len(t) : i < j => Stage(t[i]) <= Stage(t[j]) /\ t[i].seq < t[j].seq
    <3> SUFFICES ASSUME NEW i \in 1 .. m + 3, NEW j \in 1 .. m + 3, i < j
                 PROVE  Stage(t[i]) <= Stage(t[j]) /\ t[i].seq < t[j].seq
      BY <1>5
    <3>1. /\ Stage(t[i]) = IF i = 1 THEN 1 ELSE IF i = 2 THEN 3 ELSE IF i = 3 THEN 4 ELSE 5
          /\ Stage(t[j]) = IF j = 1 THEN 1 ELSE IF j = 2 THEN 3 ELSE IF j = 3 THEN 4 ELSE 5
      BY <1>10
    <3> QED
      BY <1>8, <3>1
  <2> QED
    BY <1>6, <2>1, <2>2, SortedStays
<1>14. timeline(t) = ChainSorted(Filter(t, chain))
  BY <1>11 DEF timeline, ChainSorted
<1>15. explainabilityView(l, CorrelationId(n)).timeline = timeline(t)
  BY <1>1 DEF explainabilityView
<1> QED
  <2>1. Recounts(t, l, S, m, p)
    BY <1>5, <1>6, <1>8, Zenon DEF Recounts
  <2> QED
    BY <1>12, <1>13, <1>14, <1>15, <2>1, Zenon

\* What the drill-down of one cycle must show.
ShowsCycle(steps, decided, n, out, thr) ==
    /\ \A i \in DOMAIN steps : i > 1 => steps[i - 1].seq < steps[i].seq
    /\ SubSeq([i \in DOMAIN steps |-> steps[i].event_type], 1, 3) =
         <<"MarketHealth.scored", "Strategy.evaluated", "Portfolio.planned">>
    /\ [i \in DOMAIN decided |-> decided[i].payload[1]] = SubSeq(steps[3].payload, 1, Len(decided))
    /\ Len(decided) < Len(steps[3].payload) => \E s \in Symbols : <<n, s>> \in thr
    /\ \A s \in Symbols : <<n, s>> \in thr => decided # <<>> /\ Last(decided).payload = <<s, "approved">>
    /\ \A s \in Symbols : <<n, s>> \in out => \E i \in DOMAIN decided : decided[i].payload = <<s, "approved">>

\* The account of a cycle that the log holds is the one the drill-down shows.
LEMMA AccountIsShown ==
    ASSUME NEW S, NEW l \in Seq(S), \A i \in 1 .. Len(l) : l[i].seq = i, NEW n, NEW out, NEW thr,
           NEW size \in Nat, NEW m \in Nat, NEW p, ExplainedAt(l, n, out, thr, size, m, p),
           NEW t, NEW d, t = explainabilityView(l, CorrelationId(n)).timeline, d = OfType(t, "Risk.decided")
    PROVE  ShowsCycle(t, d, n, out, thr)
<1>1. /\ t \in Seq(S) /\ Len(t) = m + 3
      /\ \A j \in 1 .. m + 3 : t[j] = l[p[j]]
      /\ \A i, j \in 1 .. m + 3 : i < j => t[i].seq < t[j].seq
  <2>1. Recounts(explainabilityView(l, CorrelationId(n)).timeline, l, S, m, p)
    BY TimelineOfCycle
  <2> QED
    BY <2>1, Zenon DEF Recounts
<1>2. /\ l[p[1]].event_type = "MarketHealth.scored" /\ l[p[2]].event_type = "Strategy.evaluated"
      /\ l[p[3]].event_type = "Portfolio.planned" /\ l[p[3]].payload \in [1 .. size -> Symbols]
  BY Zenon DEF ExplainedAt
<1>3. /\ \A j \in 1 .. m : l[p[j + 3]].event_type = "Risk.decided"
      /\ \A j \in 1 .. m : l[p[j + 3]].payload[1] = l[p[3]].payload[j]
      /\ \A s \in Symbols : <<n, s>> \in out => \E j \in 1 .. m : l[p[j + 3]].payload = <<s, "approved">>
  BY Zenon DEF ExplainedAt
<1>20. /\ m <= size
       /\ m < size => \E s \in Symbols : <<n, s>> \in thr
       /\ \A s \in Symbols : <<n, s>> \in thr => m > 0 /\ l[p[m + 3]].payload = <<s, "approved">>
  BY Zenon DEF ExplainedAt
<1>4. t[1] = l[p[1]] /\ t[2] = l[p[2]] /\ t[3] = l[p[3]] /\ \A j \in 1 .. m : t[j + 3] = l[p[j + 3]]
  <2>1. 1 \in 1 .. m + 3 /\ 2 \in 1 .. m + 3 /\ 3 \in 1 .. m + 3 /\ \A j \in 1 .. m : j + 3 \in 1 .. m + 3
    OBVIOUS
  <2> QED
    BY <1>1, <2>1
<1>5. /\ t[1].event_type = "MarketHealth.scored" /\ t[2].event_type = "Strategy.evaluated"
      /\ t[3].event_type = "Portfolio.planned" /\ t[3].payload \in [1 .. size -> Symbols]
  BY <1>2, <1>4, Zenon
<1>6. /\ \A j \in 1 .. m : t[j + 3].event_type = "Risk.decided"
      /\ \A j \in 1 .. m : t[j + 3].payload[1] = t[3].payload[j]
      /\ \A s \in Symbols : <<n, s>> \in out => \E j \in 1 .. m : t[j + 3].payload = <<s, "approved">>
  BY <1>3, <1>4, Zenon
<1>7. PICK r, keep : r = [j \in 1 .. m |-> j + 3] /\ keep = {e \in ToSet(t) : e.event_type = "Risk.decided"}
  OBVIOUS
<1>8. d = Filter(t, keep)
  BY <1>7 DEF OfType
<1>9. \A i \in 1 .. m + 3 : t[i] \in keep <=> t[i].event_type = "Risk.decided"
  BY <1>1, <1>7 DEF ToSet
<1>10. \A i \in 1 .. m + 3 : t[i] \in keep <=> \E j \in 1 .. m : r[j] = i
  <2> TAKE i \in 1 .. m + 3
  <2>1. CASE i \in {1, 2, 3}
    <3>1. t[i].event_type # "Risk.decided"
      BY <1>5, <2>1
    <3>2. \A j \in 1 .. m : r[j] # i
      BY <1>7, <2>1
    <3> QED
      BY <1>9, <3>1, <3>2
  <2>2. CASE i \notin {1, 2, 3}
    <3>1. i - 3 \in 1 .. m /\ (i - 3) + 3 = i
      BY <2>2
    <3>2. r[i - 3] = i
      BY <1>7, <3>1
    <3>3. t[(i - 3) + 3].event_type = "Risk.decided"
      BY <1>6, <3>1
    <3> QED
      BY <1>9, <3>1, <3>2, <3>3
  <2> QED
    BY <2>1, <2>2
<1>11. Selects(r, t, keep, m)
  <2>1. r \in [1 .. m -> 1 .. m + 3] /\ Increasing(r)
    BY <1>7 DEF Increasing
  <2> QED
    BY <1>1, <1>10, <2>1 DEF Selects
<1>12. Len(d) = m /\ \A j \in 1 .. m : d[j] = t[r[j]]
  BY <1>1, <1>8, <1>11, FilterSelects
<1>13. \A j \in 1 .. m : d[j] = t[j + 3]
  BY <1>7, <1>12
<1>14. d \in Seq(S)
  BY <1>1, <1>8, FilterType
<1>15. DOMAIN d = 1 .. m /\ DOMAIN t = 1 .. m + 3
  BY <1>1, <1>12, <1>14
<1>16. \A i \in DOMAIN t : i > 1 => t[i - 1].seq < t[i].seq
  <2> SUFFICES ASSUME NEW i \in 1 .. m + 3, i > 1 PROVE t[i - 1].seq < t[i].seq
    BY <1>15
  <2>1. i - 1 \in 1 .. m + 3 /\ i - 1 < i
    OBVIOUS
  <2> QED
    BY <1>1, <2>1
<1>17. SubSeq([i \in DOMAIN t |-> t[i].event_type], 1, 3) =
         <<"MarketHealth.scored", "Strategy.evaluated", "Portfolio.planned">>
  <2>1. PICK types : types = [i \in 1 .. m + 3 |-> t[i].event_type]
    OBVIOUS
  <2>2. types \in Seq({types[i] : i \in 1 .. m + 3}) /\ Len(types) = m + 3
    BY <2>1
  <2>3. types[1] = "MarketHealth.scored" /\ types[2] = "Strategy.evaluated" /\ types[3] = "Portfolio.planned"
    BY <1>5, <2>1
  <2>4. SubSeq(types, 1, 3) = <<types[1], types[2], types[3]>>
    <3>1. PICK R, u, v : /\ R = {types[i] : i \in 1 .. m + 3} /\ u = SubSeq(types, 1, 3)
                         /\ v = <<types[1], types[2], types[3]>>
      OBVIOUS
    <3>2. types \in Seq(R) /\ types[1] \in R /\ types[2] \in R /\ types[3] \in R
      BY <2>2, <3>1
    <3>3. u \in Seq(R) /\ Len(u) = 3 /\ u[1] = types[1] /\ u[2] = types[2] /\ u[3] = types[3]
      <4>1. \A i \in 1 .. 3 : i \in 1 .. Len(types)
        BY <2>2
      <4>2. /\ SubSeq(types, 1, 3) \in Seq(R) /\ Len(SubSeq(types, 1, 3)) = IF 1 <= 3 THEN 3 - 1 + 1 ELSE 0
            /\ \A i \in 1 .. 3 - 1 + 1 : SubSeq(types, 1, 3)[i] = types[1 + i - 1]
        BY <3>2, <4>1, SubSeqProperties
      <4> QED
        BY <3>1, <4>2
    <3>4. v \in Seq(R) /\ Len(v) = 3 /\ v[1] = types[1] /\ v[2] = types[2] /\ v[3] = types[3]
      BY <3>1, <3>2
    <3>5. \A i \in 1 .. 3 : i \in {1, 2, 3}
      OBVIOUS
    <3>6. \A i \in 1 .. Len(u) : u[i] = v[i]
      BY <3>3, <3>4, <3>5
    <3>7. u = v
      BY <3>3, <3>4, <3>6, SameElements
    <3> QED
      BY <3>1, <3>7
  <2> QED
    BY <1>15, <2>1, <2>3, <2>4, Zenon
<1>21. PICK plan : plan = t[3].payload
  OBVIOUS
<1>22. plan \in [1 .. size -> Symbols] /\ plan \in Seq(Symbols) /\ Len(plan) = size
  <2>1. plan \in [1 .. size -> Symbols]
    BY <1>5, <1>21, Zenon
  <2> QED
    BY <2>1
<1>18. [i \in DOMAIN d |-> d[i].payload[1]] = SubSeq(t[3].payload, 1, Len(d))
  <2>1. PICK g, u : g = [i \in 1 .. m |-> d[i].payload[1]] /\ u = SubSeq(plan, 1, m)
    OBVIOUS
  <2>2. u = [i \in 1 .. m |-> plan[i]]
    <3>1. \A i \in 1 .. m : i \in 1 .. Len(plan)
      BY <1>20, <1>22
    <3>2. /\ SubSeq(plan, 1, m) \in Seq(Symbols) /\ Len(SubSeq(plan, 1, m)) = IF 1 <= m THEN m - 1 + 1 ELSE 0
          /\ \A i \in 1 .. m - 1 + 1 : SubSeq(plan, 1, m)[i] = plan[1 + i - 1]
      BY <1>22, <3>1, SubSeqProperties
    <3>3. u \in Seq(Symbols) /\ Len(u) = m /\ \A i \in 1 .. m : u[i] = plan[i]
      BY <2>1, <3>2
    <3> QED
      BY <3>3
  <2>4. ASSUME NEW j \in 1 .. m PROVE d[j].payload[1] = plan[j]
    BY <1>6, <1>13, <1>21, Zenon
  <2>5. g = u
    BY <2>1, <2>2, <2>4
  <2> QED
    BY <1>12, <1>15, <1>21, <2>1, <2>5, Zenon
<1>23. Len(d) < Len(t[3].payload) => \E s \in Symbols : <<n, s>> \in thr
  BY <1>12, <1>20, <1>21, <1>22
<1>24. \A s \in Symbols : <<n, s>> \in thr => d # <<>> /\ Last(d).payload = <<s, "approved">>
  <2> SUFFICES ASSUME NEW s \in Symbols, <<n, s>> \in thr PROVE d # <<>> /\ Last(d).payload = <<s, "approved">>
    OBVIOUS
  <2>1. m > 0 /\ l[p[m + 3]].payload = <<s, "approved">> /\ m \in 1 .. m
    BY <1>20
  <2>2. d # <<>> /\ Last(d) = d[m] /\ d[m] = t[m + 3] /\ t[m + 3] = l[p[m + 3]]
    BY <1>4, <1>12, <1>13, <1>14, <2>1 DEF Last
  <2> QED
    BY <2>1, <2>2, Zenon
<1>19. \A s \in Symbols : <<n, s>> \in out => \E i \in DOMAIN d : d[i].payload = <<s, "approved">>
  <2> SUFFICES ASSUME NEW s \in Symbols, <<n, s>> \in out PROVE \E i \in DOMAIN d : d[i].payload = <<s, "approved">>
    OBVIOUS
  <2>1. PICK j \in 1 .. m : t[j + 3].payload = <<s, "approved">>
    BY <1>6, Zenon
  <2> QED
    BY <1>13, <1>15, <2>1
<1> QED
  BY <1>16, <1>17, <1>18, <1>19, <1>23, <1>24, Zenon DEF ShowsCycle

\* What is known of the log makes the drill-downs and the overview right.
ViewInv == Known(log, cycle, sent \cup thrown, thrown)

LEMMA KnownIsExplained == ViewInv => CycleIsExplained
<1> SUFFICES ASSUME ViewInv PROVE CycleIsExplained
  OBVIOUS
<1>0. PICK out : out = sent \cup thrown
  OBVIOUS
<1>1. /\ log \in Seq(ToSet(log))
      /\ \A i \in 1 .. Len(log) : log[i].seq = i
      /\ \A n \in 1 .. cycle : Explained(log, n, out, thrown)
  BY <1>0, Zenon DEF ViewInv, Known
<1>2. ASSUME NEW n \in 1 .. cycle, NEW t, NEW d, t = explainabilityView(log, CorrelationId(n)).timeline,
             d = OfType(t, "Risk.decided")
      PROVE  ShowsCycle(t, d, n, sent, thrown)
  <2>1. PICK size, m \in Nat : \E p : ExplainedAt(log, n, out, thrown, size, m, p)
    BY <1>1, Zenon DEF Explained
  <2>2. PICK p : ExplainedAt(log, n, out, thrown, size, m, p)
    BY <2>1
  <2>3. ShowsCycle(t, d, n, out, thrown)
    BY <1>1, <1>2, <2>2, AccountIsShown
  <2>4. \A s : <<n, s>> \in sent => <<n, s>> \in out
    BY <1>0
  <2> QED
    BY <2>3, <2>4, Zenon DEF ShowsCycle
<1>3. \A n \in 1 .. cycle : ShowsCycle(explainabilityView(log, CorrelationId(n)).timeline,
                                       OfType(explainabilityView(log, CorrelationId(n)).timeline, "Risk.decided"), n,
                                       sent, thrown)
  BY <1>2, Zenon
<1> QED
  BY <1>3, Zenon DEF CycleIsExplained, ShowsCycle

LEMMA KnownIsSeen == ViewInv => ViewsTellWhatHappened
<1> SUFFICES ASSUME ViewInv PROVE ViewsTellWhatHappened
  OBVIOUS
<1>0. PICK out : out = sent \cup thrown
  OBVIOUS
<1>1. /\ log \in Seq(ToSet(log)) /\ cycle \in Nat
      /\ cycle > 0 => \E i \in 1 .. Len(log) : log[i].event_type = "MarketHealth.scored"
      /\ \A i \in 1 .. Len(log) : log[i].event_type = "MarketHealth.scored" => cycle > 0 /\ log[i].payload # <<>>
      /\ \E origin : origin \in Bijection(Marked(log, "Order.sent"), out)
  BY <1>0, Zenon DEF ViewInv, Known
<1>2. PICK S : log \in Seq(S)
  BY <1>1
<1>3. PICK view, diary : view = dashboardView(log) /\ diary = diaryView(log)
  OBVIOUS
<1>4. /\ view.runtime_state = runtimeState(log) /\ view.market_mode = latestPayload(log, "MarketHealth.scored")
      /\ view.orders_sent = Len(OfType(log, "Order.sent"))
      /\ view.halted <=> Halts(log) # <<>>
  BY <1>3 DEF dashboardView
<1>5. view.runtime_state = state
  BY <1>2, <1>4, OverviewShowsCurrentState DEF state
<1>6. view.orders_sent = Cardinality(sent \cup thrown)
  <2>1. IsFiniteSet(Marked(log, "Order.sent")) /\ view.orders_sent = Cardinality(Marked(log, "Order.sent"))
    BY <1>2, <1>4, OfTypeCounts
  <2>2. PICK origin : origin \in Bijection(Marked(log, "Order.sent"), out)
    BY <1>1
  <2>3. Cardinality(Marked(log, "Order.sent")) = Cardinality(out)
    BY <2>1, <2>2, FS_Bijection DEF ExistsBijection
  <2> QED
    BY <1>0, <2>1, <2>3
<1>7. (view.market_mode = <<>>) <=> (cycle = 0)
  <2>1. PICK f, P : f = OfType(log, "MarketHealth.scored") /\ P = Marked(log, "MarketHealth.scored")
    OBVIOUS
  <2>2. /\ f \in Seq(S)
        /\ f = <<>> <=> P = {}
        /\ \A j \in 1 .. Len(f) : \E i \in P : f[j] = log[i]
    <3>1. /\ OfType(log, "MarketHealth.scored") \in Seq(S)
          /\ \A j \in 1 .. Len(OfType(log, "MarketHealth.scored")) :
               \E i \in Marked(log, "MarketHealth.scored") : OfType(log, "MarketHealth.scored")[j] = log[i]
          /\ OfType(log, "MarketHealth.scored") = <<>> <=> Marked(log, "MarketHealth.scored") = {}
      BY <1>2, OfTypeCounts
    <3> QED
      BY <2>1, <3>1, Zenon
  <2>3. view.market_mode = IF f = <<>> THEN <<>> ELSE Last(f).payload
    BY <1>4, <2>1, Zenon DEF latestPayload
  <2>4. P = {} <=> cycle = 0
    BY <1>1, <2>1 DEF Marked
  <2>5. ASSUME f # <<>> PROVE Last(f).payload # <<>>
    <3>1. Last(f) = f[Len(f)] /\ Len(f) \in 1 .. Len(f)
      BY <2>2, <2>5 DEF Last
    <3>2. PICK i \in P : f[Len(f)] = log[i]
      BY <2>2, <3>1
    <3>3. log[i].payload # <<>>
      BY <1>1, <2>1, <3>2 DEF Marked
    <3> QED
      BY <3>1, <3>2, <3>3, Zenon
  <2> QED
    BY <2>2, <2>3, <2>4, <2>5, Zenon
<1>8. SumFunction([d \in DOMAIN diary |-> diary[d].decisions]) = Len(OfType(log, "Risk.decided"))
  BY <1>2, <1>3, DiaryAddsUp
<1>9. view.halted <=> \E d \in DOMAIN diary : diary[d].halted
  <2>1. Halts(log) # <<>> <=> \E d \in DOMAIN diaryView(log) : diaryView(log)[d].halted
    BY <1>2, HaltsAreDated
  <2> QED
    BY <1>3, <1>4, <2>1, Zenon
<1> QED
  BY <1>3, <1>5, <1>6, <1>7, <1>8, <1>9, Zenon DEF ViewsTellWhatHappened

-----------------------------------------------------------------------------
(* The operator's views: every step keeps what the log knows. *)

\* A transition of a machine is nothing the views count.
LEMMA TransitionIsSilent ==
    ASSUME NEW l, NEW c, NEW out, NEW thr, Known(l, c, out, thr), NEW machine, NEW to, NEW time
    PROVE  Known(record(l, Transition(machine, to, time)), c, out, thr)
<1>1. PICK x : x = Transition(machine, to, time)
  OBVIOUS
<1>2. x.event_type = "State.transitioned" /\ x.correlation_id = <<machine>>
  BY <1>1 DEF Transition, Event
<1>3. \A n : <<machine>> # CorrelationId(n)
  BY DEF CorrelationId
<1>4. l \in Seq(ToSet(l))
  BY DEF Known
<1>5. record(l, x) = recordAll(l, <<x>>)
  BY <1>4, RecordedOne
<1>6. Known(recordAll(l, <<x>>), c, out, thr)
  <2>1. PICK R, inputs : R = {x} /\ inputs = <<x>>
    OBVIOUS
  <2>2. inputs \in Seq(R)
    BY <2>1
  <2>3. \A y \in R : /\ y.event_type \notin {"Order.sent", "MarketHealth.scored"}
                     /\ \A n : y.correlation_id # CorrelationId(n)
    BY <1>2, <1>3, <2>1
  <2>4. Known(recordAll(l, inputs), c, out, thr)
    BY <2>2, <2>3, KnownSilent
  <2> QED
    BY <2>1, <2>4
<1> QED
  BY <1>1, <1>5, <1>6

\* An empty log knows of no cycle.
LEMMA NothingKnown == Known(<<>>, 0, {}, {})
<1>1. Marked(<<>>, "Order.sent") = {}
  BY DEF Marked
<1>2. PICK e : e = [x \in {} |-> x]
  OBVIOUS
<1>3. e \in Bijection({}, {})
  BY <1>2 DEF Bijection, Injection, Surjection, IsInjective
<1>4. <<>> \in Seq(ToSet(<<>>)) /\ 1 .. Len(<<>>) = {} /\ 1 .. 0 = {} /\ 0 \in Nat /\ ~(0 > 0)
  OBVIOUS
<1> QED
  BY <1>1, <1>3, <1>4, Zenon DEF Known

\* For any number of cycles, symbols and days, and an adapter that may throw
\* on any order: the overview and the diary agree with the state, the orders
\* handed to the adapter and the decisions, whatever the other machines and the
\* gateway write to the log; and the drill-down of a cycle has the decisions in
\* the order of the plan, all of them or up to the order the adapter threw on,
\* with an approval for each order that went out (dashboardView, diaryView,
\* explainabilityView, CycleOrchestrator.runCycle).
THEOREM OperatorHolds == Spec => []OperatorSeesWhatHappened
<1>1. Init => ViewInv
  <2> SUFFICES ASSUME Init PROVE ViewInv
    OBVIOUS
  <2>1. log = <<>> /\ cycle = 0 /\ sent \cup thrown = {} /\ thrown = {}
    BY DEF Init
  <2> QED
    BY <2>1, NothingKnown, Zenon DEF ViewInv
<1>2. ViewInv /\ [Next]_vars => ViewInv'
  <2> SUFFICES ASSUME ViewInv, [Next]_vars PROVE ViewInv'
    OBVIOUS
  <2>1. CASE UNCHANGED production
    BY <2>1 DEF production, ViewInv
  <2>2. ASSUME NEW to, RuntimeTransition(to) PROVE ViewInv'
    <3>1. log' = record(log, Transition("production", to, day)) /\ UNCHANGED <<cycle, sent, thrown>>
      BY <2>2 DEF RuntimeTransition
    <3>2. Known(record(log, Transition("production", to, day)), cycle, sent \cup thrown, thrown)
      BY TransitionIsSilent DEF ViewInv
    <3> QED
      BY <3>1, <3>2 DEF ViewInv
  <2>3. CASE RiskTransition
    <3>1. log' = record(log, Transition("risk", "READY", day)) /\ UNCHANGED <<cycle, sent, thrown>>
      BY <2>3 DEF RiskTransition
    <3>2. Known(record(log, Transition("risk", "READY", day)), cycle, sent \cup thrown, thrown)
      BY TransitionIsSilent DEF ViewInv
    <3> QED
      BY <3>1, <3>2 DEF ViewInv
  <2>4. CASE NextDay
    BY <2>4 DEF NextDay, ViewInv
  <2>5. ASSUME NEW planned \in SUBSET Symbols, NEW fates \in Courses(planned), RunCycle(planned, fates) PROVE ViewInv'
    <3>1. PICK d : d = cycle + 1
      OBVIOUS
    <3>2. PICK S, size, m, plan, q :
              /\ Course(plan, size, fates, m, planned)
              /\ CycleEvents(d, planned, fates) \in Seq(S)
              /\ IsCycle(CycleEvents(d, planned, fates), d, fates, plan, m, q)
      BY CycleStages
    <3>3. PICK inputs, out, out2, thr2 : /\ inputs = CycleEvents(d, planned, fates) /\ out = sent \cup thrown
                                         /\ out2 = WithOrders(out, d, plan, fates, m, Handed)
                                         /\ thr2 = WithOrders(thrown, d, plan, fates, m, Throws)
      OBVIOUS
    <3>4. inputs \in Seq(S) /\ IsCycle(inputs, d, fates, plan, m, q)
      BY <3>2, <3>3, Zenon
    <3>5. Known(recordAll(log, inputs), d, out2, thr2)
      <4>1. Known(log, cycle, out, thrown) /\ IsCycle(inputs, cycle + 1, fates, plan, m, q)
        BY <3>1, <3>3, <3>4, Zenon DEF ViewInv
      <4>2. Known(recordAll(log, inputs), cycle + 1, WithOrders(out, cycle + 1, plan, fates, m, Handed),
                  WithOrders(thrown, cycle + 1, plan, fates, m, Throws))
        BY <3>2, <3>4, <4>1, KnownCycle
      <4> QED
        BY <3>1, <3>3, <4>2, Zenon
    <3>6. /\ cycle' = d /\ log' = recordAll(log, inputs)
          /\ sent' = sent \cup OrdersOf(d, planned, fates, Arrives)
          /\ thrown' = thrown \cup OrdersOf(d, planned, fates, Throws)
      BY <2>5, <3>1, <3>3 DEF RunCycle
    <3>7. plan = Allocations(planned) /\ Len(fates) = m
      BY <3>2, Zenon DEF Course
    <3>8. \A ends : OrdersOf(d, planned, fates, ends) = {<<d, plan[i]>> : i \in {j \in 1 .. m : fates[j] \in ends}}
      BY <3>7 DEF OrdersOf
    <3>9. thrown' = thr2
      BY <3>3, <3>6, <3>8, Zenon DEF WithOrders
    <3>10. sent' \cup thrown' = out2
      <4>1. OrdersOf(d, planned, fates, Arrives) \cup OrdersOf(d, planned, fates, Throws) =
              OrdersOf(d, planned, fates, Handed)
        BY <3>8 DEF Handed
      <4>2. out2 = out \cup OrdersOf(d, planned, fates, Handed)
        BY <3>3, <3>8, Zenon DEF WithOrders
      <4> QED
        BY <3>3, <3>6, <4>1, <4>2
    <3>11. Known(log', cycle', sent' \cup thrown', thrown')
      BY <3>5, <3>6, <3>9, <3>10, Zenon
    <3> QED
      BY <3>11, Zenon DEF ViewInv
  <2>6. CASE InProduction
    BY <2>2, <2>3, <2>4, <2>5, <2>6 DEF InProduction
  <2>7. CASE InControl
    <3>1. UNCHANGED production
      BY <2>7 DEF InControl, Deploy, Rollback
    <3> QED
      BY <2>1, <3>1
  <2>8. CASE InAi
    <3>1. UNCHANGED production
      BY <2>8 DEF InAi, Propose, TransitionProposal, Freeze, GenerateReport
    <3> QED
      BY <2>1, <3>1
  <2>9. CASE InResearch
    <3>1. UNCHANGED production
      BY <2>9 DEF InResearch, RunExperiment
    <3> QED
      BY <2>1, <3>1
  <2>10. CASE UNCHANGED vars
    <3>1. UNCHANGED production
      BY <2>10 DEF vars
    <3> QED
      BY <2>1, <3>1
  <2> QED
    BY <2>6, <2>7, <2>8, <2>9, <2>10 DEF Next
<1>3. ViewInv => OperatorSeesWhatHappened
  BY KnownIsExplained, KnownIsSeen DEF OperatorSeesWhatHappened
<1> QED
  BY <1>1, <1>2, <1>3, PTL DEF Spec
=============================================================================
