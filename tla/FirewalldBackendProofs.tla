----------------------- MODULE FirewalldBackendProofs -----------------------
(***************************************************************************)
(* The safety properties of FirewalldBackend, for every set of ports and   *)
(* of foreign zone entries, however the D-Bus client misreads the latter.  *)
(***************************************************************************)
EXTENDS FirewalldBackend, TLAPS

(* What bulb tracks or is about to close, it has opened itself.            *)
TrackedWereOpened ==
    /\ stateFile \subseteq opened
    /\ toRemove \subseteq opened
    /\ added \subseteq opened

(* The running call has not opened what it has still to open, and will     *)
(* save nothing but what was tracked before and what it opens itself.      *)
CallKnowsItsPorts ==
    /\ toAdd \cap bulbOpen = {}
    /\ toAdd \subseteq nextManaged
    /\ nextManaged \subseteq stateFile \cup toAdd \cup added

(* No tracked port that is open falls between the two loops of a call: it  *)
(* stays tracked, or it is still to be removed.                            *)
CallCoversTracked ==
    phase = "applying" =>
        bulbOpen \cap stateFile \subseteq nextManaged \cup toRemove \cup interrupted

(* Between two calls nothing is about to be saved.                         *)
IdleSavesNothing == phase = "idle" => nextManaged = {}

(* The inductive invariant.                                                *)
BackendInv ==
    /\ BackendTypeOK
    /\ IdleSavesNothing
    /\ TrackedWereOpened
    /\ CallKnowsItsPorts
    /\ CallCoversTracked
    /\ OpenPortsAccountedFor

-----------------------------------------------------------------------------
(* Whatever is in the zone, GetPorts reports PortKeys, and among them      *)
(* every port that bulb has open.                                          *)
LEMMA GetPortsSound ==
    ASSUME BackendTypeOK
    PROVE  /\ GetPorts \subseteq Keys
           /\ bulbOpen \subseteq GetPorts
<1>1. \A f \in Zone \cap Foreign : Reads[f] \in Keys
  BY BackendAssumption
<1>2. GetPorts \subseteq Keys
  BY <1>1 DEF GetPorts
<1>3. bulbOpen \subseteq GetPorts
  BY DEF GetPorts, Zone, BackendTypeOK
<1> QED
  BY <1>2, <1>3

(* Initially nothing is bulb's.                                            *)
LEMMA BackendInitInv == BackendInit => BackendInv
BY DEF BackendInit, BackendInv, BackendTypeOK, TrackedWereOpened,
       CallKnowsItsPorts, CallCoversTracked, OpenPortsAccountedFor, Entries,
       IdleSavesNothing

-----------------------------------------------------------------------------
(* One lemma for each action.                                              *)

(* The snapshot a call starts from: tracked ports that are open end up in  *)
(* nextManaged or toRemove, and what will be added is not open.            *)
LEMMA BeginApplyInv ==
    ASSUME BackendInv, NEW desired \in SUBSET Keys, BeginApply(desired)
    PROVE  BackendInv'
<1> USE DEF BackendInv
<1>1. GetPorts \subseteq Keys /\ bulbOpen \subseteq GetPorts
  BY GetPortsSound
<1>2. BackendTypeOK'
  BY <1>1 DEF BeginApply, BackendTypeOK, zoneVars, PortsToAdd, PortsToRemove,
              nextManagedPorts, Entries
<1>3. TrackedWereOpened'
  BY DEF BeginApply, TrackedWereOpened, PortsToRemove
<1>4. CallKnowsItsPorts'
  BY <1>1 DEF BeginApply, CallKnowsItsPorts, zoneVars, PortsToAdd,
              nextManagedPorts
<1>5. CallCoversTracked'
  BY <1>1 DEF BeginApply, CallCoversTracked, zoneVars, PortsToRemove,
              nextManagedPorts
<1>6. OpenPortsAccountedFor'
  <2>1. nextManaged = {}
    BY DEF BeginApply, IdleSavesNothing
  <2> QED
    BY <2>1 DEF BeginApply, OpenPortsAccountedFor, zoneVars
<1>7. IdleSavesNothing'
  BY DEF BeginApply, IdleSavesNothing
<1> QED
  BY <1>2, <1>3, <1>4, <1>5, <1>6, <1>7

(* A port that is added leaves toAdd for added; it was in nextManaged from *)
(* the start.                                                              *)
LEMMA AddPortInv ==
    ASSUME BackendInv, NEW k \in Keys, AddPort(k)
    PROVE  BackendInv'
<1> USE DEF BackendInv, AddPort
<1>1. BackendTypeOK'
  BY DEF BackendTypeOK, Zone, Entries
<1>2. TrackedWereOpened'
  BY DEF TrackedWereOpened
<1>3. CallKnowsItsPorts'
  BY DEF CallKnowsItsPorts, Zone
<1>4. CallCoversTracked'
  BY DEF CallCoversTracked, CallKnowsItsPorts
<1>5. OpenPortsAccountedFor'
  BY DEF OpenPortsAccountedFor, CallKnowsItsPorts
<1>6. IdleSavesNothing'
  BY DEF IdleSavesNothing
<1> QED
  BY <1>1, <1>2, <1>3, <1>4, <1>5, <1>6

(* A port that is removed leaves the zone and toRemove together.           *)
LEMMA RemovePortInv ==
    ASSUME BackendInv, NEW k \in Keys, RemovePort(k)
    PROVE  BackendInv'
<1> USE DEF BackendInv, RemovePort
<1>1. BackendTypeOK'
  BY DEF BackendTypeOK, Entries
<1>2. TrackedWereOpened'
  BY DEF TrackedWereOpened
<1>3. CallKnowsItsPorts'
  BY DEF CallKnowsItsPorts
<1>4. CallCoversTracked'
  BY DEF CallCoversTracked
<1>5. OpenPortsAccountedFor'
  BY DEF OpenPortsAccountedFor
<1>6. IdleSavesNothing'
  BY DEF IdleSavesNothing
<1> QED
  BY <1>1, <1>2, <1>3, <1>4, <1>5, <1>6

(* With both loops done, what was tracked and is open is in nextManaged.   *)
LEMMA SaveInv ==
    ASSUME BackendInv, Save
    PROVE  BackendInv'
<1> USE DEF BackendInv, Save, CallEnds, zoneVars
<1>1. BackendTypeOK'
  BY DEF BackendTypeOK, Entries
<1>2. TrackedWereOpened'
  BY DEF TrackedWereOpened, CallKnowsItsPorts
<1>3. CallKnowsItsPorts'
  BY DEF CallKnowsItsPorts
<1>4. CallCoversTracked'
  BY DEF CallCoversTracked
<1>5. OpenPortsAccountedFor'
  BY DEF OpenPortsAccountedFor, CallCoversTracked
<1>6. IdleSavesNothing'
  BY DEF IdleSavesNothing
<1> QED
  BY <1>1, <1>2, <1>3, <1>4, <1>5, <1>6

(* What the failing call has opened, and not lost since, is interrupted.   *)
LEMMA ApplyFailsInv ==
    ASSUME BackendInv, ApplyFails
    PROVE  BackendInv'
<1> USE DEF BackendInv, ApplyFails, CallEnds, zoneVars
<1>1. BackendTypeOK'
  BY DEF BackendTypeOK, Entries
<1>2. TrackedWereOpened'
  BY DEF TrackedWereOpened
<1>3. CallKnowsItsPorts'
  BY DEF CallKnowsItsPorts
<1>4. CallCoversTracked'
  BY DEF CallCoversTracked
<1>5. OpenPortsAccountedFor'
  BY DEF OpenPortsAccountedFor, CallKnowsItsPorts
<1>6. IdleSavesNothing'
  BY DEF IdleSavesNothing
<1> QED
  BY <1>1, <1>2, <1>3, <1>4, <1>5, <1>6

(* The rest of the host closes bulb's ports but opens none in its name.    *)
LEMMA HostStepInv ==
    ASSUME BackendInv, HostStep
    PROVE  BackendInv'
<1> USE DEF BackendInv, callVars
<1>1. ASSUME NEW e \in Entries, OperatorOpens(e)
      PROVE  BackendInv'
  BY <1>1 DEF OperatorOpens, BackendTypeOK, TrackedWereOpened, Zone, Entries,
       CallKnowsItsPorts, CallCoversTracked, OpenPortsAccountedFor,
       IdleSavesNothing
<1>2. ASSUME NEW e \in Entries, OperatorCloses(e)
      PROVE  BackendInv'
  BY <1>2 DEF OperatorCloses, BackendTypeOK, TrackedWereOpened, Entries,
       CallKnowsItsPorts, CallCoversTracked, OpenPortsAccountedFor,
       IdleSavesNothing
<1>3. CASE Reload
  BY <1>3 DEF Reload, BackendTypeOK, TrackedWereOpened, Entries,
       CallKnowsItsPorts, CallCoversTracked, OpenPortsAccountedFor,
       IdleSavesNothing
<1> QED
  BY <1>1, <1>2, <1>3 DEF HostStep

(* Every step keeps the invariant.                                         *)
LEMMA BackendNextInv == BackendInv /\ [BackendNext]_backendVars => BackendInv'
<1> SUFFICES ASSUME BackendInv, [BackendNext]_backendVars
             PROVE  BackendInv'
  OBVIOUS
<1>1. CASE \E desired \in SUBSET Keys : BeginApply(desired)
  BY <1>1, BeginApplyInv
<1>2. CASE ApplyStep
  BY <1>2, AddPortInv, RemovePortInv, SaveInv DEF ApplyStep
<1>3. CASE ApplyFails
  BY <1>3, ApplyFailsInv
<1>4. CASE HostStep
  BY <1>4, HostStepInv
<1>5. CASE UNCHANGED backendVars
  BY <1>5 DEF backendVars, zoneVars, callVars, BackendInv, BackendTypeOK,
       TrackedWereOpened, Entries, CallKnowsItsPorts, CallCoversTracked,
       OpenPortsAccountedFor, IdleSavesNothing
<1> QED
  BY <1>1, <1>2, <1>3, <1>4, <1>5 DEF BackendNext

-----------------------------------------------------------------------------
(* BackendInv holds in every reachable state.                              *)
THEOREM BackendInvariance == BackendSpec => []BackendInv
BY BackendInitInv, BackendNextInv, PTL DEF BackendSpec

(* The variables keep their types, and a zone entry is never bulb's and    *)
(* an operator's at once.                                                  *)
THEOREM BackendTypeCorrect == BackendSpec => []BackendTypeOK
<1>1. BackendInv => BackendTypeOK
  BY DEF BackendInv
<1> QED
  BY <1>1, BackendInvariance, PTL

(* Every port bulb has open is tracked, about to be, or was opened by an   *)
(* Apply that did not reach its Save.                                      *)
THEOREM BackendAccounting == BackendSpec => []OpenPortsAccountedFor
<1>1. BackendInv => OpenPortsAccountedFor
  BY DEF BackendInv
<1> QED
  BY <1>1, BackendInvariance, PTL

(* Apply never closes a port that bulb has never opened.                   *)
THEOREM BackendSparesForeignPorts == BackendSpec => NeverClosesForeignPort
<1>1. ASSUME BackendInv, [BackendNext]_backendVars
      PROVE  [\A e \in operatorOpen \ operatorOpen' :
                 OperatorCloses(e) \/ e \in opened]_backendVars
  <2> SUFFICES ASSUME NEW e \in operatorOpen \ operatorOpen',
                      ~OperatorCloses(e)
               PROVE  e \in opened
    OBVIOUS
  <2>1. CASE \E desired \in SUBSET Keys : BeginApply(desired)
    BY <2>1 DEF BeginApply, zoneVars
  <2>2. ASSUME NEW k \in Keys, AddPort(k) PROVE FALSE
    BY <2>2 DEF AddPort
  <2>3. ASSUME NEW k \in Keys, RemovePort(k) PROVE e \in opened
    BY <2>3, <1>1 DEF RemovePort, BackendInv, TrackedWereOpened
  <2>4. CASE Save \/ ApplyFails
    BY <2>4 DEF Save, ApplyFails, zoneVars
  <2>5. ASSUME NEW f \in Entries, OperatorOpens(f) PROVE FALSE
    BY <2>5 DEF OperatorOpens
  <2>6. ASSUME NEW f \in Entries, OperatorCloses(f) PROVE FALSE
    <3>1. f = e
      BY <2>6 DEF OperatorCloses
    <3> QED
      BY <3>1, <2>6
  <2>7. CASE Reload
    BY <2>7 DEF Reload
  <2>8. CASE UNCHANGED backendVars
    BY <2>8 DEF backendVars, zoneVars
  <2> QED
    BY <1>1, <2>1, <2>2, <2>3, <2>4, <2>5, <2>6, <2>7, <2>8
       DEF BackendNext, ApplyStep, HostStep
<1> QED
  BY <1>1, BackendInvariance, PTL DEF BackendSpec, NeverClosesForeignPort

(* Save never makes a port bulb's that somebody else had opened.           *)
THEOREM BackendAdoptsNothing == BackendSpec => NeverAdoptsForeignPort
<1>1. ASSUME BackendInv, [BackendNext]_backendVars
      PROVE  [stateFile' \ stateFile \subseteq added]_backendVars
  <2>1. CASE Save
    BY <1>1, <2>1 DEF Save, BackendInv, CallKnowsItsPorts
  <2>2. CASE ~Save
    <3>1. stateFile' = stateFile
      BY <1>1, <2>2 DEF BackendNext, ApplyStep, HostStep, BeginApply, AddPort,
           RemovePort, ApplyFails, OperatorOpens, OperatorCloses, Reload,
           backendVars
    <3> QED
      BY <3>1
  <2> QED
    BY <2>1, <2>2
<1> QED
  BY <1>1, BackendInvariance, PTL DEF BackendSpec, NeverAdoptsForeignPort
=============================================================================
