------------------------- MODULE KFDeployerProofs -------------------------
(***************************************************************************)
(* Proofs about KFServingDeployer objects sharing a namespace and a MinIO *)
(* bucket, for any number of deployers, services and versions.            *)
(***************************************************************************)
EXTENDS KFDeployer, TLAPS

\* No two deployers upload under the same sub_path service_name/version.
PathsDistinct == \A c, d \in Clients : c # d => Path(c) # Path(d)

(***************************************************************************)
(* The strengthening of ServedModelIsOwnersModel that every step keeps.   *)
(* self.isvc (spec_uri) is only built after prepare_model stored the      *)
(* deployer's model under its own sub_path, a deployer that reaches the   *)
(* upload has no spec yet, and a live InferenceService points at the spec *)
(* its writer still holds.                                                *)
(***************************************************************************)
\* A deployer that is uploading has no spec yet (deploy() line 120).
UploadHasNoSpec ==
    \A c \in Clients : dpc[c] = "prepare" => spec_uri[c] = NoPath

\* Past the upload, the deployer holds a spec (lines 122-123).
SpecAfterUpload ==
    \A c \in Clients :
        dpc[c] \in {"secret_list", "secret_write", "status2", "write"}
            => spec_uri[c] # NoPath

\* A spec points at the deployer's own sub_path, which holds its model.
SpecIsOwnUpload ==
    \A c \in Clients :
        spec_uri[c] # NoPath =>
            /\ spec_uri[c] = Path(c)
            /\ store[Path(c)] = ModelOf[c]

\* A live InferenceService carries the spec its writer holds.
LiveIsvcIsWritersSpec ==
    \A s \in Services :
        isvc[s] # Absent => isvc[s].uri = spec_uri[isvc[s].by]

OwnerInv ==
    /\ TypeOK
    /\ UploadHasNoSpec
    /\ SpecAfterUpload
    /\ SpecIsOwnUpload
    /\ LiveIsvcIsWritersSpec

\* The deployers start with nothing uploaded and nothing deployed.
LEMMA InitOwnerInv == Init => OwnerInv
<1> SUFFICES ASSUME Init PROVE OwnerInv
  OBVIOUS
<1>1. TypeOK
  <2>1. isvc \in [Services -> Isvc \cup {Absent}]
    BY DEF Init
  <2>2. store \in [Paths -> Models \cup {Empty, Torn}]
    BY DEF Init
  <2>3. faults \in 0..MaxFaults /\ deletes \in 0..MaxDeletes
    BY DeployerAssumption DEF Init
  <2>4. secret \in BOOLEAN /\ dpc \in [Clients -> DeployerPcs]
    BY DEF Init, DeployerPcs
  <2>5. spec_uri \in [Clients -> Paths \cup {NoPath}]
    BY DEF Init
  <2>6. /\ saw_secret \in [Clients -> BOOLEAN]
        /\ saw_isvc \in [Clients -> BOOLEAN]
        /\ deployed \in [Clients -> BOOLEAN]
        /\ destroying \in [Clients -> BOOLEAN]
    BY DEF Init
  <2>. QED
    BY <2>1, <2>2, <2>3, <2>4, <2>5, <2>6 DEF TypeOK
<1>2. \A c \in Clients : dpc[c] = "idle" /\ spec_uri[c] = NoPath
  BY DEF Init
<1>3. \A s \in Services : isvc[s] = Absent
  BY DEF Init
<1>. QED
  BY <1>1, <1>2, <1>3 DEF OwnerInv, UploadHasNoSpec, SpecAfterUpload,
                          SpecIsOwnUpload, LiveIsvcIsWritersSpec

\* Client c's step keeps the invariant when the sub_paths are distinct.
LEMMA ClientStepOwnerInv ==
    ASSUME PathsDistinct, OwnerInv, NEW c \in Clients, ClientStep(c)
    PROVE  OwnerInv'
<1>. USE DeployerAssumption DEF OwnerInv, TypeOK, DeployerPcs, Isvc,
         UploadHasNoSpec, SpecAfterUpload, SpecIsOwnUpload,
         LiveIsvcIsWritersSpec
<1>1. CASE StartDeploy(c)
  BY <1>1 DEF StartDeploy, Status, Return
<1>2. CASE Prepare(c)
  <2>1. \A d \in Clients \ {c} : Path(d) # Path(c)
    BY DEF PathsDistinct
  <2>2. \A s \in Services : isvc[s] # Absent => isvc[s].by # c
    BY <1>2 DEF Prepare, Paths
  <2>3. Path(c) \in Paths
    BY DEF Path, Paths
  <2>4. UNCHANGED <<isvc, deployed>> /\ dpc[c] = "prepare"
    BY <1>2 DEF Prepare
  <2>5. CASE /\ store' = [store EXCEPT ![Path(c)] = ModelOf[c]]
             /\ spec_uri' = [spec_uri EXCEPT ![c] = Path(c)]
             /\ dpc' = [dpc EXCEPT ![c] = "secret_list"]
             /\ UNCHANGED faults
    <3>1. TypeOK'
      BY <1>2, <2>3, <2>5 DEF Prepare
    <3>2. SpecIsOwnUpload'
      BY <2>1, <2>3, <2>5
    <3>3. LiveIsvcIsWritersSpec'
      BY <2>2, <2>4, <2>5
    <3>4. (UploadHasNoSpec /\ SpecAfterUpload)'
      BY <2>3, <2>5
    <3>. QED
      BY <3>1, <3>2, <3>3, <3>4
  <2>6. CASE /\ faults < MaxFaults
             /\ faults' = faults + 1
             /\ store' = [store EXCEPT ![Path(c)] = Torn]
             /\ Return(c)
             /\ UNCHANGED spec_uri
    <3>1. TypeOK'
      BY <1>2, <2>3, <2>6 DEF Prepare, Return
    <3>2. SpecIsOwnUpload'
      BY <2>1, <2>3, <2>4, <2>6
    <3>3. LiveIsvcIsWritersSpec'
      BY <2>4, <2>6
    <3>4. (UploadHasNoSpec /\ SpecAfterUpload)'
      BY <2>4, <2>6 DEF Return
    <3>. QED
      BY <3>1, <3>2, <3>3, <3>4
  <2>7. CASE PackageFails(c)
    BY <1>2, <2>4, <2>7 DEF Prepare, PackageFails, Return
  <2>. QED
    BY <1>2, <2>5, <2>6, <2>7 DEF Prepare
<1>3. CASE SecretList(c)
  BY <1>3 DEF SecretList, cluster_vars
<1>4. CASE SecretWrite(c)
  BY <1>4 DEF SecretWrite, Return
<1>5. CASE Status2(c)
  BY <1>5 DEF Status2, Status
<1>6. CASE Write(c)
  <2>1. dpc[c] = "write" /\ spec_uri[c] \in Paths
    BY <1>6 DEF Write
  <2>2. [by |-> c, uri |-> spec_uri[c]] \in Isvc
    BY <2>1
  <2>3. isvc' \in [Services -> Isvc \cup {Absent}]
    BY <1>6, <2>2 DEF Write
  <2>4. dpc' \in [Clients -> DeployerPcs] /\ deployed' \in [Clients -> BOOLEAN]
    BY <1>6 DEF Write, Return
  <2>5. TypeOK'
    BY <1>6, <2>3, <2>4 DEF Write
  <2>6. LiveIsvcIsWritersSpec'
    BY <1>6 DEF Write
  <2>7. (UploadHasNoSpec /\ SpecAfterUpload /\ SpecIsOwnUpload)'
    BY <1>6 DEF Write, Return
  <2>. QED
    BY <2>5, <2>6, <2>7
<1>7. CASE StartDestroy(c)
  BY <1>7 DEF StartDestroy, Status
<1>8. CASE Delete(c)
  BY <1>8 DEF Delete, Return
<1>. QED
  BY <1>1, <1>2, <1>3, <1>4, <1>5, <1>6, <1>7, <1>8 DEF ClientStep

\* Every step of the system, the operator's deletions included, keeps it.
LEMMA NextOwnerInv ==
    ASSUME PathsDistinct, OwnerInv, [Next]_vars
    PROVE  OwnerInv'
<1>1. CASE \E c \in Clients : ClientStep(c)
  BY <1>1, ClientStepOwnerInv
<1>2. CASE OperatorDelete
  BY <1>2, DeployerAssumption DEF OperatorDelete, client_vars, OwnerInv, TypeOK, Isvc,
                         UploadHasNoSpec, SpecAfterUpload,
                         SpecIsOwnUpload, LiveIsvcIsWritersSpec
<1>3. CASE UNCHANGED vars
  BY <1>3 DEF vars, cluster_vars, client_vars, OwnerInv, TypeOK, Path,
                         UploadHasNoSpec, SpecAfterUpload,
                         SpecIsOwnUpload, LiveIsvcIsWritersSpec
<1>. QED
  BY <1>1, <1>2, <1>3 DEF Next

(***************************************************************************)
(* For any number of deployers whose sub_paths service_name/version are   *)
(* distinct, with any number of failed uploads and API calls and operator *)
(* deletions: a live InferenceService always serves the model of the      *)
(* deployer that wrote it (deploy() lines 116-144, prepare_model 107-111, *)
(* prepare_isvc 146-159).                                                 *)
(***************************************************************************)
THEOREM ServedModelSafe ==
    PathsDistinct => (Spec => []ServedModelIsOwnersModel)
<1> SUFFICES ASSUME PathsDistinct PROVE Spec => []ServedModelIsOwnersModel
  OBVIOUS
<1>1. Init => OwnerInv
  BY InitOwnerInv
<1>2. OwnerInv /\ [Next]_vars => OwnerInv'
  BY NextOwnerInv
<1>3. OwnerInv => ServedModelIsOwnersModel
  BY DeployerAssumption DEF OwnerInv, TypeOK, ServedModelIsOwnersModel, Isvc, SpecIsOwnUpload,
                            LiveIsvcIsWritersSpec,
                            Paths
<1>. QED
  BY <1>1, <1>2, <1>3, PTL DEF Spec

-----------------------------------------------------------------------------
(***************************************************************************)
(* Type correctness needs no hypothesis on the sub_paths: the only fact    *)
(* beyond the types is that a deployer past the upload holds a spec, so    *)
(* the InferenceService create_or_replace writes has a storage uri.        *)
(***************************************************************************)
LEMMA NextTypeOK ==
    ASSUME TypeOK, SpecAfterUpload, [Next]_vars
    PROVE  TypeOK' /\ SpecAfterUpload'
<1>. USE DeployerAssumption DEF TypeOK, DeployerPcs, Isvc, SpecAfterUpload
<1>1. ASSUME NEW c \in Clients, ClientStep(c)
      PROVE  TypeOK' /\ SpecAfterUpload'
  <2>1. CASE StartDeploy(c)
    BY <2>1 DEF StartDeploy, Status, Return
  <2>2. CASE Prepare(c)
    <3>1. Path(c) \in Paths
      BY DEF Path, Paths
    <3>. QED
      BY <2>2, <3>1 DEF Prepare, PackageFails, Return
  <2>3. CASE SecretList(c)
    BY <2>3 DEF SecretList, cluster_vars
  <2>4. CASE SecretWrite(c)
    BY <2>4 DEF SecretWrite, Return
  <2>5. CASE Status2(c)
    BY <2>5 DEF Status2, Status
  <2>6. CASE Write(c)
    <3>1. dpc[c] = "write" /\ spec_uri[c] \in Paths
      BY <2>6 DEF Write
    <3>2. isvc' \in [Services -> Isvc \cup {Absent}]
      BY <2>6, <3>1 DEF Write
    <3>3. dpc' \in [Clients -> DeployerPcs]
          /\ deployed' \in [Clients -> BOOLEAN]
      BY <2>6 DEF Write, Return
    <3>. QED
      BY <2>6, <3>2, <3>3 DEF Write, Return
  <2>7. CASE StartDestroy(c)
    BY <2>7 DEF StartDestroy, Status
  <2>8. CASE Delete(c)
    BY <2>8 DEF Delete, Return
  <2>. QED
    BY <1>1, <2>1, <2>2, <2>3, <2>4, <2>5, <2>6, <2>7, <2>8 DEF ClientStep
<1>2. CASE OperatorDelete
  BY <1>2 DEF OperatorDelete, client_vars
<1>3. CASE UNCHANGED vars
  BY <1>3 DEF vars, cluster_vars, client_vars
<1>. QED
  BY <1>1, <1>2, <1>3 DEF Next

(***************************************************************************)
(* For any deployers, services, versions and bounds, shared sub_paths      *)
(* included: the namespace, the bucket and every deployer's state keep     *)
(* their types through deploy(), destroy(), failed calls and operator      *)
(* deletions (base.py 116-175, pytorch.py 144-154).                        *)
(***************************************************************************)
THEOREM DeployerTypeCorrect == Spec => []TypeOK
<1>1. Init => TypeOK /\ SpecAfterUpload
  BY InitOwnerInv DEF OwnerInv
<1>2. TypeOK /\ SpecAfterUpload /\ [Next]_vars => TypeOK' /\ SpecAfterUpload'
  BY NextTypeOK
<1>. QED
  BY <1>1, <1>2, PTL DEF Spec

=============================================================================
