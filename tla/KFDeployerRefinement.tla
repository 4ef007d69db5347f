------------------------ MODULE KFDeployerRefinement ------------------------
(***************************************************************************)
(* Proof that KFServingDeployer objects sharing a namespace and a bucket   *)
(* implement DeployerService under the mapping ServedState, for any number *)
(* of deployers whose sub_paths are distinct: the safety part of           *)
(* ImplementsService.  The liveness part is checked by TLC only.           *)
(***************************************************************************)
EXTENDS KFDeployerProofs

\* The stages of a deploy() call that has not returned.
Deploying == {"prepare", "secret_list", "secret_write", "status2", "write"}

\* A deploy() call in progress belongs to a deployer that has not deployed
\* yet: the caller stops calling deploy() once one returns normally.
DeployingNotDeployed ==
    \A c \in Clients : dpc[c] \in Deploying => ~deployed[c]

RefInv == OwnerInv /\ DeployingNotDeployed

\* Every step keeps DeployingNotDeployed: StartDeploy requires ~deployed,
\* and the only step that sets deployed returns from the call.
LEMMA NextDeployingNotDeployed ==
    ASSUME TypeOK, DeployingNotDeployed, [Next]_vars
    PROVE  DeployingNotDeployed'
<1>. USE DEF DeployingNotDeployed, Deploying, TypeOK
<1>1. ASSUME NEW c \in Clients, ClientStep(c) PROVE DeployingNotDeployed'
  <2>1. CASE StartDeploy(c)
    BY <2>1 DEF StartDeploy, Return
  <2>2. CASE Prepare(c)
    BY <2>2 DEF Prepare, PackageFails, Return
  <2>3. CASE SecretList(c) \/ SecretWrite(c) \/ Status2(c)
    BY <2>3 DEF SecretList, SecretWrite, Status2, Return
  <2>4. CASE Write(c)
    BY <2>4 DEF Write, Return
  <2>5. CASE StartDestroy(c) \/ Delete(c)
    BY <2>5 DEF StartDestroy, Delete, Return
  <2>. QED
    BY <1>1, <2>1, <2>2, <2>3, <2>4, <2>5 DEF ClientStep
<1>2. CASE OperatorDelete
  BY <1>2 DEF OperatorDelete, client_vars
<1>3. CASE UNCHANGED vars
  BY <1>3 DEF vars, client_vars
<1>. QED
  BY <1>1, <1>2, <1>3 DEF Next

\* A step that leaves the services, the bucket and deployed alone is a
\* stutter of DeployerService.
LEMMA StutterRefines ==
    ASSUME UNCHANGED <<isvc, store, deployed>>
    PROVE  UNCHANGED Service!avars
BY DEF ServedState, Service!avars

(***************************************************************************)
(* While c uploads, no live InferenceService points at c's sub_path: its   *)
(* writer holds a spec (so it is not c, which has none yet), the spec is   *)
(* the writer's own sub_path, and the sub_paths are distinct.              *)
(***************************************************************************)
LEMMA UploadNotServed ==
    ASSUME PathsDistinct, OwnerInv, NEW c \in Clients, dpc[c] = "prepare",
           NEW s \in Services, isvc[s] # Absent
    PROVE  isvc[s].uri # Path(c)
<1>1. isvc[s].by \in Clients /\ isvc[s].uri \in Paths
  BY DEF OwnerInv, TypeOK, Isvc
<1>2. isvc[s].uri = spec_uri[isvc[s].by]
  BY DEF OwnerInv, LiveIsvcIsWritersSpec
<1>3. spec_uri[isvc[s].by] = Path(isvc[s].by)
  BY <1>1, <1>2, DeployerAssumption DEF OwnerInv, SpecIsOwnUpload
<1>4. isvc[s].by # c
  BY <1>1, <1>2, DeployerAssumption DEF OwnerInv, UploadHasNoSpec
<1>. QED
  BY <1>1, <1>2, <1>3, <1>4 DEF PathsDistinct

\* Every step of the deployers and of the operator is a step of
\* DeployerService under the mapping, or a stutter.
LEMMA StepRefines ==
    ASSUME PathsDistinct, RefInv, [Next]_vars
    PROVE  [Service!SvcNext]_Service!avars
<1>. USE DEF RefInv
<1>1. ASSUME NEW c \in Clients, ClientStep(c)
      PROVE  [Service!SvcNext]_Service!avars
  <2>1. CASE StartDeploy(c) \/ SecretList(c) \/ SecretWrite(c) \/ Status2(c)
             \/ StartDestroy(c)
    <3>1. UNCHANGED <<isvc, store, deployed>>
      BY <2>1 DEF StartDeploy, SecretList, SecretWrite, Status2,
                  StartDestroy, cluster_vars
    <3>. QED
      BY <3>1, StutterRefines
  <2>2. CASE Prepare(c)
    <3>1. UNCHANGED <<isvc, deployed>> /\ dpc[c] = "prepare"
      BY <2>2 DEF Prepare
    <3>2. \A p \in Paths \ {Path(c)} : store'[p] = store[p]
      BY <2>2, DeployerAssumption DEF Prepare, PackageFails, OwnerInv, TypeOK,
                                      Path, Paths
    <3>3. \A s \in Services : isvc[s] # Absent => isvc[s].uri # Path(c)
      BY <3>1, UploadNotServed
    <3>4. \A s \in Services : isvc[s] # Absent => isvc[s].uri \in Paths
      BY DEF OwnerInv, TypeOK, Isvc
    <3>5. ServedState' = ServedState
      BY <3>1, <3>2, <3>3, <3>4 DEF ServedState
    <3>. QED
      BY <3>1, <3>5 DEF Service!avars
  <2>3. CASE Write(c)
    <3>1. CASE (isvc[SvcOf[c]] = Absent) = ~saw_isvc[c]
      <4>1. dpc[c] = "write" /\ ~deployed[c]
        BY <2>3 DEF Write, DeployingNotDeployed, Deploying
      <4>2. spec_uri[c] = Path(c) /\ store[Path(c)] = ModelOf[c]
        BY <4>1 DEF OwnerInv, SpecAfterUpload, SpecIsOwnUpload
      <4>3. /\ isvc' = [isvc EXCEPT ![SvcOf[c]] = [by |-> c, uri |-> spec_uri[c]]]
            /\ deployed' = [deployed EXCEPT ![c] = TRUE]
            /\ store' = store
        BY <2>3, <3>1 DEF Write
      <4>4. /\ isvc'[SvcOf[c]] = [by |-> c, uri |-> Path(c)]
            /\ \A s \in Services \ {SvcOf[c]} : isvc'[s] = isvc[s]
        BY <4>2, <4>3, DeployerAssumption DEF OwnerInv, TypeOK
      <4>5. [by |-> c, uri |-> Path(c)] # Absent
        BY DeployerAssumption DEF Path, Paths
      <4>6. ServedState' = [ServedState EXCEPT ![SvcOf[c]] =
                                [by |-> c, model |-> ModelOf[c]]]
        <5>1. SvcOf[c] \in Services
          BY DeployerAssumption
        <5>2. ServedState'[SvcOf[c]] = [by |-> c, model |-> ModelOf[c]]
          BY <4>2, <4>3, <4>4, <4>5, <5>1 DEF ServedState
        <5>3. \A s \in Services \ {SvcOf[c]} : ServedState'[s] = ServedState[s]
          BY <4>3, <4>4 DEF ServedState
        <5>. QED
          BY <5>1, <5>2, <5>3 DEF ServedState
      <4>. QED
        BY <4>1, <4>3, <4>6 DEF Service!SvcNext, Service!Deploy
    <3>2. CASE (isvc[SvcOf[c]] = Absent) = saw_isvc[c]
      BY <2>3, <3>2, StutterRefines DEF Write
    <3>. QED
      BY <3>1, <3>2 DEF OwnerInv, TypeOK
  <2>4. CASE Delete(c)
    <3>1. isvc' = [isvc EXCEPT ![SvcOf[c]] = Absent]
          /\ UNCHANGED <<store, deployed>>
      BY <2>4 DEF Delete
    <3>2. CASE isvc[SvcOf[c]] = Absent
      <4>1. isvc' = isvc
        BY <3>1, <3>2, DeployerAssumption DEF OwnerInv, TypeOK
      <4>. QED
        BY <3>1, <4>1, StutterRefines
    <3>3. CASE isvc[SvcOf[c]] # Absent
      <4>1. ServedState' = [ServedState EXCEPT ![SvcOf[c]] = Absent]
        BY <3>1, DeployerAssumption DEF ServedState, OwnerInv, TypeOK
      <4>2. ServedState[SvcOf[c]] # Absent
        BY <3>3, DeployerAssumption DEF ServedState, OwnerInv, TypeOK,
                                        Isvc, Paths
      <4>. QED
        BY <3>1, <4>1, <4>2, DeployerAssumption
           DEF Service!SvcNext, Service!Remove
    <3>. QED
      BY <3>2, <3>3
  <2>. QED
    BY <1>1, <2>1, <2>2, <2>3, <2>4 DEF ClientStep
<1>2. CASE OperatorDelete
  <2>1. PICK s \in Services : isvc[s] # Absent
                              /\ isvc' = [isvc EXCEPT ![s] = Absent]
    BY <1>2 DEF OperatorDelete
  <2>2. UNCHANGED <<store, deployed>>
    BY <1>2 DEF OperatorDelete, client_vars
  <2>3. ServedState' = [ServedState EXCEPT ![s] = Absent]
    BY <2>1, <2>2 DEF ServedState, OwnerInv, TypeOK
  <2>4. ServedState[s] # Absent
    BY <2>1, DeployerAssumption DEF ServedState, OwnerInv, TypeOK, Isvc, Paths
  <2>. QED
    BY <2>2, <2>3, <2>4 DEF Service!SvcNext, Service!Remove
<1>3. CASE UNCHANGED vars
  BY <1>3, StutterRefines DEF vars, cluster_vars, client_vars
<1>. QED
  BY <1>1, <1>2, <1>3 DEF Next

(***************************************************************************)
(* For any number of deployers with distinct sub_paths, any number of      *)
(* failed calls and operator deletions: the deployers' deploy(), destroy() *)
(* and status() (base.py 116-175, with pytorch.py's packaging) implement   *)
(* DeployerService's safety: each service changes only by one deployer's   *)
(* whole-model deploy or by a removal.                                     *)
(***************************************************************************)
THEOREM RefinesService ==
    PathsDistinct => (Spec => Service!SvcSafety)
<1> SUFFICES ASSUME PathsDistinct PROVE Spec => Service!SvcSafety
  OBVIOUS
<1>1. Init => RefInv
  BY InitOwnerInv DEF Init, RefInv, DeployingNotDeployed
<1>2. RefInv /\ [Next]_vars => RefInv'
  BY NextOwnerInv, NextDeployingNotDeployed DEF RefInv, OwnerInv
<1>3. Init => Service!SvcInit
  BY DEF Init, ServedState, Service!SvcInit
<1>4. RefInv /\ [Next]_vars => [Service!SvcNext]_Service!avars
  BY StepRefines
<1>. QED
  BY <1>1, <1>2, <1>3, <1>4, PTL DEF Spec, Service!SvcSafety

=============================================================================
