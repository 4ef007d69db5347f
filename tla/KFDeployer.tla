---------------------------- MODULE KFDeployer ----------------------------
(***************************************************************************)
(* KFServingDeployer (deployers/kfserving/base.py) objects of several      *)
(* clients working on one Kubernetes namespace.  Each client is an HSEngine*)
(* process holding one deployer for its converted model; they share the   *)
(* InferenceService objects of the namespace, the MinIO bucket the models  *)
(* are uploaded to, and the credentials secret hsengine-minio-secret.      *)
(*                                                                         *)
(* A client runs a session: it calls deploy() until a call returns (the   *)
(* core has no retry; spec.md 5 leaves it to the caller), then destroy()   *)
(* once.  deploy() and destroy() are split at their calls to the cluster  *)
(* and the object store, since other clients and an operator act between  *)
(* them.  kfserving_client.get may fail with a RuntimeError other than     *)
(* 'Not Found'; status() (lines 170-175) returns None for it as well.      *)
(***************************************************************************)
EXTENDS Naturals

CONSTANTS
    Clients,     \* deployer objects, one per client
    Services,    \* InferenceService names
    Versions,    \* version strings
    Models,      \* converted models (what an upload stores)
    SvcOf,       \* [Clients -> Services]: the deployer's service_name
    VerOf,       \* [Clients -> Versions]: its version
    ModelOf,     \* [Clients -> Models]: its converted_model
    ReplaceOf,   \* [Clients -> BOOLEAN]: its replace flag
    MaxFaults,   \* bound on failed API / object-store calls
    MaxDeletes,  \* bound on InferenceServices deleted by an operator
    Absent,      \* no InferenceService of that name
    Empty,       \* nothing uploaded under that path
    Torn,        \* an upload that failed after writing some objects
    NoPath       \* self.isvc is None (no spec built yet)

\* MinIO sub_path of a deployer: service_name + "/" + version (line 92).
Paths == Services \X Versions

ASSUME DeployerAssumption ==
    /\ SvcOf \in [Clients -> Services]
    /\ VerOf \in [Clients -> Versions]
    /\ ModelOf \in [Clients -> Models]
    /\ ReplaceOf \in [Clients -> BOOLEAN]
    /\ MaxFaults \in Nat
    /\ MaxDeletes \in Nat
    /\ Absent \notin [by : Clients, uri : Paths]
    /\ Absent \notin [by : Clients, model : Models \cup {Empty, Torn}]
    /\ {Empty, Torn} \cap Models = {}
    /\ Empty # Torn
    /\ NoPath \notin Paths

\* What an InferenceService records: the deployer that wrote it last and
\* the storage uri of its predictor.
Isvc == [by : Clients, uri : Paths]

DeployerPcs == {"idle", "prepare", "secret_list", "secret_write", "status2",
                "write", "delete", "done"}

VARIABLES
    isvc,        \* [Services -> Isvc \cup {Absent}]: the namespace's services
    store,       \* [Paths -> Models \cup {Empty, Torn}]: the MinIO bucket
    secret,      \* hsengine-minio-secret exists in the namespace
    dpc,         \* [Clients -> DeployerPcs]: where each client's call is
    spec_uri,    \* [Clients -> Paths \cup {NoPath}]: self.isvc's storage uri
    saw_secret,  \* [Clients -> BOOLEAN]: the secret was in the listing
    saw_isvc,    \* [Clients -> BOOLEAN]: the second status() found it
    deployed,    \* [Clients -> BOOLEAN]: a deploy() call has returned
    destroying,  \* [Clients -> BOOLEAN]: destroy() has been called
    faults,      \* failed calls so far
    deletes      \* operator deletions so far

cluster_vars == <<isvc, store, secret, faults, deletes>>
client_vars == <<dpc, spec_uri, saw_secret, saw_isvc, deployed, destroying>>
vars == <<cluster_vars, client_vars>>

\* Mutant: every version is uploaded under one path per service.
PathWithoutVersion(c) == <<SvcOf[c], CHOOSE v \in Versions : TRUE>>

\* The sub_path the deployer's MinIO storage uploads to (lines 91-94).
Path(c) == <<SvcOf[c], VerOf[c]>>

TypeOK ==
    /\ isvc \in [Services -> Isvc \cup {Absent}]
    /\ store \in [Paths -> Models \cup {Empty, Torn}]
    /\ secret \in BOOLEAN
    /\ dpc \in [Clients -> DeployerPcs]
    /\ spec_uri \in [Clients -> Paths \cup {NoPath}]
    /\ saw_secret \in [Clients -> BOOLEAN]
    /\ saw_isvc \in [Clients -> BOOLEAN]
    /\ deployed \in [Clients -> BOOLEAN]
    /\ destroying \in [Clients -> BOOLEAN]
    /\ faults \in 0..MaxFaults
    /\ deletes \in 0..MaxDeletes

Init ==
    /\ isvc = [s \in Services |-> Absent]
    /\ store = [p \in Paths |-> Empty]
    /\ secret = FALSE
    /\ dpc = [c \in Clients |-> "idle"]
    /\ spec_uri = [c \in Clients |-> NoPath]
    /\ saw_secret = [c \in Clients |-> FALSE]
    /\ saw_isvc = [c \in Clients |-> FALSE]
    /\ deployed = [c \in Clients |-> FALSE]
    /\ destroying = [c \in Clients |-> FALSE]
    /\ faults = 0
    /\ deletes = 0

(***************************************************************************)
(* status() (lines 170-175) as seen by client c: TRUE when get() returns   *)
(* the service.  A get() failing with another RuntimeError also yields     *)
(* None; it uses up one fault.                                             *)
(***************************************************************************)
Status(c, found) ==
    \/ /\ found = (isvc[SvcOf[c]] # Absent)
       /\ UNCHANGED faults
    \/ /\ ~found
       /\ isvc[SvcOf[c]] # Absent
       /\ faults < MaxFaults
       /\ faults' = faults + 1

\* A call of client c returns (normally or with an exception) to the caller.
Return(c) ==
    dpc' = [dpc EXCEPT ![c] = IF destroying[c] THEN "done" ELSE "idle"]

(***************************************************************************)
(* deploy() lines 116-123: the first status(); an existing service without *)
(* the replace flag raises 'already exists'.  Otherwise the model and the  *)
(* InferenceService spec are prepared unless self.isvc is already set.     *)
(***************************************************************************)
StartDeploy(c) ==
    /\ dpc[c] = "idle"
    /\ ~deployed[c]
    /\ \E found \in BOOLEAN :
          /\ Status(c, found)
          /\ IF found /\ ~ReplaceOf[c]
               THEN Return(c)
               ELSE dpc' = [dpc EXCEPT ![c] = IF spec_uri[c] = NoPath
                                               THEN "prepare"
                                               ELSE "secret_list"]
    /\ UNCHANGED <<isvc, store, secret, deletes, spec_uri, saw_secret,
                   saw_isvc, deployed, destroying>>

(***************************************************************************)
(* TorchServeKFDeployer._do_prepare_model (pytorch.py 144-154), called by  *)
(* prepare_model before the upload: generate_files scripts the model and  *)
(* runs torch-model-archiver, whose non-zero exit raises (lines 77-79).    *)
(* Nothing is uploaded and self.storage_uri stays unset.                   *)
(***************************************************************************)
PackageFails(c) ==
    /\ faults < MaxFaults
    /\ faults' = faults + 1
    /\ Return(c)
    /\ UNCHANGED <<store, spec_uri>>

\* Mutant: prepare_isvc runs before prepare_model, so the spec is built
\* from self.storage_uri while it is still None.
PrepareIsvcFirst(c) ==
    /\ dpc[c] = "prepare"
    /\ \/ /\ store' = [store EXCEPT ![Path(c)] = ModelOf[c]]
          /\ dpc' = [dpc EXCEPT ![c] = "secret_list"]
          /\ UNCHANGED faults
       \/ /\ faults < MaxFaults
          /\ faults' = faults + 1
          /\ store' = [store EXCEPT ![Path(c)] = Torn]
          /\ Return(c)
       \/ PackageFails(c)
    /\ UNCHANGED <<isvc, secret, deletes, spec_uri, saw_secret, saw_isvc,
                   deployed, destroying>>

\* Mutant: self.storage_uri is assigned before save() has finished, so a
\* torn upload is kept and the next deploy() skips the upload.
PrepareCachesUriEarly(c) ==
    /\ dpc[c] = "prepare"
    /\ spec_uri' = [spec_uri EXCEPT ![c] = Path(c)]
    /\ \/ /\ store' = [store EXCEPT ![Path(c)] = ModelOf[c]]
          /\ dpc' = [dpc EXCEPT ![c] = "secret_list"]
          /\ UNCHANGED faults
       \/ /\ faults < MaxFaults
          /\ faults' = faults + 1
          /\ store' = [store EXCEPT ![Path(c)] = Torn]
          /\ Return(c)
    /\ UNCHANGED <<isvc, secret, deletes, saw_secret, saw_isvc, deployed,
                   destroying>>

(***************************************************************************)
(* prepare_model (107-111) then prepare_isvc (146-159): upload the model   *)
(* files (TorchServe: the .mar archive and config.properties, packaged    *)
(* first) under the deployer's sub_path and remember the uri, then build  *)
(* the spec whose predictor points at it.  A failed upload raises; objects *)
(* it already wrote stay in the bucket, and self.storage_uri stays unset,  *)
(* so the next deploy() uploads again.                                     *)
(***************************************************************************)
Prepare(c) ==
    /\ dpc[c] = "prepare"
    /\ \/ /\ store' = [store EXCEPT ![Path(c)] = ModelOf[c]]
          /\ spec_uri' = [spec_uri EXCEPT ![c] = Path(c)]
          /\ dpc' = [dpc EXCEPT ![c] = "secret_list"]
          /\ UNCHANGED faults
       \/ /\ faults < MaxFaults
          /\ faults' = faults + 1
          /\ store' = [store EXCEPT ![Path(c)] = Torn]
          /\ Return(c)
          /\ UNCHANGED spec_uri
       \/ PackageFails(c)
    /\ UNCHANGED <<isvc, secret, deletes, saw_secret, saw_isvc, deployed,
                   destroying>>

\* prepare_sa_secret lines 191-192: list the namespace's secrets.
SecretList(c) ==
    /\ dpc[c] = "secret_list"
    /\ saw_secret' = [saw_secret EXCEPT ![c] = secret]
    /\ dpc' = [dpc EXCEPT ![c] = "secret_write"]
    /\ UNCHANGED <<cluster_vars, spec_uri, saw_isvc, deployed, destroying>>

\* Mutant: the secret is created without looking at the listing.
SecretWriteAlwaysCreate(c) ==
    /\ dpc[c] = "secret_write"
    /\ \/ /\ secret
          /\ Return(c)
          /\ UNCHANGED secret
       \/ /\ ~secret
          /\ secret' = TRUE
          /\ dpc' = [dpc EXCEPT ![c] = "status2"]
    /\ UNCHANGED <<isvc, store, faults, deletes, spec_uri, saw_secret,
                   saw_isvc, deployed, destroying>>

(***************************************************************************)
(* prepare_sa_secret lines 204-216: create the secret when the listing did *)
(* not have it (409 AlreadyExists when another client created it since),   *)
(* patch it otherwise, then attach it to the service account.             *)
(***************************************************************************)
SecretWrite(c) ==
    /\ dpc[c] = "secret_write"
    /\ \/ /\ ~saw_secret[c]
          /\ secret
          /\ Return(c)
          /\ UNCHANGED secret
       \/ /\ ~saw_secret[c]
          /\ ~secret
          /\ secret' = TRUE
          /\ dpc' = [dpc EXCEPT ![c] = "status2"]
       \/ /\ saw_secret[c]
          /\ dpc' = [dpc EXCEPT ![c] = "status2"]
          /\ UNCHANGED secret
    /\ UNCHANGED <<isvc, store, faults, deletes, spec_uri, saw_secret,
                   saw_isvc, deployed, destroying>>

\* deploy() line 132: the second status().
Status2(c) ==
    /\ dpc[c] = "status2"
    /\ \E found \in BOOLEAN :
          /\ Status(c, found)
          /\ saw_isvc' = [saw_isvc EXCEPT ![c] = found]
    /\ dpc' = [dpc EXCEPT ![c] = "write"]
    /\ UNCHANGED <<isvc, store, secret, deletes, spec_uri, saw_secret,
                   deployed, destroying>>

(***************************************************************************)
(* deploy() lines 132-144: create when the second status() saw nothing    *)
(* (409 Conflict if the service exists by now), replace otherwise (404 if *)
(* it is gone by now).  resource_version is cleared, so the replace       *)
(* overwrites whatever is there.  A successful call ends the retries.     *)
(***************************************************************************)
Write(c) ==
    LET s == SvcOf[c]
        new == [by |-> c, uri |-> spec_uri[c]]
    IN
    /\ dpc[c] = "write"
    /\ \/ /\ (isvc[s] = Absent) = ~saw_isvc[c]
          /\ isvc' = [isvc EXCEPT ![s] = new]
          /\ deployed' = [deployed EXCEPT ![c] = TRUE]
       \/ /\ (isvc[s] = Absent) = saw_isvc[c]
          /\ UNCHANGED <<isvc, deployed>>
    /\ Return(c)
    /\ UNCHANGED <<store, secret, faults, deletes, spec_uri, saw_secret,
                   saw_isvc, destroying>>

(***************************************************************************)
(* destroy() lines 164-168: status(), then delete when it was found (404  *)
(* if it is gone by now).  None from status() returns at once.             *)
(***************************************************************************)
StartDestroy(c) ==
    /\ dpc[c] = "idle"
    /\ deployed[c]
    /\ ~destroying[c]
    /\ \E found \in BOOLEAN :
          /\ Status(c, found)
          /\ dpc' = [dpc EXCEPT ![c] = IF found THEN "delete" ELSE "done"]
    /\ destroying' = [destroying EXCEPT ![c] = TRUE]
    /\ UNCHANGED <<isvc, store, secret, deletes, spec_uri, saw_secret,
                   saw_isvc, deployed>>

Delete(c) ==
    /\ dpc[c] = "delete"
    /\ isvc' = [isvc EXCEPT ![SvcOf[c]] = Absent]
    /\ Return(c)
    /\ UNCHANGED <<store, secret, faults, deletes, spec_uri, saw_secret,
                   saw_isvc, deployed, destroying>>

\* Someone else (kubectl delete) removes an InferenceService.
OperatorDelete ==
    /\ deletes < MaxDeletes
    /\ \E s \in Services :
          /\ isvc[s] # Absent
          /\ isvc' = [isvc EXCEPT ![s] = Absent]
    /\ deletes' = deletes + 1
    /\ UNCHANGED <<store, secret, faults, client_vars>>

ClientStep(c) ==
    \/ StartDeploy(c)
    \/ Prepare(c)
    \/ SecretList(c)
    \/ SecretWrite(c)
    \/ Status2(c)
    \/ Write(c)
    \/ StartDestroy(c)
    \/ Delete(c)

Next ==
    \/ \E c \in Clients : ClientStep(c)
    \/ OperatorDelete

\* Each client's process keeps running its code: no call blocks forever.
Fairness == \A c \in Clients : WF_vars(ClientStep(c))

Spec == Init /\ [][Next]_vars /\ Fairness

-----------------------------------------------------------------------------
(***************************************************************************)
(* A live InferenceService serves the model of the deployer that wrote it *)
(* last: the objects under its storage uri are that deployer's converted   *)
(* model, neither another client's nor a torn upload.  Depends on the      *)
(* sub_path (line 92), on prepare_model running before prepare_isvc        *)
(* (122-123) and on storage_uri being cached across retries (108).        *)
(***************************************************************************)
ServedModelIsOwnersModel ==
    \A s \in Services :
        isvc[s] # Absent => store[isvc[s].uri] = ModelOf[isvc[s].by]

(***************************************************************************)
(* A caller that retries deploy() until it returns gets its service        *)
(* deployed: the secret race (204-207), the create/replace races (132-139) *)
(* and failed calls happen only finitely often, so some attempt succeeds.  *)
(***************************************************************************)
EventuallyDeployed == \A c \in Clients : <>deployed[c]

(***************************************************************************)
(* The comment-free intent of lines 117-118: deploy() on a deployer without*)
(* replace=True never overwrites an InferenceService that exists.  Expected*)
(* to fail: the service may appear between the two status() calls (117,   *)
(* 132), or the first status() may return None for a failed get(), and the *)
(* replace branch (136-139) then runs without looking at the flag.         *)
(***************************************************************************)
NoReplaceWithoutFlag ==
    [][\A s \in Services :
          (isvc[s] # Absent /\ isvc'[s] # Absent /\ isvc'[s] # isvc[s])
              => ReplaceOf[isvc'[s].by]]_isvc

(***************************************************************************)
(* spec.md 4.5 and 8.5: status() maps only 'Reason: Not Found' to None and *)
(* lets every other error propagate, so a destroy() that returns has       *)
(* removed the service.  Expected to fail: lines 173-175 return None for  *)
(* any RuntimeError, and destroy() then returns without deleting.          *)
(***************************************************************************)
DestroyRemovesService ==
    [][\A c \in Clients :
          (dpc[c] # "done" /\ dpc'[c] = "done") => isvc'[SvcOf[c]] = Absent]_vars


(***************************************************************************)
(* The refinement mapping: a live InferenceService is seen as serving the  *)
(* model the bucket holds under its predictor's storage uri.               *)
(***************************************************************************)
ServedState ==
    [s \in Services |->
        IF isvc[s] = Absent THEN Absent
        ELSE [by |-> isvc[s].by, model |-> store[isvc[s].uri]]]

Service == INSTANCE DeployerService WITH svc <- ServedState

(***************************************************************************)
(* The deployers implement DeployerService: every step of deploy(),        *)
(* destroy() and the operator either leaves what each service serves and  *)
(* who has deployed unchanged, or is one atomic deploy of a deployer's     *)
(* whole model or one removal; and a caller retrying deploy() gets one     *)
(* through.  An upload under a sub_path a live service points at, a torn   *)
(* upload it would serve, or a spec built before the upload breaks it.     *)
(***************************************************************************)
ImplementsService == Service!SvcSpec

=============================================================================
