-------------------------- MODULE DeployerService --------------------------
(***************************************************************************)
(* What KFServing deployers promise their callers, as one atomic step per *)
(* call: deploy() makes the deployer's service serve the deployer's whole *)
(* converted model, and a service disappears only as a whole (destroy()   *)
(* or an operator).  Nothing is said of how the model reaches the cluster *)
(* (the upload, the spec, the credentials secret, the two status()        *)
(* calls); KFDeployer is shown to implement this specification.            *)
(***************************************************************************)
CONSTANTS
    Clients,    \* deployers
    Services,   \* InferenceService names
    Models,     \* converted models
    SvcOf,      \* [Clients -> Services]: the deployer's service_name
    ModelOf,    \* [Clients -> Models]: its converted_model
    Absent      \* no InferenceService of that name

VARIABLES
    svc,        \* [Services -> [by, model] \cup {Absent}]: what each serves
    deployed    \* [Clients -> BOOLEAN]: the deployer's deploy() succeeded

avars == <<svc, deployed>>

Served == [by : Clients, model : Models]

SvcTypeOK ==
    /\ svc \in [Services -> Served \cup {Absent}]
    /\ deployed \in [Clients -> BOOLEAN]

SvcInit ==
    /\ svc = [s \in Services |-> Absent]
    /\ deployed = [c \in Clients |-> FALSE]

\* A successful deploy() of c: its service now serves c's model, whether
\* it was created or replaced.
Deploy(c) ==
    /\ ~deployed[c]
    /\ svc' = [svc EXCEPT ![SvcOf[c]] = [by |-> c, model |-> ModelOf[c]]]
    /\ deployed' = [deployed EXCEPT ![c] = TRUE]

\* A live service is deleted, by a deployer's destroy() or by an operator.
Remove(s) ==
    /\ svc[s] # Absent
    /\ svc' = [svc EXCEPT ![s] = Absent]
    /\ UNCHANGED deployed

SvcNext ==
    \/ \E c \in Clients : Deploy(c)
    \/ \E s \in Services : Remove(s)

\* A caller that keeps calling deploy() gets one through.
SvcSpec == SvcInit /\ [][SvcNext]_avars /\ \A c \in Clients : WF_avars(Deploy(c))

\* The safety part, which the proofs establish.
SvcSafety == SvcInit /\ [][SvcNext]_avars

=============================================================================
