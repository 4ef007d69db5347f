--------------------------- MODULE MC_KFDeployer ---------------------------
(* Two clients redeploying one service under two versions with replace=True*)
(* (a rollout pipeline) and a third deploying its own service without     *)
(* replace, with two failed calls and one operator deletion.  They race on*)
(* the shared secret, on create/replace and on the services' existence.   *)
EXTENDS KFDeployer, TLC

CONSTANTS c1, c2, c3, s1, s2, v1, v2, m1, m2, m3

MC_Clients == {c1, c2, c3}
MC_Services == {s1, s2}
MC_Versions == {v1, v2}
MC_Models == {m1, m2, m3}
MC_SvcOf == (c1 :> s1) @@ (c2 :> s1) @@ (c3 :> s2)
MC_VerOf == (c1 :> v1) @@ (c2 :> v2) @@ (c3 :> v1)
MC_ModelOf == (c1 :> m1) @@ (c2 :> m2) @@ (c3 :> m3)
MC_ReplaceOf == (c1 :> TRUE) @@ (c2 :> TRUE) @@ (c3 :> FALSE)

(* Race: c1 deploys s1 without replace while c2 redeploys it with replace. *)
Race_Clients == {c1, c2}
Race_ReplaceOf == (c1 :> FALSE) @@ (c2 :> TRUE)

\* The per-client constants restricted to the clients of a run.
Only(f, cs) == [c \in cs |-> f[c]]
Race_SvcOf == Only(MC_SvcOf, Race_Clients)
Race_VerOf == Only(MC_VerOf, Race_Clients)
Race_ModelOf == Only(MC_ModelOf, Race_Clients)

(* Alone: c1 deploys and destroys its service; get() may fail once.       *)
Alone_Clients == {c1}
Alone_SvcOf == Only(MC_SvcOf, Alone_Clients)
Alone_VerOf == Only(MC_VerOf, Alone_Clients)
Alone_ModelOf == Only(MC_ModelOf, Alone_Clients)
Alone_ReplaceOf == Only(MC_ReplaceOf, Alone_Clients)

(* Shared: two engines deploy service s1 with the default version "1.0"   *)
(* (hsengine.py line 21), neither with replace.                           *)
Shared_Clients == {c1, c2}
Shared_SvcOf == (c1 :> s1) @@ (c2 :> s1)
Shared_VerOf == (c1 :> v1) @@ (c2 :> v1)
Shared_ModelOf == Only(MC_ModelOf, Shared_Clients)
Shared_ReplaceOf == (c1 :> FALSE) @@ (c2 :> FALSE)
=============================================================================
