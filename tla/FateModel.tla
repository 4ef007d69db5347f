---------------------------- MODULE FateModel ----------------------------
(***************************************************************************)
(* The construction of a FATEModel (trained_model/fate_model.py) and the   *)
(* remote fetch it may call (integration/fate/fate_client.py).             *)
(*                                                                         *)
(* FATEModel.__init__ runs _do_init once.  _do_init is modelled as the     *)
(* steps it goes through: Locate (decide whether the in-memory dict, the   *)
(* local path or a download is used), one ReadComponent step per iteration *)
(* of the loop over the manifest's component_define section, EndScan when  *)
(* the loop is left, and Infer (the check of model_dict and the choice of  *)
(* the target framework).  A protobuf payload is abstracted to a record    *)
(* holding what the rest of the program looks at: the module type, the NN  *)
(* config_type, whether api_version > 0, and the manifest position it was  *)
(* read from (0 for a dict handed in by the caller).                       *)
(***************************************************************************)
EXTENDS Naturals, Sequences

CONSTANTS
    ModuleTypes,    \* module_name tags an archive may declare
    ConfigTypes,    \* values of NNModelMeta.params.config_type
    MaxComponents,  \* bound on the number of components in an archive
    NoDict,         \* model_dict=None
    EmptyDict       \* model_dict={} (falsy, but not None)

\* fate_model.py line 29
SUPPORTED_MODELS == {"HomoLR", "HomoNN"}

\* The target frameworks _do_init can choose (lines 125-131).
Frameworks == {"sklearn", "pytorch", "tf_keras"}

\* A parsed component: {"type": module_name, "XXXMeta": ..., "XXXParam": ...}
Record == [type : ModuleTypes, cfg : ConfigTypes, fed : BOOLEAN,
           src : 0..MaxComponents]

\* A component declared in define_meta.yaml, with whether its payload
\* files can be read and parsed.
Component == [type : ModuleTypes, cfg : ConfigTypes, fed : BOOLEAN,
              readable : BOOLEAN]

ASSUME ConstantsAssumption ==
    /\ SUPPORTED_MODELS \subseteq ModuleTypes
    /\ "pytorch" \in ConfigTypes
    /\ MaxComponents \in Nat
    /\ NoDict # EmptyDict
    /\ NoDict \notin Record
    /\ EmptyDict \notin Record

NoFramework == "none"
NoError == "none"
Errors == {"ValueError",    \* line 112: nothing to locate the model
           "FetchError",    \* fate_client.py 87, 108: retcode != 0
           "IndexError",    \* fate_client.py 88: empty query data
           "IOError",       \* line 145: payload file missing / unparsable
           "RuntimeError",  \* lines 123, 133
           "KeyError"}      \* line 125: model_dict={} has no 'type'

VARIABLES
    pc,                \* where _do_init is: init, scan, infer, ready, failed
    model_dict,        \* self.model_dict
    model_path,        \* self.model_path is set (truthy)
    model_version,     \* self.model_version is set
    ids_known,         \* both party_id and model_id were passed
    archive,           \* the components of define_meta.yaml, in order
    cursor,            \* index of the component the loop looks at next
    target_framework,  \* self._target_framework
    error,             \* the exception _do_init raised, if any
    args               \* ghost: the constructor arguments

fm_vars == <<pc, model_dict, model_path, model_version, ids_known, archive,
             cursor, target_framework, error, args>>

Archives == UNION {[1..n -> Component] : n \in 0..MaxComponents}

\* The dicts a caller can pass as model_dict.
DictArgs == {NoDict, EmptyDict} \cup [type : ModuleTypes, cfg : ConfigTypes,
                                      fed : BOOLEAN, src : {0}]

\* _read_component(name): the record parsed from component k.
ReadRecord(a, k) == [type |-> a[k].type, cfg |-> a[k].cfg,
                     fed |-> a[k].fed, src |-> k]

\* `if not self.model_dict`: None and {} are both falsy.
Falsy(d) == d \in {NoDict, EmptyDict}

\* Mutant: the NN config_type string used as the framework name.
FrameworkOfConfig(r) ==
    IF r.type = "HomoLR" THEN "sklearn" ELSE r.cfg

\* Lines 125-131: the framework chosen for a record.
FrameworkOf(r) ==
    IF r.type = "HomoLR" THEN "sklearn"
    ELSE IF r.cfg = "pytorch" THEN "pytorch" ELSE "tf_keras"

FMTypeOK ==
    /\ pc \in {"init", "scan", "infer", "ready", "failed"}
    /\ model_dict \in {NoDict, EmptyDict} \cup Record
    /\ model_path \in BOOLEAN
    /\ model_version \in BOOLEAN
    /\ ids_known \in BOOLEAN
    /\ archive \in Seq(Component)
    /\ cursor \in Nat
    /\ target_framework \in Frameworks \cup {NoFramework}
    /\ error \in Errors \cup {NoError}
    /\ args \in [dict : DictArgs, path : BOOLEAN, version : BOOLEAN]

FMInit ==
    /\ model_dict \in DictArgs
    /\ model_path \in BOOLEAN
    /\ model_version \in BOOLEAN
    /\ ids_known \in BOOLEAN
    /\ archive \in Archives
    /\ pc = "init"
    /\ cursor = 1
    /\ target_framework = NoFramework
    /\ error = NoError
    /\ args = [dict |-> model_dict, path |-> model_path,
               version |-> model_version]

Fail(e) ==
    /\ pc' = "failed"
    /\ error' = e

(***************************************************************************)
(* _do_init lines 109-117.  A truthy dict skips discovery; otherwise a     *)
(* local path is needed, downloaded through fetch_fate_model when only a   *)
(* version is known.  The fetch first queries party_id and model_id when   *)
(* either is missing (fate_client.py 83-90), then exports and unzips the   *)
(* archive (94-114); each remote call may return a non-zero retcode.       *)
(***************************************************************************)
UseDict ==
    /\ pc = "init"
    /\ ~Falsy(model_dict)
    /\ pc' = "infer"
    /\ UNCHANGED <<model_dict, model_path, model_version, ids_known, archive,
                   cursor, target_framework, error, args>>

UsePath ==
    /\ pc = "init"
    /\ Falsy(model_dict)
    /\ model_path
    /\ pc' = "scan"
    /\ UNCHANGED <<model_dict, model_path, model_version, ids_known, archive,
                   cursor, target_framework, error, args>>

MissingModel ==
    /\ pc = "init"
    /\ Falsy(model_dict)
    /\ ~model_path
    /\ ~model_version
    /\ Fail("ValueError")
    /\ UNCHANGED <<model_dict, model_path, model_version, ids_known, archive,
                   cursor, target_framework, args>>

Download ==
    /\ pc = "init"
    /\ Falsy(model_dict)
    /\ ~model_path
    /\ model_version
    /\ \/ /\ ~ids_known
          /\ Fail("FetchError")           \* get_model_info retcode != 0
          /\ UNCHANGED model_path
       \/ /\ ~ids_known
          /\ Fail("IndexError")           \* query_result['data'][0] on []
          /\ UNCHANGED model_path
       \/ /\ Fail("FetchError")           \* export_model retcode != 0
          /\ UNCHANGED model_path
       \/ /\ model_path' = TRUE           \* archive extracted to temp_dir
          /\ pc' = "scan"
          /\ UNCHANGED error
    /\ UNCHANGED <<model_dict, model_version, ids_known, archive, cursor,
                   target_framework, args>>

(***************************************************************************)
(* Lines 118-120: one iteration of `for component in get_all_components()`.*)
(* A supported component is read and replaces model_dict; the loop has no  *)
(* break, so every supported component is read.  Reading fails when a     *)
(* payload file is missing or its protobuf class is not found.             *)
(***************************************************************************)
\* Mutant: the loop breaks after the first supported component.
ReadComponentWithBreak ==
    /\ pc = "scan"
    /\ cursor <= Len(archive)
    /\ \/ /\ archive[cursor].type \notin SUPPORTED_MODELS
          /\ cursor' = cursor + 1
          /\ UNCHANGED <<pc, model_dict, error>>
       \/ /\ archive[cursor].type \in SUPPORTED_MODELS
          /\ archive[cursor].readable
          /\ model_dict' = ReadRecord(archive, cursor)
          /\ cursor' = Len(archive) + 1
          /\ UNCHANGED <<pc, error>>
       \/ /\ archive[cursor].type \in SUPPORTED_MODELS
          /\ ~archive[cursor].readable
          /\ Fail("IOError")
          /\ cursor' = cursor + 1
          /\ UNCHANGED model_dict
    /\ UNCHANGED <<model_path, model_version, ids_known, archive,
                   target_framework, args>>

ReadComponent ==
    /\ pc = "scan"
    /\ cursor <= Len(archive)
    /\ \/ /\ archive[cursor].type \notin SUPPORTED_MODELS
          /\ UNCHANGED <<pc, model_dict, error>>
       \/ /\ archive[cursor].type \in SUPPORTED_MODELS
          /\ archive[cursor].readable
          /\ model_dict' = ReadRecord(archive, cursor)
          /\ UNCHANGED <<pc, error>>
       \/ /\ archive[cursor].type \in SUPPORTED_MODELS
          /\ ~archive[cursor].readable
          /\ Fail("IOError")
          /\ UNCHANGED model_dict
    /\ cursor' = cursor + 1
    /\ UNCHANGED <<model_path, model_version, ids_known, archive,
                   target_framework, args>>

EndScan ==
    /\ pc = "scan"
    /\ cursor > Len(archive)
    /\ pc' = "infer"
    /\ UNCHANGED <<model_dict, model_path, model_version, ids_known, archive,
                   cursor, target_framework, error, args>>

(***************************************************************************)
(* Lines 122-133.  `model_dict is None` is tested, not falsiness, so an    *)
(* empty dict reaches model_dict['type'] and raises KeyError.              *)
(***************************************************************************)
Infer ==
    /\ pc = "infer"
    /\ \/ /\ model_dict = NoDict
          /\ Fail("RuntimeError")
          /\ UNCHANGED target_framework
       \/ /\ model_dict = EmptyDict
          /\ Fail("KeyError")
          /\ UNCHANGED target_framework
       \/ /\ model_dict \in Record
          /\ model_dict.type \notin SUPPORTED_MODELS
          /\ Fail("RuntimeError")
          /\ UNCHANGED target_framework
       \/ /\ model_dict \in Record
          /\ model_dict.type \in SUPPORTED_MODELS
          /\ target_framework' = FrameworkOf(model_dict)
          /\ pc' = "ready"
          /\ UNCHANGED error
    /\ UNCHANGED <<model_dict, model_path, model_version, ids_known, archive,
                   cursor, args>>

FMNext ==
    \/ UseDict
    \/ UsePath
    \/ MissingModel
    \/ Download
    \/ ReadComponent
    \/ EndScan
    \/ Infer

FMSpec == FMInit /\ [][FMNext]_fm_vars

-----------------------------------------------------------------------------
(***************************************************************************)
(* Reference: what the constructor yields, computed from its arguments and *)
(* the archive in one go.                                                  *)
(***************************************************************************)
SupportedIdx(a) == {k \in 1..Len(a) : a[k].type \in SUPPORTED_MODELS}

\* The code keeps the last supported component (no break in the loop).
LastSupported(a) ==
    CHOOSE k \in SupportedIdx(a) : \A j \in SupportedIdx(a) : j <= k

\* spec.md 4.2 step 4: the first supported component is the main model.
FirstSupported(a) ==
    CHOOSE k \in SupportedIdx(a) : \A j \in SupportedIdx(a) : k <= j

\* The error _do_init must raise, or NoError; a failing fetch is the remote
\* service's choice and is allowed separately.  The tests are made in this
\* order: a truthy dict decides alone, whatever the other arguments.
ExpectedError ==
    IF ~Falsy(args.dict)
    THEN IF args.dict.type \in SUPPORTED_MODELS THEN NoError ELSE "RuntimeError"
    ELSE IF ~args.path /\ ~args.version THEN "ValueError"
    ELSE IF \E k \in SupportedIdx(archive) : ~archive[k].readable THEN "IOError"
    ELSE IF SupportedIdx(archive) = {}
         THEN IF args.dict = EmptyDict THEN "KeyError" ELSE "RuntimeError"
    ELSE NoError

ExpectedDict ==
    IF ~Falsy(args.dict) THEN args.dict
    ELSE ReadRecord(archive, LastSupported(archive))

\* A download was attempted, so a remote error is a legal outcome.
FetchAttempted == Falsy(args.dict) /\ ~args.path /\ args.version

(***************************************************************************)
(* Construction outcome: when _do_init finishes, the model is ready with   *)
(* the dict the arguments and the archive determine and the framework that *)
(* dict calls for, or it failed with the error they determine (or with a   *)
(* remote error of the fetch).  Covers the loop over the manifest, the     *)
(* None/{} distinction and the order of the checks in _do_init.            *)
(***************************************************************************)
ConstructionOutcome ==
    /\ pc = "ready" =>
          /\ ExpectedError = NoError
          /\ model_dict = ExpectedDict
          /\ target_framework = FrameworkOf(ExpectedDict)
    /\ pc = "failed" =>
          \/ error = ExpectedError
          \/ FetchAttempted /\ error \in {"FetchError", "IndexError"}

(***************************************************************************)
(* spec.md 4.2 step 4: the main model is the FIRST supported component in  *)
(* manifest order.  Expected to fail: the loop at lines 118-120 has no     *)
(* break and keeps the last one.                                           *)
(***************************************************************************)
MainModelIsFirstSupported ==
    (pc = "ready" /\ Falsy(args.dict)) =>
        model_dict.src = FirstSupported(archive)

(***************************************************************************)
(* spec.md 4.2 / 7: a model with no supported component fails with the     *)
(* RuntimeError 'unable to find component as the main model'.  Expected to *)
(* fail for model_dict={}: line 122 tests `is None`, line 125 raises a     *)
(* KeyError.                                                               *)
(***************************************************************************)
NoMainModelIsRuntimeError ==
    (pc = "failed" /\ Falsy(args.dict) /\ (args.path \/ args.version)
        /\ SupportedIdx(archive) = {}
        /\ error \notin {"FetchError", "IndexError"})
      => error = "RuntimeError"

=============================================================================
