# HSEngine: TLA+ models, model-checking runs and proofs

This directory holds the TLA+ verification development for HSEngine
(`src/HSEngine/hsengine`). HSEngine takes a model trained with FATE, turns
it into a native scikit-learn / PyTorch / TensorFlow model, and serves it
through a KFServing InferenceService.

## 1. The system

| Part | Source | What it does |
|---|---|---|
| FATEModel | `trained_model/fate_model.py` | Its constructor (`_do_init`) locates the model in one of three ways: an in-memory `model_dict`, a local archive path, or a download by version. It then loops over the `component_define` section of `define_meta.yaml`, reads every supported component (`HomoLR`, `HomoNN`) into `model_dict`, and chooses `_target_framework`. |
| FATE Flow client | `integration/fate/fate_client.py` | `fetch_fate_model` runs an optional model-info query (when `party_id` or `model_id` is missing), then exports the archive and unzips it into a fresh temp dir. |
| FATEConverter | `converters/fate/fate_converter.py`, `converters/converter_base.py` | Builds the model storage, then normalises the framework name. It imports `converters/fate/<framework>/`, scans its files in `os.listdir` order, and returns the first `ComponentConverterBase` subclass whose `get_target_modules()` names the model type. `convert()` wraps the converter's output in a `ConvertedModel`; `save_model()` writes it. |
| Component converters | `converters/fate/sklearn/logistic_regression.py`, `converters/fate/pytorch/nn.py`, `component_converter.py` | LR: builds a `LogisticRegression` from the weights. NN: checks `config_type == "pytorch"`, then either loads a federated checkpoint (`api_version > 0`) or calls `torch.load`. |
| Model storage | `integration/model_storage/base.py` | `save` dispatches on the framework name to joblib, torch or tensorflow. The MinIO storage it imports is not in the repository. |
| KFServingDeployer | `deployers/kfserving/base.py` | `deploy`: `status()`, `prepare_model` (upload under `service_name/version`), `prepare_isvc`, `prepare_sa_secret` (list, then create or patch `hsengine-minio-secret`), a second `status()`, then create or replace the InferenceService. `destroy`: `status()`, then delete. `status`: `get()`, mapping "Not Found" to `None`. |
| TorchServe deployer | `deployers/kfserving/pytorch.py` | Builds the `.mar` archive and the config file, and sets the predictor's storage uri. |
| HSEngine | `hsengine.py` | Glue: `infer_converter`, `infer_deployer`, `run`. Each caches the converter, the converted model and the deployer. |
| Factories | `*/__init__.py` | Stateless dispatch on a type string (`ValueError` otherwise). |

How they interact:
1. `FATEModel` decides the framework.
2. `FATEConverter` picks the converter for that framework and type.
3. The converter's output goes to the storage (`save_model`), or to a deployer.
4. The deployer uploads it to MinIO under `service_name/version` and writes an InferenceService pointing there.

Several HSEngine processes can deploy into one namespace. They then share:
- the InferenceServices;
- the bucket;
- the credentials secret.

They also race with operators deleting services. The core has no retries (spec.md §5), so a caller retries `deploy()`.

## 2. Modules

| Module | Models | State | Actions |
|---|---|---|---|
| `FateModel` | `_do_init`, `_download`, `_read_component`, `fetch_fate_model` | `pc` (init/scan/infer/ready/failed), `model_dict` (`NoDict` = None, `EmptyDict` = `{}`, or a record), `model_path`, `model_version`, `ids_known`, `archive` (sequence of components), `cursor` (loop position), `target_framework`, `error`, ghost `args` | `UseDict`, `UsePath`, `MissingModel`, `Download` (query fails, query returns no data, export fails, success), `ReadComponent` (skip, read, unreadable payload), `EndScan`, `Infer` |
| `FateConverter` (EXTENDS FateModel) | `FATEConverter.__init__`/`get_component_converter`, `convert`, `ConverterBase.save_model`, `BaseModelStorage.save`, the converters' choice of loader | `conv_pc`, `component_converter`, `converted_model`, `saved`, `conv_error` | `GetComponentConverter` (any match in any listdir order, or ModuleNotFoundError / RuntimeError), `Convert`, `SaveModel` |
| `KFDeployer` | `KFServingDeployer` `deploy`, `prepare_model`, `prepare_isvc`, `prepare_sa_secret`, `status`, `destroy` of several deployers | cluster: `isvc` (per service: writer and storage uri, or `Absent`), `store` (per sub_path: a model, `Empty`, `Torn`), `secret`, `faults`, `deletes`; per client: `dpc`, `spec_uri` (`self.isvc`/`storage_uri`), `saw_secret`, `saw_isvc`, `deployed`, `destroying` | `StartDeploy`, `Prepare`, `SecretList`, `SecretWrite`, `Status2`, `Write`, `StartDestroy`, `Delete`, `OperatorDelete` |
| `HSEngine` (EXTENDS FateConverter) | `HSEngine.__init__`, `infer_converter`, `infer_deployer`, `run`; the factories `get_trained_model`, `get_converter`, `get_deployer`, `get_kfserving_deployer` | `engine`, `eng_pc` (stage of the running method), `converter`, `eng_model` (`self.converted_model`), `deployer` (class and the model it holds), `service`, `protocol`, `replace`, `calls`, `eng_error` | `Construct`, `InferConverter`, `InferDeployer` + `InferDeployerConvert`, `Run` + `RunConvert` + `RunDeploy`, `ConverterCall` (the user calls `engine.converter.convert()`/`save_model()`); each method reuses FateConverter's `GetComponentConverter` and `Convert` |
| `PyModuleName` | the file filter and `f.rstrip('.py')` of both package scans (`fate_converter.py` 63-68, `fate_model.py` 162-165) | `file` (one `os.listdir` entry, a sequence of one-character strings), `scan` (which loop), `imported` (the name given to `import_module`, or `Skipped`) | `ScanEntry` (strip with `RStripRef`) |
| `PyStrip` (EXTENDED by PyModuleName) | the string operators of both scans: `StripChars`, `ConverterListed`, `str.rstrip` as `RStripRef` (the prefix up to the cut point `RStripCut`), `Stem` | | |
| `DeployerService` | what the deployers promise: `deploy()` makes the deployer's service serve its whole model, a service disappears only as a whole | `svc` (per service: writer and model, or `Absent`), `deployed` | `Deploy(c)`, `Remove(s)`; weak fairness of each `Deploy(c)` |
| `FateModelProofs`, `FateConverterProofs`, `HSEngineProofs`, `KFDeployerProofs`, `KFDeployerRefinement`, `PyStripProofs` | theorems (section 5) | | |
| `MC_*` | TLC instances | | |

Abstractions:
- A protobuf payload becomes a record holding only what later code looks at:
  - the module type;
  - the NN `config_type`;
  - whether `api_version > 0`;
  - the manifest position it was read from (0 for a dict the caller passed).
- A converted model is its framework, its source position and the loader that produced it. The numeric content of the LR conversion is data and is not modelled.
- A deploy or destroy call is split at each call to the cluster or the object store. Only those calls are visible to other processes.
- `status()` may return `None` for a failing `get()`. Each such failure uses one of `MaxFaults`, as does an upload that fails half way and leaves `Torn` objects.

Code left out of actions, because the model shows it is unreachable:
- `convert()`'s `model_dict is None` raise: a constructed FATEModel always holds a record.
- `nn.py` lines 29-30: the invariant `DispatchedConverterAccepts` shows they are never reached.
- `BaseModelStorage.save`'s `NotImplementedError`: the storage framework is always one of `FrameworkOf`'s three. `StorageFrameworks` is the guard.
- `get_kfserving_deployer`'s and the other factories' `ValueError`: the engine passes only the types they know.

The deployers of `KFDeployer` are TorchServe deployers, the only concrete class in the repository. `Prepare` has three outcomes:
- the packaging of `_do_prepare_model` fails (`PackageFails`): `torch-model-archiver` exits non-zero at `pytorch.py` 77-79, before anything is uploaded;
- the upload fails half way and leaves `Torn` objects;
- the upload succeeds and the spec's predictor points at it (`_do_prepare_predictor`, `pytorch.py` 156-157).

`KFDeployer` is shown to implement `DeployerService` under the mapping `ServedState`: a live InferenceService is seen as serving the model the bucket holds under its storage uri.

The deployer module assumes MinIO storage with `share_storage_creds=True` (the TorchServe default), so `prepare_sa_secret` runs.

## 3. Runs

| Run | cfg | Checks | Shows |
|---|---|---|---|
| `fate_model` | `MC_FateModel.cfg` | `FMTypeOK`, `ConstructionOutcome` | Every argument combination (dict None/{}/record; path; version; ids) and every archive of at most 2 components over 3 module types and 2 config types. Each construction ends with the dict and framework, or the error, computed directly from the arguments by the reference `ExpectedError`/`ExpectedDict`. Network errors are allowed when a fetch happened. 214,286 states. |
| `fate_model_first_supported` | `..._MainModelIsFirstSupported.cfg` | `MainModelIsFirstSupported` (expected violation) | With two supported components, the code keeps the last one; spec.md 4.2 says the first. |
| `fate_model_empty_dict` | `..._NoMainModelIsRuntimeError.cfg` | `NoMainModelIsRuntimeError` (expected violation) | `model_dict={}` and no supported component gives a KeyError, not the RuntimeError of line 123. |
| `fate_converter` | `MC_FateConverter.cfg` | `TypeOK`, `DispatchedConverterAccepts`, `ConvertedFaithful` | With the real registry (each converter file also exposes the imported `ComponentConverterBase`), dispatch in any listdir order returns a converter that targets the model type, and the NN converter never sees a non-pytorch config. What `convert` and `save_model` produce is the selected component, loaded the way its record requires. 347,094 states. |
| `converter_missing_package` | `MC_FateConverter_lookup.cfg` | `DispatchFailureIsLookupError` (expected violation) | A HomoNN model with a keras config gets framework `tf_keras`, for which no converter package exists: `import_module` raises ModuleNotFoundError instead of the lookup error spec.md 4.3 requires. |
| `engine` | `MC_HSEngine.cfg` | `EngTypeOK`, `ServedIsSelectedModel` | Every constructible FATEModel (archives of at most one component), both protocols, both replace flags, and any sequence of up to 3 engine calls. A live service serves the selected component, converted for its framework, through the deployer class for that framework and protocol. This holds even when `run()` keeps a deployer built from an earlier conversion. 642,552 states. |
| `deployer` | `MC_KFDeployer.cfg` | `TypeOK`, `ServedModelIsOwnersModel`, `EventuallyDeployed`, `ImplementsService` | Three deployers (two on one service, different versions), with up to 2 failed calls and 1 operator deletion. A live service always serves its writer's model, and under fairness every retrying caller eventually gets a deploy through. `ImplementsService` checks that the deployers implement `DeployerService`, fairness included. 34,812 states. |
| `deployer_replace_race` | `MC_KFDeployer_race.cfg` | `NoReplaceWithoutFlag` (expected violation) | A `replace=False` deployer replaces a service that another deployer created between its two `status()` calls. |
| `module_name` | `MC_PyModuleName.cfg` | `ProtoImportsGenerated` | Every name of up to 4 characters over `. p y _ a`, alone and with protoc's `_pb2.py` suffix, in either scan. A generated `<name>_pb2.py` is always imported as `<name>_pb2`, however `<name>` ends: `rstrip('.py')` stops at the `2`. The mutant that strips both ends (`strip` for `rstrip`) breaks it on a name that starts with `p` or `y`, such as `pa_pb2.py`. 6,248 states. |
| `module_name_stem` | `MC_PyModuleName_stem.cfg` | `ImportsOwnModule` (expected violation) | `p.py` imports the empty name and `happy.py` would import `ha`: rstrip removes characters, not the `.py` suffix. The shipped `nn.py` and `logistic_regression.py` are unaffected. |
| `deployer_shared_path` | `MC_KFDeployer_shared.cfg` | `ServedModelIsOwnersModel` (expected violation) | Two engines deploy one service with the default version `"1.0"` and share a MinIO sub_path. The second engine's first `status()` runs before the first engine creates the service. Its upload then overwrites the objects the first engine's live service serves. |
| `deployer_destroy_error` | `MC_KFDeployer_destroy.cfg` | `DestroyRemovesService` (expected violation) | `destroy()` returns without deleting when `get()` fails with an error other than Not Found. |

Each property of a passing run has a mutant in `PROJECT.json`: a plausible bug in a mapped definition that TLC then catches. Examples:
- a `break` in the component loop;
- the scan ignoring target lists;
- `nn.py` ignoring `api_version`;
- `prepare_isvc` running before `prepare_model`;
- the upload path dropping the version;
- the secret created without looking at the listing;
- `self.storage_uri` assigned before the upload finishes (`PrepareCachesUriEarly`), which breaks the refinement.

Why the bounds are enough:
- Two components make "several supported components" and "supported after unsupported" possible.
- Three module types include an unsupported one.
- Two config types include a non-pytorch one.
- Three clients with two on one service give both the same-service races and an independent deployer.
- Two faults let a failed upload be followed by a failed status in one behaviour.
- One deletion exercises the stale `self.isvc` re-creation.
- Three engine calls allow `infer_deployer` followed by two `run()`s. That covers the stale deployer, "already exists" on a second `run()`, and a retry after an API error.

`CHECK_DEADLOCK FALSE` is set because:
- `_do_init` and the converter calls really terminate;
- a deployer session ends after `destroy()`.

## 4. Fairness

`EventuallyDeployed` assumes weak fairness of each client's steps (`WF_vars(ClientStep(c))`). Each HSEngine process runs its own call chain synchronously (spec.md §5), so a process with a step enabled keeps taking steps. Faults and operator deletions are bounded, so they cannot recur forever. This models a caller that retries `deploy()` until it returns without an exception. No fairness is assumed for the operator.

## 5. Proofs

Checked by `tlapm`:
- `FateModelProofs!TypeCorrect`: `FMSpec => []FMTypeOK`, for all values of the constants under `ConstantsAssumption`. `FMTypeOK` alone is not inductive: the record `ReadComponent` stores carries `src |-> cursor`, which must lie in `0..MaxComponents`. The strengthening `TypeInv` adds two facts:
  - `Len(archive) <= MaxComponents`;
  - `cursor \in 1..Len(archive)+1`.

  Lemmas:
  - `ArchivesAreBoundedSeqs`: an initial archive is a bounded sequence;
  - `ReadRecordType`: `_read_component` at a position yields a `Record`;
  - `InitTypeInv`;
  - `NextTypeInv`: one step per action.
- `KFDeployerProofs!ServedModelSafe`: `PathsDistinct => (Spec => []ServedModelIsOwnersModel)`, for any number of deployers, services and versions and any fault and deletion bounds. `PathsDistinct` says no two deployers share `service_name/version`. It holds in the `deployer` run; the mutant `PathWithoutVersion` shows the property fails without it. The inductive invariant `OwnerInv` is `TypeOK` plus four facts:
  - `UploadHasNoSpec`: a deployer uploading holds no spec.
  - `SpecAfterUpload`: past the upload it holds one.
  - `SpecIsOwnUpload`: a held spec points at its own sub_path, which holds its model.
  - `LiveIsvcIsWritersSpec`: a live service carries the spec its writer holds.

  A failed upload can only tear the deployer's own sub_path. Because of `UploadHasNoSpec`, no live service points there. `OwnerInv` was checked with TLC on the `deployer` instance before it was proved.

- `KFDeployerRefinement!RefinesService`: `PathsDistinct => (Spec => Service!SvcSafety)`, the safety part of `ImplementsService`, for any number of deployers. The invariant is `RefInv`: `OwnerInv` plus `DeployingNotDeployed` (a `deploy()` in progress belongs to a deployer that has not deployed yet). Each step is checked against the abstract specification:
  - a step that leaves the services, the bucket and `deployed` alone is a stutter (`StutterRefines`);
  - an upload (`Prepare`, in all three outcomes) is a stutter: no live service points at the uploader's sub_path (`UploadNotServed`);
  - a successful `Write` is `Deploy(c)`: the writer's spec points at its own sub_path, which holds its model (`SpecIsOwnUpload`), and it has not deployed yet (`DeployingNotDeployed`);
  - `Delete` and `OperatorDelete` are `Remove(s)`, or a stutter when the service is already gone.

  `RefInv` was checked with TLC before it was proved.

- `FateModelProofs!ConstructionCorrect`: `FMSpec => []ConstructionOutcome`, for every set of types and every archive. The invariant `OutcomeInv` adds to `TypeInv` what each stage of `_do_init` knows:
  - at `init` the arguments are still in place and `cursor = 1`;
  - during the manifest loop, `ScanState` holds: the dict argument is falsy, a path or a version was given, every supported component before `cursor` was readable, and `model_dict` is either still the argument (no supported component before `cursor`) or the record of the last supported position before `cursor`;
  - at `infer` the dict is the truthy argument, or the loop has passed the whole archive;
  - `ReadyInv`: a ready model holds a supported `Record` and its framework.

  `LastSupportedIs` identifies the last supported position once the loop ends. `OutcomeInv` was checked with TLC on the `fate_model` instance before it was proved.
- `FateConverterProofs!ConverterTypeCorrect`, `DispatchAccepts`, `ConversionFaithful`: `Spec => []TypeOK`, `[]DispatchedConverterAccepts` and `[]ConvertedFaithful`, for every registry satisfying `ConverterLayoutAssumption`. The assumption says only `LRComponentConverter` targets HomoLR, only `NNComponentConverter` targets HomoNN, and `nn.py` lies in the `pytorch` package. That is how `converters/fate/` is laid out (`logistic_regression.py` 22-23, `nn.py` 23-24); other classes and packages may be added. The run's registry satisfies it, since TLC evaluates the assumption. The invariant `ConvInv` joins `TypeInv`, `ReadyInv` and facts linking the converter to the model: a dispatched converter matches the canonical framework and the model type, and a converted or saved model exists only after dispatch. `DispatchLoader` shows a matching converter picks the loader `RecordLoader` names for the record.
- `HSEngineProofs!EngineTypeCorrect`, `ServedModelCorrect`: `EngSpec => []EngTypeOK` and `[]ServedIsSelectedModel`. The invariant `EngInv` is `ConvInv` plus:
  - `EngShape`: a built engine has a ready model, a running method has an engine and a converter, and `run_deploy` has a deployer;
  - `EngCaches`: `self.converted_model`, the held deployer and the live service are all `GoodModel`/`GoodDeployment`. That means the selected record, in the target framework, with the right loader, and the deployer class for that framework and protocol.

  The invariant is needed because `run()` may reuse a deployer built by an earlier `infer_deployer`; the cache fact shows that deployer is still good. Resetting the converter (`ResetConvInv`) and a fresh `FATEConverter` (`NewConverterFacts`) keep it. `EngInv` was checked with TLC on the `engine` instance before it was proved.
- `KFDeployerProofs!DeployerTypeCorrect`: `Spec => []TypeOK` for the deployers. `NextTypeOK` carries `SpecAfterUpload` along: `Write` stores the spec the deployer holds, and that spec is a path only after an upload.

The `CASE ... OTHER` definitions `LoaderOf`, `LoaderOfIgnoringVersion` and `ExpectedError` are written as `IF` chains in the same order, because the provers do not handle `OTHER`. Their arms are disjoint except in `ExpectedError`, where the order is that of the code's checks.

- `PyStripProofs!ConverterImportsStem`: for file names of every length, a listed converter file (not starting with `.` or `_`, ending in `.py`) is imported under its own stem exactly when the character before `.py` is not `.`, `p` or `y`. This is the `module_name_stem` finding stated for all names. The lemmas:
  - `RStripCutExists`: `rstrip` always has a cut point, the last character outside the set, or 0. It is proved from the least-element principle `LeastNatural`, derived from `NatLessThanWellFounded` and `WFMin`;
  - `RStripCutUnique`: the cut point is unique;
  - `RStripRefIs`: `RStripRef` is the prefix up to the cut;
  - `SuffixChars`: what `IsSuffix(PySuffix, f)` says about the last three characters.

  `RStripRef` is the operator `ScanEntry` imports with, so the theorem is about the model's own rstrip.
- `PyStripProofs!ProtoImportsAllGenerated`: `PMSpec => []ProtoImportsGenerated` for every alphabet and name length. The inductive invariant `PMInv` adds `file \in Seq(Chars)` (`ListingIsSeq`: every listing entry is a sequence of characters), which the step needs to apply the lemmas. `PbSuffixChars` reads the last four characters off `IsSuffix(PbSuffix, f)`, and `GeneratedKeepsStem` shows the rstrip cut of a `_pb2.py` name is at its `2`, so `RStripRef` returns `Stem`.

Only model-checked:
- the liveness properties `EventuallyDeployed` and the fairness part of `ImplementsService`: TLAPS does not handle fairness or ENABLED;
- the violation runs.

## 6. Not modelled

- The contents TorchServe's `generate_files` writes (the TorchScript file, the `.mar` archive, the JSON in `config.properties`) and the optional image transformer container: no property tells them apart. Their failure is modelled.
- The factories: stateless dispatch.
- The abstract base classes.
- `wait()`: a read.
- FATE Flow client construction: host and port parsing.
- The SKLearn and TFServing deployers and the MinIO storage class: imported but absent from the repository. The MinIO upload is modelled inside `KFDeployer` as a per-path store write.
- `get_model_storage`: stateless choice of a storage class.

## 7. Plan

1. Compose `HSEngine` with the multi-step `KFDeployer` for one client. `RefinesService` now justifies the one-step deploy of `HSEngine` for deployers with distinct sub_paths.
2. Proofs: the liveness of `EventuallyDeployed` stays with TLC. A refinement of FATEModel construction into one atomic call would restate `ConstructionCorrect`, because no step follows `ready` or `failed`.
