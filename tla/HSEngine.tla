------------------------------ MODULE HSEngine ------------------------------
(***************************************************************************)
(* The HSEngine object (hsengine.py) driving the pipeline for one trained  *)
(* model: get_trained_model builds the FATEModel (the FateModel steps),    *)
(* then the caller invokes infer_converter, infer_deployer and run in any  *)
(* order, and may call the converter's convert/save_model directly.        *)
(* get_converter, get_deployer and get_kfserving_deployer are the          *)
(* factories those methods go through.                                     *)
(*                                                                         *)
(* One engine owns its service, so deploy() is one step here: without     *)
(* another deployer or an operator the steps of KFDeployer's deploy       *)
(* cannot interleave with anything.  Its outcomes are what that module    *)
(* shows a lone deployer can get: the service is written, 'already        *)
(* exists' (line 117-118 of deployers/kfserving/base.py), or a failed API *)
(* call.  The engine's methods run one at a time in the caller's thread.   *)
(***************************************************************************)
EXTENDS FateConverter

CONSTANTS
    MaxCalls,   \* bound on the engine methods the caller invokes
    NoService,  \* no InferenceService of the engine's service name
    NoDeployer  \* self.deployer is None

\* The KFServing deployer classes (deployers/kfserving/__init__.py 13-15).
DeployerClasses == {"SKLearnV1KFDeployer", "SKLearnV2KFDeployer",
                    "TorchServeKFDeployer", "TFServingKFDeployer"}

\* What a deployer or the service holds: its class and the converted model.
Deployment == [cls : DeployerClasses, model : ConvertedModel]

ASSUME EngineAssumption ==
    /\ MaxCalls \in Nat
    /\ NoService \notin Deployment
    /\ NoDeployer \notin Deployment

\* The error of the last engine call that raised.
EngineErrors == {"none", "ModuleNotFoundError", "RuntimeError",
                 "AlreadyExists", "ApiError"}

EnginePcs == {"idle", "id_convert", "run_convert", "run_deploy"}

VARIABLES
    engine,      \* the HSEngine exists (get_trained_model returned)
    eng_pc,      \* idle, or the stage of the engine method running
    converter,   \* self.converter is not None
    eng_model,   \* self.converted_model
    deployer,    \* self.deployer: NoDeployer or the Deployment it holds
    service,     \* the InferenceService: NoService or the Deployment served
    protocol,    \* deployer_kwargs protocol_version
    replace,     \* deployer_kwargs replace
    calls,       \* engine methods invoked so far
    eng_error    \* what the last engine call raised

eng_vars == <<engine, eng_pc, converter, eng_model, deployer, service,
              protocol, replace, calls, eng_error>>
all_vars == <<vars, eng_vars>>

\* Mutant: the protocol_version kwarg is ignored.
DeployerClassIgnoringProtocol(fw, proto) ==
    CASE fw \in {"sklearn", "scikit-learn"} -> "SKLearnV1KFDeployer"
      [] fw \in {"pytorch", "torch"} -> "TorchServeKFDeployer"
      [] fw \in {"tf_keras", "tensorflow", "tf"} -> "TFServingKFDeployer"

\* get_kfserving_deployer (lines 35-47): the class for the model's
\* framework; its ValueError branch cannot be taken, since a converted
\* model's framework is one of the three FATEModel chooses.
DeployerClass(fw, proto) ==
    CASE fw \in {"sklearn", "scikit-learn"} ->
            IF proto = "v2" THEN "SKLearnV2KFDeployer"
                            ELSE "SKLearnV1KFDeployer"
      [] fw \in {"pytorch", "torch"} -> "TorchServeKFDeployer"
      [] fw \in {"tf_keras", "tensorflow", "tf"} -> "TFServingKFDeployer"

\* Mutant: get_deployer is handed self.converted_model as it was before
\* the conversion assigned it.
DeployerForStale(m) ==
    [cls |-> DeployerClass(m.framework, protocol), model |-> eng_model]

\* get_deployer (deployers/__init__.py 34-35) for a converted model.
DeployerFor(m) == [cls |-> DeployerClass(m.framework, protocol), model |-> m]

EngTypeOK ==
    /\ TypeOK
    /\ engine \in BOOLEAN
    /\ eng_pc \in EnginePcs
    /\ converter \in BOOLEAN
    /\ eng_model \in ConvertedModel \cup {NoModel}
    /\ deployer \in Deployment \cup {NoDeployer}
    /\ service \in Deployment \cup {NoService}
    /\ protocol \in {"v1", "v2"}
    /\ replace \in BOOLEAN
    /\ calls \in 0..MaxCalls
    /\ eng_error \in EngineErrors

EngInit ==
    /\ Init
    /\ engine = FALSE
    /\ eng_pc = "idle"
    /\ converter = FALSE
    /\ eng_model = NoModel
    /\ deployer = NoDeployer
    /\ service = NoService
    /\ protocol \in {"v1", "v2"}
    /\ replace \in BOOLEAN
    /\ calls = 0
    /\ eng_error = "none"

\* HSEngine.__init__ (lines 38-50): get_trained_model returned a FATEModel.
Construct ==
    /\ ~engine
    /\ pc = "ready"
    /\ engine' = TRUE
    /\ UNCHANGED <<vars, eng_pc, converter, eng_model, deployer, service,
                   protocol, replace, calls, eng_error>>

\* The caller invokes an engine method, counted against MaxCalls.
Call ==
    /\ engine
    /\ eng_pc = "idle"
    /\ calls < MaxCalls
    /\ calls' = calls + 1

(***************************************************************************)
(* get_converter (converters/__init__.py 28-29) builds a new FATEConverter:*)
(* its constructor dispatches (GetComponentConverter) and its              *)
(* converted_model starts as None.  listdir order is fixed for the         *)
(* installed package, so a rebuilt converter gets the class the first one  *)
(* got, and a failed dispatch fails again.  `then` is the stage the        *)
(* calling method goes on with when the converter is built.                *)
(***************************************************************************)
NewConverter(then) ==
    /\ \/ /\ conv_pc = "none"
          /\ GetComponentConverter
       \/ /\ conv_pc = "ready"
          /\ converted_model' = NoModel
          /\ UNCHANGED <<fm_vars, conv_pc, component_converter, saved,
                         conv_error>>
       \/ /\ conv_pc = "failed"
          /\ UNCHANGED vars
    /\ converter' = (conv_pc' = "ready")
    /\ eng_pc' = IF conv_pc' = "ready" THEN then ELSE "idle"
    /\ eng_error' = IF conv_pc' = "ready" THEN "none" ELSE conv_error'

\* HSEngine.infer_converter (lines 52-54).
InferConverter ==
    /\ Call
    /\ NewConverter("idle")
    /\ UNCHANGED <<engine, eng_model, deployer, service, protocol, replace>>

(***************************************************************************)
(* infer_deployer (lines 56-65), first part: with a converted model the   *)
(* deployer is built at once; otherwise a converter is built if there is  *)
(* none, and the method goes on to convert.                               *)
(***************************************************************************)
InferDeployer ==
    /\ Call
    /\ \/ /\ eng_model # NoModel
          /\ deployer' = DeployerFor(eng_model)
          /\ eng_error' = "none"
          /\ UNCHANGED <<vars, eng_pc, converter>>
       \/ /\ eng_model = NoModel
          /\ converter
          /\ eng_pc' = "id_convert"
          /\ UNCHANGED <<vars, converter, deployer, eng_error>>
       \/ /\ eng_model = NoModel
          /\ ~converter
          /\ NewConverter("id_convert")
          /\ UNCHANGED deployer
    /\ UNCHANGED <<engine, eng_model, service, protocol, replace>>

\* infer_deployer lines 60-65: convert, keep the model, build the deployer.
InferDeployerConvert ==
    /\ eng_pc = "id_convert"
    /\ Convert
    /\ eng_model' = converted_model'
    /\ deployer' = DeployerFor(converted_model')
    /\ eng_pc' = "idle"
    /\ eng_error' = "none"
    /\ UNCHANGED <<engine, converter, service, protocol, replace, calls>>

\* HSEngine.run lines 74-75: build a converter when there is none.
Run ==
    /\ Call
    /\ \/ /\ converter
          /\ eng_pc' = "run_convert"
          /\ UNCHANGED <<vars, converter, eng_error>>
       \/ /\ ~converter
          /\ NewConverter("run_convert")
    /\ UNCHANGED <<engine, eng_model, deployer, service, protocol, replace>>

(***************************************************************************)
(* run lines 76-79: convert again and keep the result; build a deployer   *)
(* only when there is none (infer_deployer then skips the conversion,     *)
(* since self.converted_model is set), so an existing deployer keeps the  *)
(* model of an earlier conversion.                                        *)
(***************************************************************************)
RunConvert ==
    /\ eng_pc = "run_convert"
    /\ Convert
    /\ eng_model' = converted_model'
    /\ deployer' = IF deployer = NoDeployer THEN DeployerFor(converted_model')
                                            ELSE deployer
    /\ eng_pc' = "run_deploy"
    /\ UNCHANGED <<engine, converter, service, protocol, replace, calls,
                   eng_error>>

(***************************************************************************)
(* run line 80: self.deployer.deploy() for the engine's own service.  An   *)
(* existing service without replace raises 'already exists' (base.py      *)
(* 117-118); otherwise the service is created or replaced with the        *)
(* deployer's model, unless an API call fails.                             *)
(***************************************************************************)
RunDeploy ==
    /\ eng_pc = "run_deploy"
    /\ \/ /\ service # NoService
          /\ ~replace
          /\ eng_error' = "AlreadyExists"
          /\ UNCHANGED service
       \/ /\ service = NoService \/ replace
          /\ service' = deployer
          /\ eng_error' = "none"
       \/ /\ eng_error' = "ApiError"
          /\ UNCHANGED service
    /\ eng_pc' = "idle"
    /\ UNCHANGED <<vars, engine, converter, eng_model, deployer, protocol,
                   replace, calls>>

\* The caller uses engine.converter directly: convert() or save_model().
ConverterCall ==
    /\ engine
    /\ eng_pc = "idle"
    /\ converter
    /\ (Convert \/ SaveModel)
    /\ UNCHANGED eng_vars

EngNext ==
    \/ FMNext /\ UNCHANGED <<conv_vars, eng_vars>>
    \/ Construct
    \/ InferConverter
    \/ InferDeployer
    \/ InferDeployerConvert
    \/ Run
    \/ RunConvert
    \/ RunDeploy
    \/ ConverterCall

EngSpec == EngInit /\ [][EngNext]_all_vars

-----------------------------------------------------------------------------
(***************************************************************************)
(* End to end (spec.md 8.6): a live service serves the component FATEModel *)
(* selected, converted to the framework it chose, loaded as its record     *)
(* requires, by a deployer class for that framework and for the requested *)
(* protocol.  Ties FATEModel's choice, FATEConverter's dispatch and        *)
(* convert, the engine's caching of converter, model and deployer, and    *)
(* get_kfserving_deployer's class choice.                                  *)
(***************************************************************************)
ServedIsSelectedModel ==
    service # NoService =>
        /\ service.model.framework = target_framework
        /\ service.model.src = model_dict.src
        /\ service.model.loader = RecordLoader(model_dict)
        /\ (service.cls = "TorchServeKFDeployer") = (target_framework = "pytorch")
        /\ (service.cls = "SKLearnV2KFDeployer") =
               (target_framework = "sklearn" /\ protocol = "v2")
        /\ (service.cls = "SKLearnV1KFDeployer") =
               (target_framework = "sklearn" /\ protocol = "v1")

=============================================================================
