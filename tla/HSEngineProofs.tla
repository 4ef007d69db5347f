--------------------------- MODULE HSEngineProofs ---------------------------
(***************************************************************************)
(* Proofs about HSEngine end to end: the FATEModel construction, the       *)
(* converter the engine builds and rebuilds, the converted model and the   *)
(* deployer it caches, and the service run() deploys.                      *)
(***************************************************************************)
EXTENDS HSEngine, FateConverterProofs

\* A converted model is the selected component, with the trained model's
\* framework, loaded the way its record calls for.
GoodModel(m) ==
    /\ m.framework = target_framework
    /\ m.src = model_dict.src
    /\ m.loader = RecordLoader(model_dict)

\* A deployment of such a model by the class get_kfserving_deployer picks
\* for its framework and the requested protocol.
GoodDeployment(d) ==
    /\ GoodModel(d.model)
    /\ d.cls = DeployerClass(d.model.framework, protocol)

(***************************************************************************)
(* The inductive invariant: the converter's invariant, and what the engine *)
(* caches (self.converter, self.converted_model, self.deployer) and what   *)
(* the cluster serves are all built from the ready FATEModel; a method in  *)
(* progress has a converter, and run() reaches its deploy step with a      *)
(* deployer.                                                               *)
(***************************************************************************)
EngShape ==
    /\ engine => pc = "ready"
    /\ converter => conv_pc = "ready"
    /\ eng_pc # "idle" => converter /\ engine
    /\ eng_pc = "run_deploy" => deployer # NoDeployer

EngCaches ==
    /\ eng_model # NoModel => pc = "ready" /\ GoodModel(eng_model)
    /\ deployer # NoDeployer => pc = "ready" /\ GoodDeployment(deployer)
    /\ service # NoService => pc = "ready" /\ GoodDeployment(service)

EngInv == ConvInv /\ EngTypeOK /\ EngShape /\ EngCaches

\* get_kfserving_deployer has a class for every framework FATEModel chooses.
LEMMA DeployerClassType ==
    ASSUME NEW fw \in Frameworks, NEW proto
    PROVE  DeployerClass(fw, proto) \in DeployerClasses
BY DEF Frameworks, DeployerClass, DeployerClasses

\* get_deployer builds a Deployment of the class for the model's framework.
LEMMA DeployerForType ==
    ASSUME NEW m \in ConvertedModel
    PROVE  /\ DeployerFor(m) \in Deployment
           /\ DeployerFor(m) # NoDeployer
           /\ DeployerFor(m).model = m
           /\ DeployerFor(m).cls = DeployerClass(m.framework, protocol)
<1>1. DeployerClass(m.framework, protocol) \in DeployerClasses
  BY DeployerClassType DEF ConvertedModel
<1>. QED
  BY <1>1, EngineAssumption DEF DeployerFor, Deployment

\* FATEConverter.convert on a dispatched converter: the record FATEModel
\* selected, wrapped with its framework and loader.
LEMMA ConvertResult ==
    ASSUME ConvInv, Convert
    PROVE  /\ converted_model' = [framework |-> target_framework,
                                  src |-> model_dict.src,
                                  loader |-> RecordLoader(model_dict)]
           /\ converted_model' \in ConvertedModel
           /\ pc = "ready"
<1>1. conv_pc = "ready" /\ pc = "ready"
  BY DEF Convert, ConvInv
<1>2. /\ model_dict \in Record
      /\ target_framework = FrameworkOf(model_dict)
      /\ FrameworkOf(model_dict) \in Frameworks
  BY <1>1 DEF ConvInv, ReadyInv, FrameworkOf, Frameworks
<1>3. converted_model' = [framework |-> target_framework,
                         src |-> model_dict.src,
                         loader |-> RecordLoader(model_dict)]
  BY <1>1, DispatchLoader DEF Convert
<1>. QED
  BY <1>1, <1>2, <1>3 DEF ConvertedModel, Record, RecordLoader, Loaders

\* get_converter on a converter already dispatched: a fresh FATEConverter
\* with the same class and converted_model None keeps ConvInv.
LEMMA ResetConvInv ==
    ASSUME ConvInv, conv_pc = "ready", converted_model' = NoModel,
           UNCHANGED <<fm_vars, conv_pc, component_converter, saved,
                       conv_error>>
    PROVE  ConvInv'
BY DEF ConvInv, TypeInv, FMTypeOK, ReadyInv, ConvTypeOK, ConvertedFaithful,
       fm_vars

\* Every engine step moves FATEModel and FATEConverter by one of their own
\* steps, or by the reset of converted_model a rebuilt converter makes.
LEMMA EngNextConvInv ==
    ASSUME EngInv, [EngNext]_all_vars
    PROVE  ConvInv'
<1>. ConvInv
  BY DEF EngInv
<1>1. CASE FMNext /\ UNCHANGED <<conv_vars, eng_vars>>
  BY <1>1, NextConvInv DEF Next
<1>2. ASSUME NEW then, NewConverter(then) PROVE ConvInv'
  <2>1. CASE conv_pc = "none" /\ GetComponentConverter
    BY <2>1, NextConvInv DEF Next
  <2>2. CASE /\ conv_pc = "ready"
             /\ converted_model' = NoModel
             /\ UNCHANGED <<fm_vars, conv_pc, component_converter, saved,
                            conv_error>>
    BY <2>2, ResetConvInv
  <2>3. CASE conv_pc = "failed" /\ UNCHANGED vars
    BY <2>3, NextConvInv
  <2>. QED
    BY <1>2, <2>1, <2>2, <2>3 DEF NewConverter
<1>3. CASE Construct \/ RunDeploy \/ UNCHANGED all_vars
  BY <1>3, NextConvInv DEF Construct, RunDeploy, all_vars
<1>4. CASE InferConverter \/ Run
  <2>1. CASE InferConverter
    BY <2>1, <1>2 DEF InferConverter
  <2>2. CASE Run /\ converter
    BY <2>2, NextConvInv DEF Run
  <2>3. CASE Run /\ ~converter
    BY <2>3, <1>2 DEF Run
  <2>. QED
    BY <1>4, <2>1, <2>2, <2>3
<1>5. CASE InferDeployer
  <2>1. CASE eng_model # NoModel \/ converter
    BY <1>5, <2>1, NextConvInv DEF InferDeployer
  <2>2. CASE eng_model = NoModel /\ ~converter
    BY <1>5, <2>2, <1>2 DEF InferDeployer
  <2>. QED
    BY <2>1, <2>2
<1>6. CASE InferDeployerConvert \/ RunConvert \/ ConverterCall
  BY <1>6, NextConvInv DEF InferDeployerConvert, RunConvert, ConverterCall,
                           Next
<1>. QED
  BY <1>1, <1>3, <1>4, <1>5, <1>6 DEF EngNext

\* A model or a deployment stays good while FATEModel and the requested
\* protocol stay as they are.
LEMMA GoodStable ==
    ASSUME UNCHANGED <<fm_vars, protocol>>, NEW d
    PROVE  /\ GoodModel(d)' = GoodModel(d)
           /\ GoodDeployment(d)' = GoodDeployment(d)
BY DEF GoodModel, GoodDeployment, fm_vars

\* Every construction step of FATEModel happens before any engine exists,
\* and leaves the engine's state alone.
LEMMA FMStepEngInv ==
    ASSUME EngInv, FMNext, UNCHANGED <<conv_vars, eng_vars>>, ConvInv'
    PROVE  EngInv'
<1>1. pc # "ready"
  BY FMNextNotReady
<1>2. /\ ~engine /\ ~converter /\ eng_pc = "idle"
      /\ eng_model = NoModel /\ deployer = NoDeployer /\ service = NoService
  BY <1>1 DEF EngInv, EngShape, EngCaches, ConvInv
<1>3. TypeOK'
  BY DEF ConvInv, TypeInv, TypeOK
<1>. QED
  BY <1>2, <1>3 DEF EngInv, EngTypeOK, EngShape, EngCaches, eng_vars,
                    conv_vars

\* What get_converter leaves behind: FATEModel as it was, self.converter
\* set exactly when dispatch succeeded, and a known error otherwise.
LEMMA NewConverterFacts ==
    ASSUME NEW then, NewConverter(then), ConvInv'
    PROVE  /\ UNCHANGED fm_vars
           /\ converter' = (conv_pc' = "ready")
           /\ eng_pc' = IF conv_pc' = "ready" THEN then ELSE "idle"
           /\ eng_error' \in EngineErrors
<1>1. UNCHANGED fm_vars
  BY DEF NewConverter, GetComponentConverter, vars
<1>2. conv_error' \in {NoError, "ModuleNotFoundError", "RuntimeError"}
  BY DEF ConvInv, ConvTypeOK
<1>. QED
  BY <1>1, <1>2 DEF NewConverter, EngineErrors, NoError

\* HSEngine.__init__ and infer_converter keep EngInv.
LEMMA ConstructConverterEngInv ==
    ASSUME EngInv, Construct \/ InferConverter, ConvInv'
    PROVE  EngInv'
<1>0. TypeOK'
  BY DEF ConvInv, TypeInv, TypeOK
<1>1. CASE Construct
  <2>1. UNCHANGED <<fm_vars, conv_vars, eng_pc, converter, eng_model, deployer,
                    service, protocol, replace, calls, eng_error>>
        /\ engine' /\ pc = "ready"
    BY <1>1 DEF Construct, vars
  <2>2. /\ GoodModel(eng_model)' = GoodModel(eng_model)
        /\ GoodDeployment(deployer)' = GoodDeployment(deployer)
        /\ GoodDeployment(service)' = GoodDeployment(service)
    BY <2>1, GoodStable
  <2>3. EngTypeOK'
    BY <1>0, <2>1 DEF EngInv, EngTypeOK
  <2>4. EngShape'
    BY <2>1 DEF EngInv, EngShape, fm_vars, conv_vars
  <2>5. EngCaches'
    BY <2>1, <2>2 DEF EngInv, EngCaches, fm_vars
  <2>. QED
    BY <2>3, <2>4, <2>5 DEF EngInv
<1>2. CASE InferConverter
  <2>1. /\ UNCHANGED fm_vars
        /\ converter' = (conv_pc' = "ready")
        /\ eng_pc' = "idle"
        /\ eng_error' \in EngineErrors
    BY <1>2, NewConverterFacts DEF InferConverter
  <2>2. UNCHANGED <<engine, eng_model, deployer, service, protocol, replace>>
        /\ calls' = calls + 1 /\ calls < MaxCalls /\ engine
    BY <1>2 DEF InferConverter, Call
  <2>3. /\ GoodModel(eng_model)' = GoodModel(eng_model)
        /\ GoodDeployment(deployer)' = GoodDeployment(deployer)
        /\ GoodDeployment(service)' = GoodDeployment(service)
    BY <2>1, <2>2, GoodStable
  <2>4. EngTypeOK'
    BY <1>0, <2>1, <2>2, EngineAssumption DEF EngInv, EngTypeOK, EnginePcs
  <2>5. EngShape'
    BY <2>1, <2>2 DEF EngInv, EngShape, fm_vars
  <2>6. EngCaches'
    BY <2>1, <2>2, <2>3 DEF EngInv, EngCaches, fm_vars
  <2>. QED
    BY <2>4, <2>5, <2>6 DEF EngInv
<1>. QED
  BY <1>1, <1>2

(***************************************************************************)
(* The first stage of infer_deployer and of run keeps EngInv: a deployer   *)
(* is only built from the engine's good converted model, and a method goes *)
(* on to convert only with a dispatched converter.                         *)
(***************************************************************************)
LEMMA FirstStageEngInv ==
    ASSUME EngInv, InferDeployer \/ Run, ConvInv'
    PROVE  EngInv'
<1>0. /\ TypeOK'
      /\ engine /\ calls' = calls + 1 /\ calls < MaxCalls
      /\ UNCHANGED <<engine, eng_model, service, protocol, replace>>
  BY DEF ConvInv, TypeInv, TypeOK, InferDeployer, Run, Call
<1>1. ASSUME NEW then \in {"id_convert", "run_convert"},
             NewConverter(then), UNCHANGED deployer
      PROVE  EngInv'
  <2>1. /\ UNCHANGED fm_vars
        /\ converter' = (conv_pc' = "ready")
        /\ eng_pc' = IF conv_pc' = "ready" THEN then ELSE "idle"
        /\ eng_error' \in EngineErrors
    BY <1>1, NewConverterFacts
  <2>2. /\ GoodModel(eng_model)' = GoodModel(eng_model)
        /\ GoodDeployment(deployer)' = GoodDeployment(deployer)
        /\ GoodDeployment(service)' = GoodDeployment(service)
    BY <1>0, <1>1, <2>1, GoodStable
  <2>3. EngTypeOK'
    BY <1>0, <1>1, <2>1, EngineAssumption DEF EngInv, EngTypeOK, EnginePcs
  <2>4. EngShape'
    BY <1>0, <1>1, <2>1 DEF EngInv, EngShape, fm_vars
  <2>5. EngCaches'
    BY <1>0, <1>1, <2>1, <2>2 DEF EngInv, EngCaches, fm_vars
  <2>. QED
    BY <2>3, <2>4, <2>5 DEF EngInv
<1>2. CASE InferDeployer /\ eng_model # NoModel
  <2>1. /\ deployer' = DeployerFor(eng_model)
        /\ eng_error' = "none"
        /\ UNCHANGED <<vars, eng_pc, converter>>
    BY <1>2 DEF InferDeployer
  <2>2. /\ eng_model \in ConvertedModel
        /\ pc = "ready" /\ GoodModel(eng_model)
    BY <1>2 DEF EngInv, EngTypeOK, EngCaches
  <2>3. /\ deployer' \in Deployment /\ deployer' # NoDeployer
        /\ deployer'.model = eng_model
        /\ deployer'.cls = DeployerClass(eng_model.framework, protocol)
    BY <2>1, <2>2, DeployerForType
  <2>4. /\ GoodModel(eng_model)' = GoodModel(eng_model)
        /\ GoodDeployment(service)' = GoodDeployment(service)
    BY <1>0, <2>1, GoodStable DEF vars
  <2>5. GoodDeployment(deployer)'
    BY <1>0, <2>1, <2>2, <2>3 DEF GoodDeployment, GoodModel, vars, fm_vars
  <2>6. EngTypeOK'
    BY <1>0, <2>1, <2>3, EngineAssumption DEF EngInv, EngTypeOK, EngineErrors
  <2>7. EngShape'
    BY <1>0, <2>1, <2>3 DEF EngInv, EngShape, vars, fm_vars, conv_vars
  <2>8. EngCaches'
    BY <1>0, <2>1, <2>2, <2>4, <2>5 DEF EngInv, EngCaches, vars, fm_vars
  <2>. QED
    BY <2>6, <2>7, <2>8 DEF EngInv
<1>3. CASE \/ InferDeployer /\ eng_model = NoModel /\ converter
           \/ Run /\ converter
  <2>1. /\ eng_pc' \in {"id_convert", "run_convert"}
        /\ UNCHANGED <<vars, converter, deployer, eng_error>>
    BY <1>3 DEF InferDeployer, Run
  <2>2. /\ GoodModel(eng_model)' = GoodModel(eng_model)
        /\ GoodDeployment(deployer)' = GoodDeployment(deployer)
        /\ GoodDeployment(service)' = GoodDeployment(service)
    BY <1>0, <2>1, GoodStable DEF vars
  <2>3. EngTypeOK'
    BY <1>0, <2>1, EngineAssumption DEF EngInv, EngTypeOK, EnginePcs
  <2>4. EngShape'
    BY <1>0, <1>3, <2>1 DEF EngInv, EngShape, vars, fm_vars, conv_vars
  <2>5. EngCaches'
    BY <1>0, <2>1, <2>2 DEF EngInv, EngCaches, vars, fm_vars
  <2>. QED
    BY <2>3, <2>4, <2>5 DEF EngInv
<1>4. CASE InferDeployer /\ eng_model = NoModel /\ ~converter
  BY <1>4, <1>1 DEF InferDeployer
<1>5. CASE Run /\ ~converter
  BY <1>5, <1>1 DEF Run
<1>. QED
  BY <1>2, <1>3, <1>4, <1>5

(***************************************************************************)
(* The conversion stage of infer_deployer and of run keeps EngInv: the     *)
(* engine keeps the model convert() just produced, and a deployer built    *)
(* for it (run keeps an existing one, which is good already).             *)
(***************************************************************************)
LEMMA ConvertStageEngInv ==
    ASSUME EngInv, InferDeployerConvert \/ RunConvert, ConvInv'
    PROVE  EngInv'
<1>0. /\ TypeOK'
      /\ Convert
      /\ eng_model' = converted_model'
      /\ UNCHANGED <<engine, converter, service, protocol, replace, calls>>
  BY DEF ConvInv, TypeInv, TypeOK, InferDeployerConvert, RunConvert
<1>1. /\ UNCHANGED fm_vars /\ UNCHANGED conv_pc
      /\ converted_model' = [framework |-> target_framework,
                             src |-> model_dict.src,
                             loader |-> RecordLoader(model_dict)]
      /\ converted_model' \in ConvertedModel
      /\ pc = "ready"
  BY <1>0, ConvertResult DEF Convert, EngInv
<1>2. GoodModel(eng_model)'
  BY <1>0, <1>1 DEF GoodModel, fm_vars
<1>3. /\ DeployerFor(converted_model') \in Deployment
      /\ DeployerFor(converted_model') # NoDeployer
      /\ DeployerFor(converted_model').model = converted_model'
      /\ DeployerFor(converted_model').cls =
             DeployerClass(converted_model'.framework, protocol)
  BY <1>1, DeployerForType
<1>3a. deployer' = DeployerFor(converted_model') => GoodDeployment(deployer)'
  BY <1>0, <1>1, <1>3 DEF GoodDeployment, GoodModel, fm_vars
<1>4. GoodDeployment(service)' = GoodDeployment(service)
  BY <1>0, <1>1, GoodStable
<1>5. CASE InferDeployerConvert
  <2>1. /\ deployer' = DeployerFor(converted_model')
        /\ eng_pc' = "idle" /\ eng_error' = "none"
    BY <1>5 DEF InferDeployerConvert
  <2>2. EngTypeOK'
    BY <1>0, <1>1, <1>3, <2>1 DEF EngInv, EngTypeOK, EnginePcs, EngineErrors
  <2>3. EngShape'
    BY <1>0, <1>1, <2>1 DEF EngInv, EngShape, fm_vars
  <2>4. EngCaches'
    BY <1>0, <1>1, <1>2, <1>3, <1>3a, <1>4, <2>1 DEF EngInv, EngCaches, fm_vars
  <2>. QED
    BY <2>2, <2>3, <2>4 DEF EngInv
<1>6. CASE RunConvert
  <2>1. /\ deployer' = IF deployer = NoDeployer
                       THEN DeployerFor(converted_model') ELSE deployer
        /\ eng_pc' = "run_deploy" /\ UNCHANGED eng_error
    BY <1>6 DEF RunConvert
  <2>2. ASSUME deployer # NoDeployer PROVE GoodDeployment(deployer)'
    <3>1. deployer' = deployer
      BY <2>1, <2>2
    <3>2. GoodDeployment(deployer)
      BY <2>2 DEF EngInv, EngCaches
    <3>. QED
      BY <1>0, <1>1, <3>1, <3>2 DEF GoodDeployment, GoodModel, fm_vars
  <2>3. EngTypeOK'
    BY <1>0, <1>1, <1>3, <2>1 DEF EngInv, EngTypeOK, EnginePcs
  <2>4. EngShape'
    BY <1>0, <1>1, <1>3, <1>6, <2>1 DEF EngInv, EngShape, fm_vars, RunConvert
  <2>5. pc' = "ready" /\ GoodDeployment(deployer)'
    <3>1. CASE deployer = NoDeployer
      BY <1>1, <1>3a, <2>1, <3>1 DEF fm_vars
    <3>2. CASE deployer # NoDeployer
      BY <1>1, <2>2, <3>2 DEF fm_vars
    <3>. QED
      BY <3>1, <3>2
  <2>6. EngCaches'
    BY <1>0, <1>1, <1>2, <1>4, <2>5 DEF EngInv, EngCaches, fm_vars
  <2>. QED
    BY <2>3, <2>4, <2>6 DEF EngInv
<1>. QED
  BY <1>5, <1>6

(***************************************************************************)
(* run's deploy step keeps EngInv: the service is created or replaced with *)
(* the deployer the engine holds, which is good; and a direct convert() or *)
(* save_model() on engine.converter changes nothing the engine caches.     *)
(***************************************************************************)
LEMMA DeployCallEngInv ==
    ASSUME EngInv, RunDeploy \/ ConverterCall, ConvInv'
    PROVE  EngInv'
<1>0. TypeOK'
  BY DEF ConvInv, TypeInv, TypeOK
<1>1. CASE RunDeploy
  <2>1. /\ UNCHANGED <<vars, engine, converter, eng_model, deployer,
                       protocol, replace, calls>>
        /\ eng_pc' = "idle"
        /\ eng_error' \in {"AlreadyExists", "none", "ApiError"}
        /\ service' \in {service, deployer}
    BY <1>1 DEF RunDeploy
  <2>2. /\ deployer # NoDeployer
        /\ deployer \in Deployment
        /\ pc = "ready" /\ GoodDeployment(deployer)
    BY <1>1 DEF RunDeploy, EngInv, EngShape, EngTypeOK, EngCaches
  <2>3. /\ GoodModel(eng_model)' = GoodModel(eng_model)
        /\ GoodDeployment(deployer)' = GoodDeployment(deployer)
    BY <2>1, GoodStable DEF vars
  <2>4. service' # NoService => pc' = "ready" /\ GoodDeployment(service)'
    <3>1. CASE service' = service
      BY <2>1, <3>1 DEF EngInv, EngCaches, GoodDeployment, GoodModel, vars,
                        fm_vars
    <3>2. CASE service' = deployer
      BY <2>1, <2>2, <3>2 DEF GoodDeployment, GoodModel, vars, fm_vars
    <3>. QED
      BY <2>1, <3>1, <3>2
  <2>5. EngTypeOK'
    BY <1>0, <2>1, <2>2 DEF EngInv, EngTypeOK, EnginePcs, EngineErrors
  <2>6. EngShape'
    BY <2>1 DEF EngInv, EngShape, vars, fm_vars, conv_vars
  <2>7. EngCaches'
    BY <2>1, <2>3, <2>4 DEF EngInv, EngCaches, vars, fm_vars
  <2>. QED
    BY <2>5, <2>6, <2>7 DEF EngInv
<1>2. CASE ConverterCall
  <2>1. UNCHANGED eng_vars /\ UNCHANGED <<fm_vars, conv_pc>>
    BY <1>2 DEF ConverterCall, Convert, SaveModel
  <2>2. /\ GoodModel(eng_model)' = GoodModel(eng_model)
        /\ GoodDeployment(deployer)' = GoodDeployment(deployer)
        /\ GoodDeployment(service)' = GoodDeployment(service)
    BY <2>1, GoodStable DEF eng_vars
  <2>. QED
    BY <1>0, <2>1, <2>2
       DEF EngInv, EngTypeOK, EngShape, EngCaches, eng_vars, fm_vars
<1>. QED
  BY <1>1, <1>2

\* The engine starts with nothing built.
LEMMA InitEngInv == EngInit => EngInv
<1> SUFFICES ASSUME EngInit PROVE EngInv
  OBVIOUS
<1>1. ConvInv /\ TypeOK
  BY InitConvInv DEF EngInit, ConvInv, TypeInv, TypeOK
<1>2. /\ engine = FALSE /\ eng_pc = "idle" /\ converter = FALSE
      /\ eng_model = NoModel /\ deployer = NoDeployer /\ service = NoService
      /\ protocol \in {"v1", "v2"} /\ replace \in BOOLEAN
      /\ calls = 0 /\ eng_error = "none"
  BY DEF EngInit
<1>3. EngTypeOK
  <2>1. calls \in 0..MaxCalls
    BY <1>2, EngineAssumption
  <2>. QED
    BY <1>1, <1>2, <2>1 DEF EngTypeOK, EnginePcs, EngineErrors
<1>4. EngShape /\ EngCaches
  BY <1>2 DEF EngShape, EngCaches
<1>. QED
  BY <1>1, <1>3, <1>4 DEF EngInv

\* Every step of the engine, its converter and its FATEModel keeps EngInv.
LEMMA NextEngInv == EngInv /\ [EngNext]_all_vars => EngInv'
<1> SUFFICES ASSUME EngInv, [EngNext]_all_vars PROVE EngInv'
  OBVIOUS
<1>0. ConvInv'
  BY EngNextConvInv
<1>1. CASE FMNext /\ UNCHANGED <<conv_vars, eng_vars>>
  BY <1>0, <1>1, FMStepEngInv
<1>2. CASE Construct \/ InferConverter
  BY <1>0, <1>2, ConstructConverterEngInv
<1>3. CASE InferDeployer \/ Run
  BY <1>0, <1>3, FirstStageEngInv
<1>4. CASE InferDeployerConvert \/ RunConvert
  BY <1>0, <1>4, ConvertStageEngInv
<1>5. CASE RunDeploy \/ ConverterCall
  BY <1>0, <1>5, DeployCallEngInv
<1>6. CASE UNCHANGED all_vars
  BY <1>0, <1>6 DEF EngInv, EngTypeOK, EngShape, EngCaches, GoodModel,
                    GoodDeployment, all_vars, vars, fm_vars, conv_vars,
                    eng_vars, ConvInv, TypeInv, TypeOK
<1>. QED
  BY <1>1, <1>2, <1>3, <1>4, <1>5, <1>6 DEF EngNext

\* EngInv holds in every state of every behaviour of the engine.
LEMMA AlwaysEngInv == EngSpec => []EngInv
BY InitEngInv, NextEngInv, PTL DEF EngSpec

(***************************************************************************)
(* Type correctness of the engine: whatever the caller invokes, in any     *)
(* order and however often, self.converted_model is None or a converted    *)
(* model, self.deployer and the service are None/absent or a deployment of *)
(* one of the four KFServing deployer classes, and every error is one the  *)
(* engine's calls raise.                                                   *)
(***************************************************************************)
THEOREM EngineTypeCorrect == EngSpec => []EngTypeOK
<1>1. EngInv => EngTypeOK
  BY DEF EngInv
<1>. QED
  BY <1>1, AlwaysEngInv, PTL

\* The class get_kfserving_deployer picks, by framework and protocol.
LEMMA DeployerClassChoice ==
    ASSUME NEW fw \in Frameworks, NEW proto \in {"v1", "v2"}
    PROVE  LET cls == DeployerClass(fw, proto) IN
           /\ (cls = "TorchServeKFDeployer") = (fw = "pytorch")
           /\ (cls = "SKLearnV2KFDeployer") = (fw = "sklearn" /\ proto = "v2")
           /\ (cls = "SKLearnV1KFDeployer") = (fw = "sklearn" /\ proto = "v1")
<1>1. CASE fw = "sklearn"
  BY <1>1 DEF DeployerClass
<1>2. CASE fw = "pytorch"
  BY <1>2 DEF DeployerClass
<1>3. CASE fw = "tf_keras"
  BY <1>3 DEF DeployerClass
<1>. QED
  BY <1>1, <1>2, <1>3 DEF Frameworks

(***************************************************************************)
(* End to end, for every registry laid out as converters/fate/ is, any     *)
(* archive and any sequence of infer_converter, infer_deployer, run and    *)
(* direct converter calls: a live service serves the component FATEModel  *)
(* selected (fate_model.py 118-131), converted to the framework it chose   *)
(* and loaded as its record requires (fate_converter.py 42-49), by the     *)
(* deployer class get_kfserving_deployer picks for that framework and the  *)
(* requested protocol (deployers/kfserving/__init__.py 35-47).             *)
(***************************************************************************)
THEOREM ServedModelCorrect == EngSpec => []ServedIsSelectedModel
<1>1. EngInv => ServedIsSelectedModel
  <2> SUFFICES ASSUME EngInv, service # NoService
               PROVE  ServedIsSelectedModel
    BY DEF ServedIsSelectedModel
  <2>1. pc = "ready" /\ GoodDeployment(service)
    BY DEF EngInv, EngCaches
  <2>2. /\ target_framework \in Frameworks
        /\ protocol \in {"v1", "v2"}
    BY <2>1 DEF EngInv, ConvInv, ReadyInv, FrameworkOf, Frameworks, EngTypeOK
  <2>3. /\ service.model.framework = target_framework
        /\ service.model.src = model_dict.src
        /\ service.model.loader = RecordLoader(model_dict)
        /\ service.cls = DeployerClass(target_framework, protocol)
    BY <2>1 DEF GoodDeployment, GoodModel
  <2>. QED
    BY <2>2, <2>3, DeployerClassChoice DEF ServedIsSelectedModel
<1>. QED
  BY <1>1, AlwaysEngInv, PTL

=============================================================================
