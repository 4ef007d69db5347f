------------------------ MODULE FateConverterProofs ------------------------
(***************************************************************************)
(* Proofs about FATEConverter on a constructed FATEModel, for every        *)
(* registry laid out as converters/fate/ is (ConverterLayoutAssumption)    *)
(* and every bound on the archive.                                         *)
(***************************************************************************)
EXTENDS FateConverter, FateModelProofs

(***************************************************************************)
(* The inductive invariant.  Besides the types it records what the         *)
(* converter relies on and the code never re-checks: the converter is only *)
(* built on a ready FATEModel (which no later step changes), the class     *)
(* dispatch returned is one the scan of the framework's package matched,   *)
(* and a converted or saved model exists only once dispatch succeeded.     *)
(***************************************************************************)
ConvInv ==
    /\ TypeInv
    /\ ConvTypeOK
    /\ ReadyInv
    /\ conv_pc # "none" => pc = "ready"
    /\ conv_pc = "ready" =>
           component_converter \in Matches(Canonical(target_framework),
                                           model_dict.type)
    /\ converted_model # NoModel => conv_pc = "ready"
    /\ saved # NoModel => conv_pc = "ready"
    /\ ConvertedFaithful

\* No step of _do_init is taken once it has returned normally.
LEMMA FMNextNotReady == FMNext => pc # "ready"
BY DEF FMNext, UseDict, UsePath, MissingModel, Download, ReadComponent,
       EndScan, Infer

\* A class the scan matches is a class of the registry.
LEMMA MatchesAreClasses ==
    ASSUME NEW pkg, NEW t PROVE Matches(pkg, t) \subseteq Classes
BY DEF Matches, Classes, Files

(***************************************************************************)
(* What dispatch returns on a ready model, given how converters/fate/ is   *)
(* laid out: a class targeting the model's type, the LR converter for      *)
(* HomoLR and the NN converter for HomoNN, and the NN converter only when  *)
(* the framework is pytorch, which fate_model.py 128-129 picks only for a  *)
(* pytorch config.                                                         *)
(***************************************************************************)
LEMMA DispatchFacts ==
    ASSUME ConvInv, conv_pc = "ready"
    PROVE  /\ model_dict \in Record
           /\ model_dict.type \in Targets[component_converter]
           /\ component_converter = "NNComponentConverter" =>
                  model_dict.cfg = "pytorch"
           /\ model_dict.type = "HomoLR" =>
                  component_converter = "LRComponentConverter"
           /\ model_dict.type # "HomoLR" =>
                  component_converter = "NNComponentConverter"
<1>. DEFINE pkg == Canonical(target_framework)
            cc == component_converter
<1>1. /\ pc = "ready"
      /\ model_dict \in Record
      /\ model_dict.type \in SUPPORTED_MODELS
      /\ target_framework = FrameworkOf(model_dict)
      /\ cc \in Matches(pkg, model_dict.type)
  BY DEF ConvInv, ReadyInv
<1>2. pkg \in DOMAIN Packages
  BY <1>1 DEF Matches
<1>3. PICK f \in Packages[pkg] : cc \in Members[f]
                                /\ model_dict.type \in Targets[cc]
  BY <1>1, <1>2 DEF Matches
<1>4. cc \in DOMAIN Targets
  BY <1>2, <1>3, RegistryAssumption DEF Files
<1>5. cc = "NNComponentConverter" => pkg = "pytorch"
  BY <1>2, <1>3, ConverterLayoutAssumption
<1>6. pkg = "pytorch" => model_dict.cfg = "pytorch"
  BY <1>1 DEF Canonical, FrameworkOf
<1>7. model_dict.type \in {"HomoLR", "HomoNN"}
  BY <1>1 DEF SUPPORTED_MODELS
<1>. QED
  BY <1>1, <1>3, <1>4, <1>5, <1>6, <1>7, ConverterLayoutAssumption

\* Hence the converter's convert() loads the record the way it calls for.
LEMMA DispatchLoader ==
    ASSUME ConvInv, conv_pc = "ready"
    PROVE  LoaderOf(component_converter, model_dict) = RecordLoader(model_dict)
<1>0. model_dict.fed \in BOOLEAN
  BY DispatchFacts DEF Record
<1>1. CASE model_dict.type = "HomoLR"
  <2>1. component_converter = "LRComponentConverter"
    BY <1>1, DispatchFacts
  <2>2. LoaderOf(component_converter, model_dict) = "sklearn_lr"
    BY <2>1 DEF LoaderOf
  <2>3. RecordLoader(model_dict) = "sklearn_lr"
    BY <1>0, <1>1 DEF RecordLoader
  <2>. QED
    BY <2>2, <2>3
<1>2. CASE model_dict.type # "HomoLR" /\ model_dict.fed
  <2>1. component_converter = "NNComponentConverter"
    BY <1>2, DispatchFacts
  <2>2. LoaderOf(component_converter, model_dict) = "fed_checkpoint"
    BY <1>0, <1>2, <2>1 DEF LoaderOf
  <2>3. RecordLoader(model_dict) = "fed_checkpoint"
    BY <1>0, <1>2 DEF RecordLoader
  <2>. QED
    BY <2>2, <2>3
<1>3. CASE model_dict.type # "HomoLR" /\ ~model_dict.fed
  <2>1. component_converter = "NNComponentConverter"
    BY <1>3, DispatchFacts
  <2>2. LoaderOf(component_converter, model_dict) = "torch_load"
    BY <1>0, <1>3, <2>1 DEF LoaderOf
  <2>3. RecordLoader(model_dict) = "torch_load"
    BY <1>0, <1>3 DEF RecordLoader
  <2>. QED
    BY <2>2, <2>3
<1>. QED
  BY <1>1, <1>2, <1>3

\* The converter starts unbuilt on a FATEModel being constructed.
LEMMA InitConvInv == Init => ConvInv
<1> SUFFICES ASSUME Init PROVE ConvInv
  OBVIOUS
<1>1. TypeInv /\ ReadyInv
  BY InitTypeInv, InitReadyInv DEF Init
<1>2. ConvTypeOK
  BY DEF Init, ConvTypeOK, NoConverter, NoError
<1>. QED
  BY <1>1, <1>2 DEF Init, ConvInv, ConvertedFaithful

(***************************************************************************)
(* Every step keeps ConvInv.  A construction step happens only while the   *)
(* converter is unbuilt (it needs a ready model, and _do_init never        *)
(* leaves "ready"), so no converter fact can be disturbed by it; a         *)
(* converter step leaves the FATEModel alone.                              *)
(***************************************************************************)
LEMMA NextConvInv == ConvInv /\ [Next]_vars => ConvInv'
<1> SUFFICES ASSUME ConvInv, [Next]_vars PROVE ConvInv'
  OBVIOUS
<1>1. CASE FMNext /\ UNCHANGED conv_vars
  <2>1. TypeInv' /\ ReadyInv'
    BY <1>1, NextTypeInv, NextReadyInv DEF ConvInv
  <2>2. conv_pc = "none" /\ converted_model = NoModel /\ saved = NoModel
    BY <1>1, FMNextNotReady DEF ConvInv
  <2>. QED
    BY <1>1, <2>1, <2>2 DEF ConvInv, ConvTypeOK, ConvertedFaithful, conv_vars
<1>2. CASE GetComponentConverter
  <2>. DEFINE pkg == Canonical(target_framework)
              t == model_dict.type
  <2>1. UNCHANGED fm_vars /\ UNCHANGED <<converted_model, saved>>
    BY <1>2 DEF GetComponentConverter
  <2>2. TypeInv' /\ ReadyInv'
    BY <2>1 DEF ConvInv, TypeInv, FMTypeOK, ReadyInv, fm_vars
  <2>3. conv_pc = "none" /\ pc = "ready"
    BY <1>2 DEF GetComponentConverter
  <2>4. converted_model = NoModel /\ saved = NoModel
    BY <2>3 DEF ConvInv
  <2>5. CASE Matches(pkg, t) = {}
    <3>1. /\ conv_pc' = "failed" /\ component_converter' = component_converter
          /\ conv_error' \in {"ModuleNotFoundError", "RuntimeError"}
      BY <1>2, <2>5 DEF GetComponentConverter
    <3>. QED
      BY <2>1, <2>2, <2>3, <2>4, <3>1
         DEF ConvInv, ConvTypeOK, ConvertedFaithful, fm_vars
  <2>6. CASE Matches(pkg, t) # {}
    <3>1. /\ conv_pc' = "ready" /\ conv_error' = conv_error
          /\ component_converter' \in Matches(pkg, t)
      BY <1>2, <2>6 DEF GetComponentConverter
    <3>2. component_converter' \in Classes
      BY <3>1, MatchesAreClasses
    <3>. QED
      BY <2>1, <2>2, <2>3, <2>4, <3>1, <3>2
         DEF ConvInv, ConvTypeOK, ConvertedFaithful, fm_vars
  <2>. QED
    BY <2>5, <2>6
<1>3. CASE Convert
  <2>1. UNCHANGED fm_vars /\ UNCHANGED <<conv_pc, component_converter, saved>>
        /\ conv_error' = NoError
    BY <1>3 DEF Convert
  <2>2. TypeInv' /\ ReadyInv'
    BY <2>1 DEF ConvInv, TypeInv, FMTypeOK, ReadyInv, fm_vars
  <2>3. conv_pc = "ready" /\ pc = "ready"
    BY <1>3 DEF Convert, ConvInv
  <2>4. /\ model_dict \in Record
        /\ target_framework = FrameworkOf(model_dict)
        /\ FrameworkOf(model_dict) \in Frameworks
    BY <2>3 DEF ConvInv, ReadyInv, FrameworkOf, Frameworks
  <2>5. converted_model' = [framework |-> target_framework,
                            src |-> model_dict.src,
                            loader |-> RecordLoader(model_dict)]
    BY <1>3, <2>3, DispatchLoader DEF Convert
  <2>6. converted_model' \in ConvertedModel
    BY <2>4, <2>5 DEF ConvertedModel, Record, RecordLoader, Loaders
  <2>. QED
    BY <2>1, <2>2, <2>3, <2>5, <2>6
       DEF ConvInv, ConvTypeOK, ConvertedFaithful, fm_vars, NoError
<1>4. CASE SaveModel
  <2>1. UNCHANGED fm_vars
        /\ UNCHANGED <<conv_pc, component_converter, converted_model>>
        /\ conv_error' \in {NoError, "RuntimeError"}
        /\ saved' \in {saved, converted_model}
        /\ (converted_model = NoModel => saved' = saved)
    BY <1>4 DEF SaveModel
  <2>2. TypeInv' /\ ReadyInv'
    BY <2>1 DEF ConvInv, TypeInv, FMTypeOK, ReadyInv, fm_vars
  <2>. QED
    BY <2>1, <2>2 DEF ConvInv, ConvTypeOK, ConvertedFaithful, fm_vars
<1>5. CASE UNCHANGED vars
  BY <1>5 DEF vars, fm_vars, conv_vars, ConvInv, TypeInv, FMTypeOK,
              ReadyInv, ConvTypeOK, ConvertedFaithful
<1>. QED
  BY <1>1, <1>2, <1>3, <1>4, <1>5 DEF Next

\* ConvInv holds in every state of every behaviour.
LEMMA AlwaysConvInv == Spec => []ConvInv
BY InitConvInv, NextConvInv, PTL DEF Spec

(***************************************************************************)
(* Type correctness of FATEConverter on a FATEModel under construction:    *)
(* get_component_converter returns a class of the registry, and convert()  *)
(* and save_model() only ever hold a model of a known framework, loaded by *)
(* one of the known loaders, from a position of the archive.               *)
(***************************************************************************)
THEOREM ConverterTypeCorrect == Spec => []TypeOK
<1>1. ConvInv => TypeOK
  BY DEF ConvInv, TypeInv, TypeOK
<1>. QED
  BY <1>1, AlwaysConvInv, PTL

(***************************************************************************)
(* For every registry laid out as converters/fate/ is: the converter       *)
(* get_component_converter (fate_converter.py 51-74) returns targets the   *)
(* model's type, and the NN converter is only returned for a pytorch       *)
(* config, so nn.py's non-pytorch branch (line 30) is unreachable.         *)
(***************************************************************************)
THEOREM DispatchAccepts == Spec => []DispatchedConverterAccepts
<1>1. ConvInv => DispatchedConverterAccepts
  BY DispatchFacts DEF DispatchedConverterAccepts
<1>. QED
  BY <1>1, AlwaysConvInv, PTL

(***************************************************************************)
(* What convert() (fate_converter.py 42-49) produces and save_model()      *)
(* (converter_base.py 55-58) stores is the selected component of the       *)
(* archive, with the trained model's framework, loaded the way its record  *)
(* calls for (a federated checkpoint exactly when api_version > 0).        *)
(***************************************************************************)
THEOREM ConversionFaithful == Spec => []ConvertedFaithful
<1>1. ConvInv => ConvertedFaithful
  BY DEF ConvInv
<1>. QED
  BY <1>1, AlwaysConvInv, PTL

=============================================================================
