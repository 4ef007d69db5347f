--------------------------- MODULE FateConverter ---------------------------
(***************************************************************************)
(* The FATEConverter (converters/fate/fate_converter.py, converter_base.py)*)
(* working on a constructed FATEModel, with the component converters it    *)
(* discovers (converters/fate/<framework>/*.py).                           *)
(*                                                                         *)
(* get_component_converter imports the package of the canonical framework, *)
(* lists its files in os.listdir order (unspecified), and returns the      *)
(* first class of a file that is a subclass of ComponentConverterBase and  *)
(* names the model's type in get_target_modules().  Every converter module *)
(* imports ComponentConverterBase, so the base class (target list []) is a *)
(* member of each of them too.  The registry is a constant: Packages maps  *)
(* a framework package to its files, Members a file to the converter       *)
(* classes inspect.getmembers finds in it, Targets a class to its target   *)
(* module types.                                                           *)
(***************************************************************************)
EXTENDS FateModel

CONSTANTS
    Packages,   \* [package name -> SUBSET file name]
    Members,    \* [file name -> SUBSET class name]
    Targets,    \* [class name -> SUBSET module type]
    NoModel     \* converted_model=None

Files == UNION {Packages[p] : p \in DOMAIN Packages}
Classes == UNION {Members[f] : f \in Files}

ASSUME RegistryAssumption ==
    /\ \A f \in Files : Members[f] \subseteq DOMAIN Targets
    /\ \A c \in DOMAIN Targets : Targets[c] \subseteq ModuleTypes

(***************************************************************************)
(* The registry as converters/fate/ lays it out: only LRComponentConverter *)
(* (sklearn/logistic_regression.py 22-23) targets HomoLR, only             *)
(* NNComponentConverter (pytorch/nn.py 23-24) targets HomoNN, and nn.py is *)
(* a file of the pytorch package.  Other classes and packages may be      *)
(* added.                                                                  *)
(***************************************************************************)
ASSUME ConverterLayoutAssumption ==
    /\ \A c \in DOMAIN Targets :
           /\ "HomoLR" \in Targets[c] => c = "LRComponentConverter"
           /\ "HomoNN" \in Targets[c] => c = "NNComponentConverter"
    /\ \A p \in DOMAIN Packages : \A f \in Packages[p] :
           "NNComponentConverter" \in Members[f] => p = "pytorch"

NoConverter == "none"

\* How convert() produces the native model: LogisticRegression built from
\* the weights, torch.load, FedLightModule.load_from_checkpoint, or the
\* record itself (ComponentConverterBase.convert).
Loaders == {"sklearn_lr", "torch_load", "fed_checkpoint", "identity"}

ConvertedModel == [framework : Frameworks, src : 0..MaxComponents,
                   loader : Loaders]

ASSUME NoModelAssumption == NoModel \notin ConvertedModel

VARIABLES
    conv_pc,              \* none: not built, ready, failed (constructor raised)
    component_converter,  \* class returned by get_component_converter
    converted_model,      \* self.converted_model
    saved,                \* what model_storage.save last wrote
    conv_error            \* the exception the last converter call raised

conv_vars == <<conv_pc, component_converter, converted_model, saved,
               conv_error>>
vars == <<fm_vars, conv_vars>>

\* fate_converter.py lines 53-58: framework aliases, others kept as they are.
Canonical(fw) ==
    CASE fw \in {"tensorflow", "tf", "tf_keras"} -> "tf_keras"
      [] fw \in {"pytorch", "torch"} -> "pytorch"
      [] fw \in {"sklearn", "scikit-learn"} -> "sklearn"
      [] OTHER -> fw

\* Mutant: the scan returns any converter class, without comparing the
\* target modules with the model type.
MatchesAnyClass(pkg, t) ==
    IF pkg \in DOMAIN Packages
    THEN UNION {Members[f] : f \in Packages[pkg]}
    ELSE {}

\* Lines 59-73: the classes the scan can return for module type t; none
\* when the package does not exist (import_module raises).
Matches(pkg, t) ==
    IF pkg \in DOMAIN Packages
    THEN {c \in UNION {Members[f] : f \in Packages[pkg]} : t \in Targets[c]}
    ELSE {}

\* Mutant: nn.py ignores the api_version marker and always uses torch.load.
LoaderOfIgnoringVersion(c, r) ==
    IF c = "LRComponentConverter" THEN "sklearn_lr"
    ELSE IF c = "NNComponentConverter" THEN "torch_load"
    ELSE "identity"

\* How each converter class turns the record into a native model
\* (sklearn/logistic_regression.py 25-42, pytorch/nn.py 26-39,
\* component_converter.py 27-28).
LoaderOf(c, r) ==
    IF c = "LRComponentConverter" THEN "sklearn_lr"
    ELSE IF c = "NNComponentConverter"
         THEN IF r.fed THEN "fed_checkpoint" ELSE "torch_load"
    ELSE "identity"

ConvTypeOK ==
    /\ conv_pc \in {"none", "ready", "failed"}
    /\ component_converter \in Classes \cup {NoConverter}
    /\ converted_model \in ConvertedModel \cup {NoModel}
    /\ saved \in ConvertedModel \cup {NoModel}
    /\ conv_error \in {NoError, "ModuleNotFoundError", "RuntimeError"}

TypeOK == FMTypeOK /\ ConvTypeOK

Init ==
    /\ FMInit
    /\ conv_pc = "none"
    /\ component_converter = NoConverter
    /\ converted_model = NoModel
    /\ saved = NoModel
    /\ conv_error = NoError

(***************************************************************************)
(* FATEConverter.__init__ (34-40): ConverterBase.__init__ builds the model *)
(* storage for trained_model.preferred_framework() (21-50), then           *)
(* get_component_converter (51-74) imports the package of the canonical    *)
(* framework (ModuleNotFoundError when there is none) and scans it; no     *)
(* matching class raises RuntimeError.  Which match comes first depends on *)
(* listdir order, so any match may be returned.                            *)
(***************************************************************************)
GetComponentConverter ==
    LET pkg == Canonical(target_framework)
        t == model_dict.type
    IN
    /\ pc = "ready"
    /\ conv_pc = "none"
    /\ \/ /\ Matches(pkg, t) = {}
          /\ conv_pc' = "failed"
          /\ conv_error' = IF pkg \notin DOMAIN Packages
                               THEN "ModuleNotFoundError" ELSE "RuntimeError"
          /\ UNCHANGED component_converter
       \/ /\ \E c \in Matches(pkg, t) : component_converter' = c
          /\ conv_pc' = "ready"
          /\ UNCHANGED conv_error
    /\ UNCHANGED <<converted_model, saved>>
    /\ UNCHANGED fm_vars

(***************************************************************************)
(* FATEConverter.convert (42-49) with the component converter's convert.   *)
(* The `model_dict is None` branch (43-44) cannot be taken: a constructed  *)
(* FATEModel always holds a record.  nn.py 29-30 raises for a config that  *)
(* is not pytorch; the guard below is that check, and the invariant        *)
(* DispatchedConverterAccepts shows the raising branch is never reached.   *)
(***************************************************************************)
\* Mutant: convert() stores the component converter's output without
\* wrapping it in a ConvertedModel.
ConvertUnwrapped ==
    /\ conv_pc = "ready"
    /\ component_converter = "NNComponentConverter" =>
            model_dict.cfg = "pytorch"
    /\ converted_model' = model_dict
    /\ conv_error' = NoError
    /\ UNCHANGED <<conv_pc, component_converter, saved>>
    /\ UNCHANGED fm_vars

Convert ==
    /\ conv_pc = "ready"
    /\ component_converter = "NNComponentConverter" =>
            model_dict.cfg = "pytorch"
    /\ converted_model' = [framework |-> target_framework,
                           src |-> model_dict.src,
                           loader |-> LoaderOf(component_converter, model_dict)]
    /\ conv_error' = NoError
    /\ UNCHANGED <<conv_pc, component_converter, saved>>
    /\ UNCHANGED fm_vars

\* BaseModelStorage.save (model_storage/base.py 29-40): the framework names
\* it has a serializer for; any other raises NotImplementedError.
StorageFrameworks == {"sklearn", "scikit-learn", "pytorch", "torch",
                      "tensorflow", "tf", "tf_keras"}

(***************************************************************************)
(* ConverterBase.save_model (55-58) with BaseModelStorage.save             *)
(* (model_storage/base.py 23-42): raises before any convert, otherwise     *)
(* dumps the model with the serializer of the storage's framework, which   *)
(* is the model's preferred framework and always one save() knows.         *)
(***************************************************************************)
SaveModel ==
    /\ conv_pc = "ready"
    /\ \/ /\ converted_model = NoModel
          /\ conv_error' = "RuntimeError"
          /\ UNCHANGED saved
       \/ /\ converted_model # NoModel
          /\ converted_model.framework \in StorageFrameworks
          /\ saved' = converted_model
          /\ conv_error' = NoError
    /\ UNCHANGED <<conv_pc, component_converter, converted_model>>
    /\ UNCHANGED fm_vars

Next ==
    \/ FMNext /\ UNCHANGED conv_vars
    \/ GetComponentConverter
    \/ Convert
    \/ SaveModel

Spec == Init /\ [][Next]_vars

-----------------------------------------------------------------------------
(***************************************************************************)
(* The converter that dispatch returns can convert the model: it names the *)
(* model's type among its target modules (so it is never the bare          *)
(* ComponentConverterBase, whose convert returns the dict unchanged), and  *)
(* the NN converter only ever sees a pytorch config, so nn.py line 30      *)
(* (which would raise an AttributeError building its message) is never   *)
(* reached.  Ties FATEModel's framework choice (fate_model.py 125-131) to  *)
(* the package scan (fate_converter.py 52-73) and nn.py line 29.           *)
(***************************************************************************)
DispatchedConverterAccepts ==
    conv_pc = "ready" =>
        /\ model_dict.type \in Targets[component_converter]
        /\ component_converter = "NNComponentConverter" =>
               model_dict.cfg = "pytorch"

\* The loader a selected record calls for: the LR weights for HomoLR, a
\* federated checkpoint for an NN with api_version > 0, torch.load otherwise.
RecordLoader(r) ==
    IF r.type = "HomoLR" THEN "sklearn_lr"
    ELSE IF r.fed THEN "fed_checkpoint" ELSE "torch_load"

(***************************************************************************)
(* What the storage receives is the model the archive holds: a saved or    *)
(* converted model has the trained model's framework, comes from the       *)
(* component FATEModel selected, and was loaded the way its record calls   *)
(* for (a federated checkpoint exactly when api_version > 0).              *)
(***************************************************************************)
ConvertedFaithful ==
    \A m \in {converted_model, saved} \ {NoModel} :
        /\ m.framework = target_framework
        /\ m.src = model_dict.src
        /\ m.loader = RecordLoader(model_dict)

(***************************************************************************)
(* spec.md 4.3 and 8.2: when no converter is registered for the model's    *)
(* (framework, component type), dispatch fails with the lookup error of    *)
(* fate_converter.py line 74 naming both.  Expected to fail: a HomoNN      *)
(* model with a non-pytorch config gets framework tf_keras, there is no    *)
(* converters/fate/tf_keras package, and import_module (line 60) raises    *)
(* ModuleNotFoundError, which names neither the type nor the scan.         *)
(***************************************************************************)
DispatchFailureIsLookupError ==
    conv_pc = "failed" => conv_error = "RuntimeError"

=============================================================================
