------------------------- MODULE MC_FateConverter -------------------------
(* The converter registry as it is in converters/fate/: one sklearn and    *)
(* one pytorch module, each also exposing the imported base class; there  *)
(* is no tf_keras package.                                                *)
EXTENDS FateConverter, TLC

MC_ModuleTypes == {"HomoLR", "HomoNN", "DataIO"}
MC_ConfigTypes == {"pytorch", "keras"}
MC_MaxComponents == 2
MC_Packages == ("sklearn" :> {"logistic_regression"}) @@
               ("pytorch" :> {"nn"})
MC_Members == ("logistic_regression" :> {"LRComponentConverter",
                                          "ComponentConverterBase"}) @@
              ("nn" :> {"NNComponentConverter", "ComponentConverterBase"})
MC_Targets == ("LRComponentConverter" :> {"HomoLR"}) @@
              ("NNComponentConverter" :> {"HomoNN"}) @@
              ("ComponentConverterBase" :> {})
=============================================================================
