----------------------------- MODULE MC_HSEngine -----------------------------
EXTENDS HSEngine, TLC

MC_ModuleTypes == {"HomoLR", "HomoNN", "DataIO"}
MC_ConfigTypes == {"pytorch", "keras"}
MC_MaxComponents == 1
MC_MaxCalls == 3

MC_Packages == ("sklearn" :> {"logistic_regression"}) @@ ("pytorch" :> {"nn"})
MC_Members ==
    ("logistic_regression" :> {"LRComponentConverter", "ComponentConverterBase"})
    @@ ("nn" :> {"NNComponentConverter", "ComponentConverterBase"})
MC_Targets ==
    ("LRComponentConverter" :> {"HomoLR"})
    @@ ("NNComponentConverter" :> {"HomoNN"})
    @@ ("ComponentConverterBase" :> {})
=============================================================================
