--------------------------- MODULE MC_FateModel ---------------------------
(* FATEModel construction on archives of up to two components drawn from  *)
(* the two supported module types and one unsupported one (DataIO).       *)
EXTENDS FateModel

MC_ModuleTypes == {"HomoLR", "HomoNN", "DataIO"}
MC_ConfigTypes == {"pytorch", "keras"}
MC_MaxComponents == 2
=============================================================================
