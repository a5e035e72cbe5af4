-------------------------- MODULE RBWeightInertiaParam --------------------------
(***************************************************************************)
(* The supported robot models and the limits of their loads.  A model is a  *)
(* pair <<family, variant>>, the name before and after the first '-'.       *)
(* Limits are in grams, in 10^-5 kgm^2 and in millimetres.                  *)
(***************************************************************************)
EXTENDS Integers

NoModel == <<"", "">>     \* the empty rb_model

Named(family, arms, suffixes) == {<<family, <<a, s>>>> : a \in arms, s \in suffixes}

rb_model_list ==
  UNION {Named("GX4", {"C251"}, {"S", "C"}),
         Named("GX4", {"C301"}, {"S", "SM", "C", "CM"}),
         Named("GX4", {"C351"}, {"S", "SM", "C", "CM", "S-L", "C-L", "S-R", "C-R"}),
         Named("GX8", {"C452", "C453", "C552", "C553", "C652", "C653"}, {"S", "SR", "C", "CR"}),
         Named("RS4", {"C351"}, {"S", "C"}),
         Named("RS6", {"C552"}, {"S", "C"}),
         Named("C8",  {"C901", "C1401"}, {"S", "SR", "C", "CR"}),
         Named("C12", {"C1401"}, {"S", "C"}),
         Named("CX4", {"A601"}, {"S", "SR", "C", "CR"}),
         Named("CX7", {"A701", "A901"}, {"S", "SR", "C", "CR"})}

RB_Maxweight_List ==
  [GX4 |-> 4000, GX8 |-> 8000, RS4 |-> 4000, RS6 |-> 6000,
   C8 |-> 8000, C12 |-> 12000, CX4 |-> 5000, CX7 |-> 7000]
RB_Maxinertia_List ==
  [GX4 |-> 5000, GX8 |-> 16000, RS4 |-> 5000, RS6 |-> 12000,
   C8 |-> 15000, C12 |-> 20000, CX4 |-> 10000, CX7 |-> 15000]
RB_Eccentricity_List ==
  [GX4 |-> 150, GX8 |-> 150, RS4 |-> 100, RS6 |-> 100,
   C8 |-> 300, C12 |-> 300, CX4 |-> 200, CX7 |-> 300]

Get_SpecificRBModelName(rb_model) == rb_model[1]

(* std::map::operator[] of a missing name is 0. *)
Loaded(list, rb_model) ==
  LET name == Get_SpecificRBModelName(rb_model)
  IN IF name \in DOMAIN list THEN list[name] ELSE 0

Load_MaxWeight(rb_model)    == Loaded(RB_Maxweight_List, rb_model)
Load_MaxInertia(rb_model)   == Loaded(RB_Maxinertia_List, rb_model)
Load_Eccentricity(rb_model) == Loaded(RB_Eccentricity_List, rb_model)

CanExc_LoadParam(rb_model) == rb_model \in rb_model_list

(* A variant: the name is stored before it is looked up. *)
StoreRBModel(rb_model, set_rb_model) == set_rb_model

(* The rb_model after Set_RBModel(set_rb_model), which fails for other names. *)
Set_RBModel(rb_model, set_rb_model) ==
  IF set_rb_model \in rb_model_list THEN set_rb_model ELSE rb_model
=================================================================================
