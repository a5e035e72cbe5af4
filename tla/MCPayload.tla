-------------------------------- MODULE MCPayload --------------------------------
(***************************************************************************)
(* Payload with small constants for TLC: two models and a name that is none *)
(* (of an example in readme.md), loads within the limits of one, of both    *)
(* and of none.                                                             *)
(***************************************************************************)
EXTENDS Payload

GX4 == <<"GX4", <<"C251", "S">>>>
C12 == <<"C12", <<"C1401", "S">>>>

Misspelt == <<"GX4C", <<"251", "S">>>>

ThreeNames == {GX4, C12, Misspelt}
TwoNumbers == {7, 300}
SomeLoads == {-1, 0, 4000, 12000, 20001, NaN}
=================================================================================
