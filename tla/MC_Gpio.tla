------------------------------ MODULE MC_Gpio ------------------------------
(***************************************************************************)
(* GpioPull for TLC: two processes and two pins in one function register,  *)
(* one of them also used through sysfs.                                    *)
(***************************************************************************)
EXTENDS GpioPull, TLC

OneBank == {Pins}
Symmetry == Permutations(Handles)
=============================================================================
