---------------------------- MODULE P3LifecycleMC ----------------------------
(***************************************************************************)
(* The P3 manoeuvre for TLC.  Track ids are only compared with each other, *)
(* and the properties are actions: one order of the ids stands for all.    *)
(***************************************************************************)
EXTENDS P3Lifecycle, TLC

AnyOrder == Permutations(Ids)
=============================================================================
