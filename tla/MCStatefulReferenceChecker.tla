---------------------- MODULE MCStatefulReferenceChecker ----------------------
(***************************************************************************)
(* The checker on the program and the entities of MCReferences; the number *)
(* of keys bounds the states.                                              *)
(***************************************************************************)
EXTENDS StatefulReferenceChecker, MCReferences

(* No action reads the last response, so states that differ only in it have *)
(* the same successors; every step is still checked against the properties. *)
checkerView == <<checkerVars, installed>>
=============================================================================
