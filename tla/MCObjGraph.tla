---- MODULE MCObjGraph ----
(***************************************************************************)
(* ObjGraph for TLC.  The oids are numbers, handed out from the lowest, so *)
(* there is nothing to replace and no symmetry: the configurations give    *)
(* the bounds.                                                             *)
(***************************************************************************)
EXTENDS ObjGraph
====
