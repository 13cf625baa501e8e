--------------------------- MODULE MCImprovement ---------------------------
(***************************************************************************)
(* Two objects in four layouts: one file with both, a file for each, two   *)
(* files that declare the same object, and one file that does.             *)
(***************************************************************************)
EXTENDS Improvement

CONSTANTS web, api

SomeLayouts == {<< <<web, api>> >>, << <<web>>, <<api>> >>, << <<web>>, <<api, web>> >>, << <<web, web>> >>}
=============================================================================
