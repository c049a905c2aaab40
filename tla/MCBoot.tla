--------------------------------- MODULE MCBoot ---------------------------------
(* Boot with three instances, one of which leaves migrating to the others. *)
EXTENDS Boot
CONSTANTS i1, i2, i3
=============================================================================
