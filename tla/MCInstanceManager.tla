------------------------- MODULE MCInstanceManager -------------------------
(***************************************************************************)
(* Three instances of one project.  Instances of InstanceManager share no  *)
(* state but the table, so all interleavings of three histories are ample. *)
(***************************************************************************)
EXTENDS InstanceManager

CONSTANTS p1, s1, s2, s3

MCProjects == {p1}
MCSlots == {s1, s2, s3}
=============================================================================
