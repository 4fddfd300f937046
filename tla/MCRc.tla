-------------------------------- MODULE MCRc --------------------------------
(***************************************************************************)
(* Two threads; three objects, enough for a tree of depth two or a child   *)
(* that two nodes share; four references, one more than such a tree needs. *)
(* The values are in the configurations.                                   *)
(***************************************************************************)
EXTENDS Rc

(* "Count is inited to 0" (include/crc.h:200), said of crc_new and
   crc_with_deleter.  The code stores 1. *)
CountStartsAtZero ==
  [][\A o \in Object : mem[o] = "unborn" /\ mem'[o] = "live" => count'[o] = 0]_vars
=============================================================================
