-------------------------------- MODULE MCKexGss --------------------------------
(***************************************************************************)
(* Group requests for KexGss.  Ours: kexgssgex_client asks for the limits  *)
(* of dh.h and what dh_estimate says, which lies between them.  Any: the   *)
(* limits and sizes clients of another make may ask for.                   *)
(***************************************************************************)
EXTENDS KexGss

OurProposals == {<<DH_GRP_MIN, n, DH_GRP_MAX>> : n \in {2, 4}}
AnyProposals == {<<min, n, max>> : min \in 1 .. 2, n \in 1 .. 3, max \in 3 .. 5}
================================================================================
