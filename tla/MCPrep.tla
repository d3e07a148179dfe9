------------------------------- MODULE MCPrep -------------------------------
(* Components of all kinds, with a mirror and the archive's URL. *)
EXTENDS Prep

MCLocations == <<"trusted", "untrusted">>
MCComponents == [sig : BOOLEAN, scm : BOOLEAN]
=============================================================================
