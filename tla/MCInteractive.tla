----------------------------- MODULE MCInteractive -----------------------------
(***************************************************************************)
(* Two connections of Interactive, of different processes, the first of    *)
(* which has started a second process.                                     *)
(***************************************************************************)
EXTENDS Interactive, TLC

CONSTANTS a, b, p1, p2, q

Apart == (a :> {<<p1>>, <<p1, p2>>, <<>>}) @@ (b :> {<<q>>, <<>>})
================================================================================
