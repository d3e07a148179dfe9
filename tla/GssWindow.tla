------------------------------- MODULE GssWindow -------------------------------
(***************************************************************************)
(* What the sequence window of a GSS context promises, stated over the     *)
(* true numbers of the tokens, without width, wrap-around or slots: the    *)
(* context remembers the QUEUE_LENGTH highest numbers it took (-1 stands   *)
(* for the position before the first token) and judges a token by them.    *)
(***************************************************************************)
EXTENDS Integers, FiniteSets, FiniteSetsExt

CONSTANTS QUEUE_LENGTH, Horizon

VARIABLES do_replay, do_sequence, window, busy, cur, ret

vars == <<do_replay, do_sequence, window, busy, cur, ret>>

ReplayOnly == do_replay /\ ~do_sequence

Highest(S) == IF Cardinality(S) > QUEUE_LENGTH THEN S \ {Min(S)} ELSE S

Init ==
    /\ do_replay \in BOOLEAN /\ do_sequence \in BOOLEAN
    /\ window = {-1}
    /\ busy = FALSE /\ cur = 0 /\ ret = "none"

Call(n) ==
    /\ ~busy
    /\ busy' = TRUE
    /\ cur' = n
    /\ UNCHANGED <<do_replay, do_sequence, window, ret>>

Take(status) == window' = Highest(window \cup {cur}) /\ ret' = status
Leave(status) == window' = window /\ ret' = status

Judge ==
    /\ busy
    /\ busy' = FALSE
    /\ \/ ~do_replay /\ ~do_sequence /\ Leave("COMPLETE")
       \/ /\ do_replay \/ do_sequence
          /\ \/ cur = Max(window) + 1 /\ Take("COMPLETE")
             \/ /\ cur > Max(window) + 1
                /\ Take(IF ReplayOnly THEN "COMPLETE" ELSE "GAP_TOKEN")
             \/ /\ cur < Min(window)
                /\ Leave(IF ReplayOnly THEN "OLD_TOKEN" ELSE "UNSEQ_TOKEN")
             \/ cur \in window /\ Leave("DUPLICATE_TOKEN")
             \/ /\ cur > Min(window) /\ cur < Max(window) /\ cur \notin window
                /\ Take(IF ReplayOnly THEN "COMPLETE" ELSE "UNSEQ_TOKEN")
    /\ UNCHANGED <<do_replay, do_sequence, cur>>

Next == Judge \/ \E n \in 0 .. Horizon - 1 : Call(n)

Spec == Init /\ [][Next]_vars /\ WF_vars(Judge)
================================================================================
