------------------------------ MODULE MCDtlogin ------------------------------
(* The login screen's user, a user with a group more than there is room for *)
(* in the first buffer, and root.                                           *)
EXTENDS Dtlogin

MCRecords == {[uid |-> 1, gid |-> 1, groups |-> <<1>>, home |-> 1],
              [uid |-> 2, gid |-> 3, groups |-> <<3, 4, 5>>, home |-> 2],
              [uid |-> 0, gid |-> 0, groups |-> << >>, home |-> 3]}

MCOwnGroups == <<7>>
=============================================================================
