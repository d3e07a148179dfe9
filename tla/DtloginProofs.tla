---------------------------- MODULE DtloginProofs -----------------------------
(***************************************************************************)
(* For any records, in any pieces, and any sequence of logins, resets and  *)
(* aborts: the server never gives up what it needs to become root again,   *)
(* and it is root when all screens have been closed.                       *)
(***************************************************************************)
EXTENDS Dtlogin, TLAPS

\* A record of the six ids; what they are does not matter.
Ids(c) == c = [ruid |-> c.ruid, euid |-> c.euid, suid |-> c.suid,
               rgid |-> c.rgid, egid |-> c.egid, sgid |-> c.sgid]

\* The saved ids are those of root, and the effective group is one that can be
\* set again.
Saved(c) == Ids(c) /\ c.suid = 0 /\ c.sgid = 0 /\ c.egid \in {0, c.rgid}

CredInv == Saved(cred)

-----------------------------------------------------------------------------
\* The gid dance leaves 0 as the saved id.
LEMMA GidSaved ==
    ASSUME NEW c, Saved(c), c.euid = 0, NEW gid
    PROVE  Saved(SwitchedGid(c, gid)) /\ SwitchedGid(c, gid).euid = 0
  BY Zenon DEF Saved, Ids, SwitchedGid, setregid, setegid

\* Setting the real uid makes 0 the saved one, and setting the effective uid to
\* the same as the real one leaves it.
LEMMA UidSaved ==
    ASSUME NEW c, Saved(c), c.euid = 0, NEW uid
    PROVE  /\ Saved(SwitchedUid(c, uid))
           /\ SwitchedUid(c, uid).euid = IF uid = None THEN 0 ELSE uid
<1>1. CASE uid = None
  BY <1>1 DEF SwitchedUid
<1>2. CASE uid # None
  <2> DEFINE d == setreuid(c, uid, None)
  <2>1. d = [ruid |-> uid, euid |-> 0, suid |-> 0,
             rgid |-> c.rgid, egid |-> c.egid, sgid |-> c.sgid]
    BY <1>2, Zenon DEF setreuid, Saved, Ids, None
  <2>2. setreuid(d, None, uid) =
            [ruid |-> uid, euid |-> uid, suid |-> 0,
             rgid |-> c.rgid, egid |-> c.egid, sgid |-> c.sgid]
    <3> HIDE DEF d
    <3> QED BY <1>2, <2>1, Zenon DEF setreuid, None
  <2>3. SwitchedUid(c, uid) = setreuid(d, None, uid)
    BY <1>2 DEF SwitchedUid
  <2> QED BY <1>2, <2>2, <2>3 DEF Saved, Ids
<1> QED BY <1>1, <1>2

LEMMA SwitchedSaved ==
    ASSUME NEW c, Saved(c), NEW user
    PROVE  /\ Saved(Switched(c, user))
           /\ Switched(c, user).euid = IF user.uid = None THEN 0 ELSE user.uid
<1>1. Saved(seteuid(c, 0)) /\ seteuid(c, 0).euid = 0
  BY DEF Saved, Ids, seteuid
<1> QED BY <1>1, GidSaved, UidSaved DEF Switched

LEMMA InitCred == Init => CredInv
  BY DEF Init, CredInv, Saved, Ids

\* Closing down switches, or leaves the ids alone.
LEMMA CloseDownCred ==
    ASSUME CredInv, DtloginCloseDown
    PROVE  CredInv' /\ cred'.euid = 0
<1>1. originalUser.uid = 0
  BY DEF originalUser
<1> QED BY <1>1, SwitchedSaved, Zenon DEF DtloginCloseDown, CredInv, None

LEMMA StepCred == CredInv /\ [Next]_vars => CredInv'
<1> SUFFICES ASSUME CredInv, [Next]_vars PROVE CredInv'
  OBVIOUS
<1>1. CASE UNCHANGED cred
  BY <1>1 DEF CredInv
<1>2. CASE dtlogin_receive_packet
  <2>1. UNCHANGED cred \/ \E user, screens : dtlogin_process(user, TRUE, screens)
    BY <1>2, Zenon DEF dtlogin_receive_packet
  <2> QED BY <1>1, <2>1, SwitchedSaved DEF dtlogin_process, CredInv
<1>3. CASE SetPriority
  BY <1>3, Zenon DEF SetPriority, CredInv, Saved, Ids, setegid
<1>4. CASE EndGeneration \/ \E s \in Screens : CloseScreen(s)
  BY <1>1, <1>4, CloseDownCred DEF EndGeneration, CloseScreen
<1>5. CASE \/ DtloginInit \/ dtlogin_pipe_notify \/ PipeFails \/ Login \/ Write
           \/ AbortServer \/ Regenerate \/ UNCHANGED vars
  BY <1>1, <1>5 DEF DtloginInit, dtlogin_pipe_notify, PipeFails, Login, Write, AbortServer,
     Regenerate, vars
<1> QED BY <1>2, <1>3, <1>4, <1>5 DEF Next

\* RootRegainable for any records: also ones with ids that are missing, out of
\* range or those of root, and whatever came before.
THEOREM RootCorrect == Spec => []RootRegainable
<1>1. CredInv => RootRegainable
  BY Zenon DEF CredInv, Saved, Ids, RootRegainable, seteuid, setegid
<1> QED BY InitCred, StepCred, <1>1, PTL DEF Spec

-----------------------------------------------------------------------------
\* The part of CloseRestores that is about the uid and the wrappers.
ClosedAsRoot ==
    closed = Screens => wrapped = {} /\ (cred.euid = 0 \/ (phase = "abort" /\ bare))

\* A server that is not root can still be made so by closing any screen.
CloseInv ==
    /\ bare \in BOOLEAN
    /\ wrapped \subseteq Screens \ closed
    /\ pc = "receive" => phase = "run"
    /\ closed # {} => phase \in {"reset", "abort"}
    /\ phase = "reset" => cred.euid = 0
    /\ cred.euid # 0 /\ ~bare => wrapped = Screens

LEMMA InitClose == Init => CloseInv
  BY Zenon DEF Init, CloseInv

\* A login that makes the server someone else wraps the screens, or is noted.
LEMMA ProcessClose ==
    ASSUME CredInv, CloseInv, phase = "run", UNCHANGED <<phase, closed>>,
           pc' \in {"main", "receive"},
           NEW user, NEW screens, dtlogin_process(user, TRUE, screens)
    PROVE  CloseInv'
<1>1. cred'.euid = IF user.uid = None THEN 0 ELSE user.uid
  BY SwitchedSaved, Zenon DEF CredInv, dtlogin_process
<1>2. closed = {}
  BY DEF CloseInv
<1>3. CASE user.uid \notin {None, 0} /\ user # originalUser
  <2>1. wrapped' = wrapped \cup screens /\ screens \subseteq Screens
        /\ bare' = (bare \/ wrapped' # Screens)
    BY <1>3 DEF dtlogin_process
  <2>2. bare' \in BOOLEAN /\ (~bare' => wrapped' = Screens)
    BY <2>1, Zenon DEF CloseInv
  <2> QED BY <1>2, <2>1, <2>2 DEF CloseInv
<1>4. CASE ~(user.uid \notin {None, 0} /\ user # originalUser)
  <2>1. cred'.euid = 0
    BY <1>1, <1>4 DEF originalUser
  <2> QED BY <1>2, <1>4, <2>1, SMTT(60) DEF CloseInv, dtlogin_process
<1> QED BY <1>3, <1>4

LEMMA StepClose == CredInv /\ CloseInv /\ [Next]_vars => CloseInv'
<1> SUFFICES ASSUME CredInv, CloseInv, [Next]_vars PROVE CloseInv'
  OBVIOUS
<1>1. CASE dtlogin_receive_packet
  <2>1. pc = "receive" /\ phase = "run" /\ UNCHANGED <<phase, closed>>
    BY <1>1 DEF dtlogin_receive_packet, CloseInv
  <2>2. pc' \in {"main", "receive"}
    BY <1>1, Zenon DEF dtlogin_receive_packet
  <2>3. CASE UNCHANGED <<cred, wrapped, bare>>
    BY <2>1, <2>2, <2>3 DEF CloseInv
  <2>4. CASE \E user, screens : dtlogin_process(user, TRUE, screens)
    BY <2>1, <2>2, <2>4, ProcessClose, Zenon
  <2> QED BY <1>1, <2>3, <2>4, Zenon DEF dtlogin_receive_packet
<1>2. CASE SetPriority
  BY <1>2 DEF SetPriority, CloseInv, CredInv, Saved, Ids, setegid
<1>3. CASE EndGeneration
  BY <1>3, CloseDownCred DEF EndGeneration, CloseInv
<1>4. ASSUME NEW s \in Screens, CloseScreen(s) PROVE CloseInv'
  <2>1. CASE s \in wrapped
    BY <1>4, <2>1, CloseDownCred DEF CloseScreen, CloseInv
  <2>2. CASE s \notin wrapped
    BY <1>4, <2>2 DEF CloseScreen, CloseInv
  <2> QED BY <2>1, <2>2
<1>5. CASE Regenerate
  BY <1>5, Zenon DEF Regenerate, CloseInv
<1>6. CASE \/ DtloginInit \/ dtlogin_pipe_notify \/ PipeFails \/ Login \/ Write
           \/ AbortServer \/ UNCHANGED vars
  BY <1>6 DEF DtloginInit, dtlogin_pipe_notify, PipeFails, Login, Write, AbortServer, vars,
     CloseInv
<1> QED BY <1>1, <1>2, <1>3, <1>4, <1>5, <1>6, SMTT(60) DEF Next

\* Whichever screens could be wrapped, and however the server goes down: when all
\* screens have been closed none is wrapped, and the server is root unless an
\* abort found one that had not been wrapped.
THEOREM CloseCorrect == Spec => []ClosedAsRoot
<1>1. CloseInv => ClosedAsRoot
  BY DtloginAssumption DEF CloseInv, ClosedAsRoot
<1> QED BY InitCred, StepCred, InitClose, StepClose, <1>1, PTL DEF Spec

=============================================================================
