--------------------------- MODULE FtpSessionProofs ---------------------------
(***************************************************************************)
(* For any files, any configuration and any sequence of logins, commands,  *)
(* failures and steps of other processes: a command leaves exactly one     *)
(* record, an audit session that was opened ends with the one of the       *)
(* logout or of the PASS that displaced it, and the path of an RNFR is     *)
(* given up only with a record that names it.                              *)
(***************************************************************************)
EXTENDS FtpSession, TLAPS

Early    == {"start", "priv", "login"}
Busy     == {"run", "post", "post_err"}
CmdNames == DOMAIN solaris_audit_commands \cup {"RNFR", "RNTO"}

\* Commands whose success leaves the file they name.
Leaving == {"MKD", "STOR", "MDTM", "RETR", "RNTO"}

\* A trail of at most two records.
Short(t) == t = << >> \/ t = <<t[1]>> \/ t = <<t[1], t[2]>>

IsCmd(cm) == cm = [name |-> cm.name, arg |-> cm.arg, ok |-> cm.ok, errno |-> cm.errno,
                 event |-> cm.event]

Types ==
    /\ pc \in Early \cup Busy \cup {"idle", "end"}
    /\ fs \in [Files -> BOOLEAN]
    /\ src_path \in Files \cup {NULL}
    /\ src_realpath \in Path \ {NULL}
    /\ IsCmd(cmd) /\ cmd.event \in Event \cup {NULL}

IsPrivs(p) == p = [I |-> p.I, P |-> p.P, E |-> p.E]

\* The privilege that a record needs is there from the first step to the last,
\* unless lowering the privileges broke off half way; until the login it can be
\* inherited.  And who has a session has the handler for its end.
CanAudit ==
    /\ IsPrivs(privs)
    /\ HalfLowered \/ "PROC_AUDIT" \in privs.E
    /\ pc \in Early => "PROC_AUDIT" \in privs.E
    /\ pc \in {"priv", "login"} => "PROC_AUDIT" \in privs.I
    /\ asession => exitHandler

\* Nothing is audited in a session of its own before the login, and no event is
\* left between commands.
LoginInv ==
    /\ pc \in Early => ~asession /\ cmd = NoCmd
    /\ pc = "idle" => cmd.event = NULL

\* The event of a command in its handlers, and what is on the trail by then: at
\* most the record of an earlier RNFR, which has no destination.
EventInv ==
    pc \in Busy =>
        /\ cmd.name \in CmdNames /\ cmd.arg \in Files
        /\ pc # "post_err" \/ ~fault => cmd.event \in Event
        /\ pc # "post_err" => /\ cmd.name # "RNTO" => Names(cmd.event.src, cmd.arg)
                              /\ cmd.name \in {"RNFR", "RNTO"} => src_path # NULL
        /\ \/ trail = << >>
           \/ cmd.name = "RNFR" /\ trail = <<trail[1]>> /\ trail[1].event.dst = NULL

\* The file is there for the handler, unless another process has removed it.
FileInv == pc = "post" /\ ~raced /\ cmd.name \in Leaving => fs[cmd.arg]

TrailInv == pc # "end" => Short(trail)

IInv == /\ Types /\ CanAudit /\ LoginInv /\ EventInv /\ FileInv /\ TrailInv
        /\ CommandRecorded

-----------------------------------------------------------------------------
\* Whatever the flags, auditing stays possible.
LEMMA PermittedAudits == \A flags : "PROC_AUDIT" \in Permitted(flags)
  BY Zenon DEF Permitted, Basic, Unused

\* Trails of one length whose records are the same.
LEMMA SameTrail ==
    ASSUME NEW S, NEW u \in Seq(S), NEW v \in Seq(S), NEW n, Len(u) = n, Len(v) = n,
           \A i \in 1 .. n : u[i] = v[i]
    PROVE  u = v
  BY SMTT(60)

\* A record that is put behind those of a short trail.
LEMMA BehindOne ==
    ASSUME NEW a, NEW x
    PROVE  <<a>> \o <<x>> = <<a, x>>
<1> DEFINE S == {a, x}
<1>1. <<a>> \in Seq(S) /\ <<x>> \in Seq(S) /\ <<a, x>> \in Seq(S)
  OBVIOUS
<1>2. Len(<<a>>) = 1 /\ Len(<<x>>) = 1 /\ Len(<<a, x>>) = 2
  BY Zenon
<1>3. /\ <<a>> \o <<x>> \in Seq(S) /\ Len(<<a>> \o <<x>>) = 2
      /\ \A i \in 1 .. 2 : (<<a>> \o <<x>>)[i] = IF i <= 1 THEN <<a>>[i] ELSE <<x>>[i - 1]
  BY <1>1, <1>2, SMTT(60)
<1>4. \A i \in 1 .. 2 : (<<a>> \o <<x>>)[i] = <<a, x>>[i]
  BY <1>3, SMTT(60)
<1> QED BY <1>1, <1>2, <1>3, <1>4, SameTrail, Zenon

\* A record that has been put is the last one.
LEMMA EndsWith ==
    ASSUME NEW S, NEW t \in Seq(S), NEW x \in S
    PROVE  t \o <<x>> # << >> /\ (t \o <<x>>)[Len(t \o <<x>>)] = x
<1>1. <<x>> \in Seq(S) /\ Len(<<x>>) = 1 /\ <<x>>[1] = x
  BY SMTT(60)
<1>2. /\ t \o <<x>> \in Seq(S) /\ Len(t \o <<x>>) = Len(t) + 1 /\ Len(t) \in Nat
      /\ (t \o <<x>>)[Len(t) + 1] = x
  BY <1>1, SMTT(60)
<1> QED BY <1>2

\* The same for a short trail, of whatever records.
LEMMA ShortEnds ==
    ASSUME NEW t, Short(t), NEW x
    PROVE  t \o <<x>> # << >> /\ (t \o <<x>>)[Len(t \o <<x>>)] = x
<1> DEFINE S == {t[1], t[2], x}
<1>1. t \in Seq(S)
  <2>1. t[1] \in S /\ t[2] \in S
    BY Zenon
  <2> HIDE DEF S
  <2>2. \A a, b \in S : << >> \in Seq(S) /\ <<a>> \in Seq(S) /\ <<a, b>> \in Seq(S)
    BY SMTT(60)
  <2>3. << >> \in Seq(S) /\ <<t[1]>> \in Seq(S) /\ <<t[1], t[2]>> \in Seq(S)
    BY <2>1, <2>2, Zenon
  <2> QED BY <2>3, Zenon DEF Short
<1>2. x \in S
  BY Zenon
<1> HIDE DEF S
<1> QED BY <1>1, <1>2, EndsWith, Zenon

\* The invariant holds before the session starts.
LEMMA InitInv == Init => IInv
<1> SUFFICES ASSUME Init PROVE IInv
  OBVIOUS
<1>1. Types
  BY NullAssumption, Zenon DEF Init, Types, Early, Path, NoCmd, IsCmd
<1>2. CanAudit
  <2>1. IsPrivs(privs)
    BY Zenon DEF Init, IsPrivs
  <2>2. "PROC_AUDIT" \in privs.E
    BY Zenon DEF Init, All
  <2> QED BY <2>1, <2>2, Zenon DEF Init, CanAudit
<1>3. LoginInv /\ EventInv /\ FileInv /\ CommandRecorded
  BY Zenon DEF Init, LoginInv, EventInv, FileInv, Busy, CommandRecorded
<1>4. TrailInv
  BY Zenon DEF Init, TrailInv, Short
<1> QED BY <1>1, <1>2, <1>3, <1>4, Zenon DEF IInv

-----------------------------------------------------------------------------
\* Privileges of which one set is replaced.
WithI(p, v) == [p EXCEPT !.I = v]
WithE(p, v) == [p EXCEPT !.E = v]
WithP(p, v) == [p EXCEPT !.P = v]

LEMMA OneSet ==
    ASSUME NEW p, IsPrivs(p), NEW v
    PROVE  /\ IsPrivs(WithE(p, v)) /\ WithE(p, v).E = v /\ WithE(p, v).I = p.I
           /\ IsPrivs(WithI(p, v)) /\ WithI(p, v).I = v /\ WithI(p, v).E = p.E
           /\ IsPrivs(WithP(p, v))
<1>1. PICK i, w, e : p = [I |-> i, P |-> w, E |-> e]
  BY Zenon DEF IsPrivs
<1>2. /\ WithE(p, v) = [I |-> i, P |-> w, E |-> v]
      /\ WithI(p, v) = [I |-> v, P |-> w, E |-> e]
      /\ WithP(p, v) = [I |-> i, P |-> v, E |-> e]
  BY <1>1, SMTT(60) DEF WithE, WithI, WithP
<1>3. p.I = i /\ p.E = e
  BY <1>1, Zenon
<1>4. \A a, b, c : IsPrivs([I |-> a, P |-> b, E |-> c])
  BY Zenon DEF IsPrivs
<1>5. IsPrivs(WithE(p, v)) /\ IsPrivs(WithI(p, v)) /\ IsPrivs(WithP(p, v))
  BY <1>2, <1>4, Zenon
<1>6. WithE(p, v).E = v /\ WithE(p, v).I = i /\ WithI(p, v).I = v /\ WithI(p, v).E = e
  BY <1>2, SMTT(60)
<1> QED BY <1>3, <1>5, <1>6, Zenon

\* The login lowers the privileges, completely or in part.
LEMMA LoweredAudits ==
    ASSUME IsPrivs(privs), "PROC_AUDIT" \in privs.I, "PROC_AUDIT" \in privs.E,
           NEW root \in BOOLEAN, NEW l \in Lowered(root)
    PROVE  /\ IsPrivs(l.privs)
           /\ "PROC_AUDIT" \in l.privs.E \/ (~l.aware /\ l.privs.I = Basic \ Unused)
<1> DEFINE set == Permitted(IF root THEN PRIV_SOL_ROOT_PRIVS ELSE solaris_priv_flags)
           low == WithI(privs, Basic \ Unused)
           high == WithE(WithP(low, set), set)
<1>1. "PROC_AUDIT" \in set
  BY PermittedAudits, Zenon
<1>2. l \in {[privs |-> high, aware |-> TRUE], Unaware(root, low), Unaware(root, privs)}
  BY Zenon DEF Lowered, WithI, WithP, WithE
<1> HIDE DEF set
<1>4. IsPrivs(low) /\ low.I = Basic \ Unused
  BY OneSet, Zenon
<1> HIDE DEF low
<1>5. IsPrivs(WithP(low, set))
  BY <1>4, OneSet, Zenon
<1>6. IsPrivs(high) /\ high.E = set
  BY <1>5, OneSet, ZenonT(60)
<1> HIDE DEF high
<1>7. CASE l = [privs |-> high, aware |-> TRUE]
  <2>1. l.privs = high
    BY <1>7, Zenon
  <2> QED BY <1>1, <1>6, <2>1, Zenon
<1>8. CASE l = Unaware(root, low)
  <2>1. ~l.aware /\ (l.privs = low \/ l.privs = WithE(low, low.I))
    BY <1>8, Zenon DEF Unaware, WithE
  <2>2. IsPrivs(WithE(low, low.I)) /\ WithE(low, low.I).I = low.I
    BY <1>4, OneSet, Zenon
  <2> QED BY <1>4, <2>1, <2>2, Zenon
<1>9. CASE l = Unaware(root, privs)
  <2>1. l.privs = privs \/ l.privs = WithE(privs, privs.I)
    BY <1>9, Zenon DEF Unaware, WithE
  <2>2. IsPrivs(WithE(privs, privs.I)) /\ WithE(privs, privs.I).E = privs.I
    BY OneSet, Zenon
  <2> QED BY <2>1, <2>2, Zenon
<1> QED BY <1>2, <1>7, <1>8, <1>9, Zenon

\* The command when its event is gone: the handlers that end it set nothing else.
LEMMA EventGone ==
    ASSUME NEW cm, IsCmd(cm), NEW v, NEW ok
    PROVE  [cm EXCEPT !.event = v, !.ok = ok] =
               [name |-> cm.name, arg |-> cm.arg, ok |-> ok, errno |-> cm.errno, event |-> v]
<1>1. PICK n, a, o, e, w : cm = [name |-> n, arg |-> a, ok |-> o, errno |-> e, event |-> w]
  BY Zenon DEF IsCmd
<1> DEFINE y == [cm EXCEPT !.event = v]
<1>2. y = [name |-> n, arg |-> a, ok |-> o, errno |-> e, event |-> v]
  BY <1>1, SMTT(60)
<1>3. cm.name = n /\ cm.arg = a /\ cm.errno = e
  BY <1>1, Zenon
<1> HIDE DEF y
<1>4. [y EXCEPT !.ok = ok] = [name |-> n, arg |-> a, ok |-> ok, errno |-> e, event |-> v]
  BY <1>2, SMTT(60)
<1>5. [cm EXCEPT !.event = v, !.ok = ok] = [[cm EXCEPT !.event = v] EXCEPT !.ok = ok]
  BY Zenon
<1> QED BY <1>3, <1>4, <1>5, Zenon DEF y

\* No step takes the privilege to audit away.
LEMMA PrivsStep ==
    ASSUME IInv, [Next]_vars
    PROVE  CanAudit'
<1>0. CanAudit /\ (pc \in Early => ~asession)
  BY Zenon DEF IInv, LoginInv
<1>1. CASE /\ UNCHANGED <<privs, priv_aware, exitHandler>> /\ (asession' => asession)
           /\ pc' \in Early => pc' = pc
  <2>1. HalfLowered' <=> HalfLowered
    BY <1>1, Zenon DEF HalfLowered
  <2> QED BY <1>0, <1>1, <2>1, Zenon DEF CanAudit, Early
<1>2. CASE audit_sess_init
  <2> DEFINE first == WithI(privs, privs.I \cup {"PROC_AUDIT"})
             opened == WithE(first, privs.E \ {"SYS_AUDIT"})
  <2>1. /\ privs' \in {privs, opened}
        /\ pc = "start" /\ pc' \in {"priv", "end"} /\ (pc' = "priv" => privs' # privs)
        /\ UNCHANGED <<asession, exitHandler, priv_aware>>
    BY <1>2, Zenon DEF audit_sess_init, audit_vars, WithI, WithE
  <2>3. IsPrivs(first) /\ first.I = privs.I \cup {"PROC_AUDIT"}
    BY <1>0, OneSet, Zenon DEF CanAudit
  <2> HIDE DEF first
  <2>4. /\ IsPrivs(opened) /\ opened.I = privs.I \cup {"PROC_AUDIT"}
        /\ opened.E = privs.E \ {"SYS_AUDIT"}
    BY <2>3, OneSet, ZenonT(60)
  <2> HIDE DEF opened
  <2>5. CASE privs' = privs
    BY <1>0, <1>1, <2>1, <2>5, Zenon DEF Early
  <2>6. CASE privs' = opened
    <3>1. "PROC_AUDIT" \in privs.E /\ ~asession'
      BY <1>0, <2>1, Zenon DEF CanAudit, Early
    <3>2. /\ IsPrivs(privs') /\ "PROC_AUDIT" \in privs'.I /\ "PROC_AUDIT" \in privs'.E
      BY <2>4, <2>6, <3>1, Zenon
    <3> QED BY <3>1, <3>2, Zenon DEF CanAudit
  <2> QED BY <2>1, <2>5, <2>6, Zenon
<1>3. CASE PostPass \/ SetreuidFails
  <2>1. /\ pc = "login" /\ pc' \in {"idle", "end"}
        /\ exitHandler' = TRUE \/ UNCHANGED asession
        /\ \E root \in BOOLEAN : \E l \in Lowered(root) :
             privs' = l.privs /\ (priv_aware' = l.aware \/ l.aware)
    BY <1>3, Zenon DEF PostPass, SetreuidFails
  <2>2. IsPrivs(privs) /\ "PROC_AUDIT" \in privs.I /\ "PROC_AUDIT" \in privs.E /\ ~asession
    BY <1>0, <2>1, Zenon DEF CanAudit, Early
  <2>6. PICK root \in BOOLEAN : \E l \in Lowered(root) :
             privs' = l.privs /\ (priv_aware' = l.aware \/ l.aware)
    BY <2>1, Zenon
  <2>3. PICK l \in Lowered(root) : privs' = l.privs /\ (priv_aware' = l.aware \/ l.aware)
    BY <2>6, Zenon
  <2>4. /\ IsPrivs(l.privs)
        /\ "PROC_AUDIT" \in l.privs.E \/ (~l.aware /\ l.privs.I = Basic \ Unused)
    BY <2>2, LoweredAudits, Zenon
  <2>5. HalfLowered' \/ "PROC_AUDIT" \in privs'.E
    BY <2>3, <2>4, Zenon DEF HalfLowered
  <2>7. asession' => exitHandler'
    BY <2>1, <2>2, Zenon
  <2>8. pc' \notin Early
    BY <2>1, Zenon DEF Early
  <2> QED BY <2>3, <2>4, <2>5, <2>7, <2>8, Zenon DEF CanAudit, Early
<1>4. CASE \/ solaris_priv_sess_init \/ audit_autherr_ev \/ solaris_audit_post_fail
           \/ audit_exit_ev \/ UNCHANGED vars
  <2>1. CASE solaris_priv_sess_init
    <3>1. /\ UNCHANGED <<privs, priv_aware, exitHandler, asession>>
          /\ pc = "priv" /\ pc' = "login"
      BY <2>1, Zenon DEF solaris_priv_sess_init, audit_vars
    <3>2. HalfLowered' <=> HalfLowered
      BY <3>1, Zenon DEF HalfLowered
    <3> QED BY <1>0, <3>1, <3>2, Zenon DEF CanAudit, Early
  <2>2. CASE audit_autherr_ev \/ UNCHANGED vars
    <3>1. UNCHANGED <<privs, priv_aware, exitHandler, asession, pc>>
      BY <2>2, Zenon DEF audit_autherr_ev, audit_vars, priv_vars, vars
    <3> QED BY <1>1, <3>1, Zenon
  <2>3. CASE solaris_audit_post_fail
    BY <1>1, <2>3, Zenon DEF solaris_audit_post_fail, priv_vars
  <2>4. CASE audit_exit_ev
    <3>1. /\ UNCHANGED <<privs, priv_aware, exitHandler>> /\ pc' = "end"
          /\ asession' = FALSE \/ UNCHANGED asession
      BY <2>4, Zenon DEF audit_exit_ev, audit_logout, priv_vars
    <3> QED BY <1>1, <3>1, Zenon DEF Early
  <2> QED BY <1>4, <2>1, <2>2, <2>3, <2>4, Zenon
<1>5. ASSUME NEW f \in Files,
             \/ \E name \in DOMAIN solaris_audit_commands : PreFile(name, f)
             \/ solaris_audit_pre_rnfr(f) \/ solaris_audit_pre_rnto(f) \/ OtherProcess(f)
      PROVE  CanAudit'
  <2>1. CASE \E name \in DOMAIN solaris_audit_commands : PreFile(name, f)
    <3>1. /\ UNCHANGED <<privs, priv_aware, exitHandler, asession>>
          /\ pc' = "run" \/ pc' = "post_err"
      BY <2>1, Zenon DEF PreFile, NoEvent, priv_vars
    <3> QED BY <1>1, <3>1, Zenon DEF Early
  <2>2. CASE solaris_audit_pre_rnfr(f) \/ solaris_audit_pre_rnto(f)
    <3>1. /\ UNCHANGED <<privs, priv_aware, exitHandler, asession>>
          /\ pc' = "run" \/ pc' = "post_err"
      BY <2>2, Zenon DEF solaris_audit_pre_rnfr, solaris_audit_pre_rnto, NoEvent,
           audit_vars, priv_vars
    <3> QED BY <1>1, <3>1, Zenon DEF Early
  <2>3. CASE OtherProcess(f)
    BY <1>1, <2>3, Zenon DEF OtherProcess, audit_vars, priv_vars
  <2> QED BY <1>5, <2>1, <2>2, <2>3, Zenon
<1>6. CASE CommandSucceeds \/ CommandFails \/ PostFile \/ PostFileErr
  <2>1. /\ UNCHANGED <<privs, priv_aware, exitHandler, asession>>
        /\ pc' = "idle" \/ pc' = "post" \/ pc' = "post_err"
    BY <1>6, Zenon DEF CommandSucceeds, CommandFails, PostFile, PostFileErr,
         audit_vars, priv_vars
  <2> QED BY <1>1, <2>1, Zenon DEF Early
<1>7. CASE \/ solaris_audit_post_rnfr \/ solaris_audit_post_rnfr_err
           \/ solaris_audit_post_rnto \/ solaris_audit_post_rnto_err
  <2>1. UNCHANGED <<privs, priv_aware, exitHandler, asession>> /\ pc' = "idle"
    BY <1>7, Zenon DEF solaris_audit_post_rnfr, solaris_audit_post_rnfr_err,
         solaris_audit_post_rnto, solaris_audit_post_rnto_err, priv_vars
  <2> QED BY <1>1, <2>1, Zenon DEF Early
<1> QED BY <1>2, <1>3, <1>4, <1>5, <1>6, <1>7, Zenon DEF Next

-----------------------------------------------------------------------------
\* The records of a command, when one with a destination is put behind them.
Before(name, t) ==
    t = << >> \/ (name = "RNFR" /\ t = <<t[1]>> /\ t[1].event.dst = NULL)

Own(t) == {r \in Range(t) : r.event.dst # NULL}

\* The record with a destination is the only such one of its command.
LEMMA OwnRecord ==
    ASSUME NEW name, NEW t, Before(name, t), NEW r, r.event.dst # NULL
    PROVE  /\ Own(t \o <<r>>) = {r} /\ Short(t \o <<r>>)
           /\ Len(t \o <<r>>) <= 1 + (IF name = "RNFR" THEN 1 ELSE 0)
<1>1. CASE t = << >>
  <2>1. t \o <<r>> = <<r>>
    BY <1>1, SMTT(60)
  <2>2. DOMAIN <<r>> = {1} /\ <<r>>[1] = r /\ Len(<<r>>) = 1
    BY SMTT(60)
  <2>3. Range(<<r>>) = {r}
    BY <2>2, Zenon DEF Range
  <2>4. Own(<<r>>) = {r}
    BY <2>3, Zenon DEF Own
  <2>5. Short(<<r>>)
    BY <2>2, Zenon DEF Short
  <2>6. Len(<<r>>) <= 1 + (IF name = "RNFR" THEN 1 ELSE 0)
    BY <2>2, SMTT(60)
  <2> QED BY <2>1, <2>4, <2>5, <2>6, Zenon
<1>2. CASE name = "RNFR" /\ t = <<t[1]>> /\ t[1].event.dst = NULL
  <2>0. PICK a : t = <<a>> /\ a.event.dst = NULL
    BY <1>2, Zenon
  <2>1. t \o <<r>> = <<a, r>>
    BY <2>0, BehindOne, Zenon
  <2>2. DOMAIN <<a, r>> = {1, 2} /\ <<a, r>>[1] = a /\ <<a, r>>[2] = r /\ Len(<<a, r>>) = 2
    BY SMTT(60)
  <2>3. Range(<<a, r>>) = {a, r}
    BY <2>2, Zenon DEF Range
  <2>4. Own(<<a, r>>) = {r}
    BY <2>0, <2>3, Zenon DEF Own
  <2>5. Short(<<a, r>>)
    BY <2>2, Zenon DEF Short
  <2>6. Len(<<a, r>>) <= 1 + (IF name = "RNFR" THEN 1 ELSE 0)
    BY <1>2, <2>2, SMTT(60)
  <2> QED BY <2>1, <2>4, <2>5, <2>6, Zenon
<1> QED BY <1>1, <1>2, Zenon DEF Before

\* The end of a command: what __solaris_audit_post leaves when it is given an
\* event that can be put.
LEMMA PostEnds ==
    ASSUME IInv, pc \in {"post", "post_err"}, NEW ok \in BOOLEAN, NEW filled,
           filled = NULL \/ filled.dst # NULL,
           ok => pc = "post" /\ cmd.name # "RNFR",
           ~ok => pc = "post_err" /\ (cmd.event # NULL => filled # NULL),
           ok /\ ~raced =>
               /\ filled # NULL
               /\ Names(IF cmd.name = "RNTO" THEN filled.dst ELSE filled.src, cmd.arg),
           solaris_audit_post(ok, filled), UNCHANGED <<asession, raced, priv_vars>>,
           pc' = "idle"
    PROVE  CommandRecorded' /\ Short(trail') /\ IsCmd(cmd') /\ cmd'.event = NULL
<1> DEFINE r == Recorded(cmd.name, ok, cmd.errno, filled)
<1>1. /\ cmd' = [name |-> cmd.name, arg |-> cmd.arg, ok |-> ok, errno |-> cmd.errno,
                event |-> NULL]
      /\ cmd'.name = cmd.name /\ cmd'.arg = cmd.arg /\ cmd'.ok = ok
  <2>1. IsCmd(cmd) /\ cmd' = [cmd EXCEPT !.event = NULL, !.ok = ok]
    BY Zenon DEF IInv, Types, solaris_audit_post
  <2>2. cmd' = [name |-> cmd.name, arg |-> cmd.arg, ok |-> ok, errno |-> cmd.errno,
                event |-> NULL]
    BY <2>1, EventGone, Zenon
  <2> QED BY <2>2, Zenon
<1>2. /\ Before(cmd.name, trail)
      /\ pc = "post" \/ ~fault => cmd.event # NULL
  BY NullAssumption, Zenon DEF IInv, EventInv, Before, Busy
<1>3. /\ r.kind = cmd.name /\ r.ok = ok /\ r.event = filled
      /\ ok => r.err # "FAILURE"
  BY Zenon DEF Recorded
<1> HIDE DEF r
<1>4. Short(trail)
  BY Zenon DEF IInv, TrailInv
<1>5. /\ trail' \in {trail, trail \o <<r>>, trail \o << >>}
      /\ ~fault' => ~fault
      /\ ~fault' /\ asession /\ ~HalfLowered' /\ cmd.event # NULL /\ filled # NULL =>
           trail' = trail \o <<r>>
      /\ cmd.event = NULL \/ filled = NULL => trail' = trail
  <2>1. HalfLowered' <=> HalfLowered
    BY Zenon DEF HalfLowered, priv_vars
  <2>2. HalfLowered \/ "PROC_AUDIT" \in privs.E
    BY Zenon DEF IInv, CanAudit
  <2> QED BY <2>1, <2>2, Zenon DEF solaris_audit_post, Put, r
<1>6. trail \o << >> = trail
  BY <1>2, SMTT(60) DEF Before
<1>7. CASE cmd.event # NULL /\ filled # NULL
  <2>1. r.event.dst # NULL
    BY <1>3, <1>7, Zenon
  <2>2. /\ Own(trail \o <<r>>) = {r} /\ Short(trail \o <<r>>)
        /\ Len(trail \o <<r>>) <= 1 + (IF cmd.name = "RNFR" THEN 1 ELSE 0)
    BY <1>2, <2>1, OwnRecord, Zenon
  <2>3. Short(trail')
    BY <1>4, <1>5, <1>6, <2>2, Zenon
  <2>4. ASSUME asession, ~fault', ~raced, ~HalfLowered'
        PROVE  CommandRecorded'
    <3>1. trail' = trail \o <<r>>
      BY <1>5, <1>7, <2>4, Zenon
    <3>2. /\ Own(trail') = {r} /\ r \in Own(trail')
          /\ Len(trail') <= (IF Own(trail') = {} THEN 0 ELSE 1) + (IF cmd'.name = "RNFR" THEN 1 ELSE 0)
      BY <1>1, <2>2, <3>1, Zenon
    <3>3. /\ r.kind = cmd'.name /\ r.ok = cmd'.ok /\ ~(cmd'.name = "RNFR" /\ cmd'.ok)
          /\ cmd'.ok => /\ r.err # "FAILURE"
                        /\ Names(IF cmd'.name = "RNTO" THEN r.event.dst ELSE r.event.src,
                                 cmd'.arg)
      BY <1>1, <1>3, <2>4, Zenon
    <3> QED BY <3>2, <3>3, Zenon DEF CommandRecorded, Own
  <2>5. ASSUME ~(asession /\ ~fault' /\ ~raced /\ ~HalfLowered')
        PROVE  CommandRecorded'
    BY <2>5, Zenon DEF CommandRecorded
  <2>6. IsCmd(cmd') /\ cmd'.event = NULL
    BY <1>1, Zenon DEF IsCmd
  <2> QED BY <2>3, <2>4, <2>5, <2>6, Zenon
<1>8. CASE cmd.event = NULL \/ filled = NULL
  <2>1. ASSUME ~fault', ~raced, asession PROVE FALSE
    <3>1. ~fault
      BY <1>5, <2>1, Zenon
    <3>2. cmd.event # NULL /\ filled = NULL
      BY <1>2, <1>8, <3>1, Zenon
    <3>3. CASE ok
      BY <2>1, <3>2, <3>3, Zenon
    <3>4. CASE ~ok
      BY <3>2, <3>4, Zenon
    <3> QED BY <3>3, <3>4, Zenon
  <2>2. CommandRecorded'
    BY <2>1, Zenon DEF CommandRecorded
  <2>3. IsCmd(cmd') /\ cmd'.event = NULL /\ Short(trail')
    BY <1>1, <1>4, <1>5, <1>8, Zenon DEF IsCmd
  <2> QED BY <2>2, <2>3, Zenon
<1> QED BY <1>7, <1>8, Zenon

-----------------------------------------------------------------------------
Rest == Types /\ LoginInv /\ EventInv /\ FileInv /\ TrailInv /\ CommandRecorded

\* A step that is not one of a command.
LEMMA OutOfCommand ==
    ASSUME IInv, pc' \in Early \cup {"idle", "end"}, UNCHANGED <<fs, src_path, src_realpath>>,
           cmd' = NoCmd \/ (UNCHANGED cmd /\ (pc \in Early \/ pc' = "end")),
           pc' \in Early => ~asession', pc' # "end" => Short(trail')
    PROVE  Rest'
<1>1. Types'
  <2>1. IsCmd(NoCmd) /\ NoCmd.event \in Event \cup {NULL}
    BY Zenon DEF NoCmd, IsCmd
  <2> QED BY <2>1, Zenon DEF IInv, Types
<1>2. LoginInv' /\ CommandRecorded'
  <2>1. pc' # "end" => cmd' = NoCmd /\ cmd'.name = NULL /\ cmd'.event = NULL
    BY SMTT(60) DEF IInv, LoginInv, NoCmd
  <2>2. LoginInv'
    BY <2>1, Zenon DEF LoginInv, Early
  <2> QED BY <2>1, <2>2, Zenon DEF CommandRecorded
<1>3. EventInv' /\ FileInv' /\ TrailInv'
  BY Zenon DEF EventInv, FileInv, TrailInv, Busy, Early
<1> QED BY <1>1, <1>2, <1>3, Zenon DEF Rest

\* Starting the session, logging in and leaving keep the invariant.
LEMMA SessionStep ==
    ASSUME IInv,
           \/ audit_sess_init \/ solaris_priv_sess_init \/ audit_autherr_ev
           \/ solaris_audit_post_fail \/ PostPass \/ SetreuidFails \/ audit_exit_ev
    PROVE  Rest'
<1>0. /\ pc \in Early => ~asession
      /\ pc # "end" => Short(trail)
      /\ \A r : Short(<<r>>) /\ Short(<< >>)
  <2>1. \A r : <<r>>[1] = r
    BY Zenon
  <2> QED BY <2>1, Zenon DEF IInv, LoginInv, TrailInv, Short
<1>1. CASE audit_sess_init \/ solaris_priv_sess_init \/ audit_autherr_ev
  <2>1. /\ pc \in {"start", "priv", "login"} /\ pc' \in {"priv", "login", "end"}
        /\ UNCHANGED <<fs, src_path, src_realpath, cmd, asession, trail>>
    BY <1>1 DEF audit_sess_init, solaris_priv_sess_init, audit_autherr_ev, audit_vars
  <2> QED BY <2>1, <1>0, OutOfCommand, Zenon DEF Early
<1>2. CASE solaris_audit_post_fail
  <2>1. /\ pc' \in {"login", "idle"} /\ ~asession' /\ cmd' = NoCmd
        /\ UNCHANGED <<fs, src_path, src_realpath>>
        /\ trail' = << >> \/ \E r : trail' = <<r>>
    BY <1>2, Zenon DEF solaris_audit_post_fail
  <2> QED BY <2>1, <1>0, OutOfCommand, Zenon DEF Early
<1>3. CASE PostPass
  <2>1. /\ pc = "login" /\ pc' = "idle"
        /\ UNCHANGED <<fs, src_path, src_realpath, cmd>>
        /\ trail' = << >> \/ \E r : trail' = <<r>>
    BY <1>3, Zenon DEF PostPass, audit_success
  <2> QED BY <2>1, <1>0, OutOfCommand, Zenon DEF Early
<1>4. CASE SetreuidFails \/ audit_exit_ev
  <2>1. pc' = "end" /\ UNCHANGED <<fs, src_path, src_realpath, cmd>>
    BY <1>4, Zenon DEF SetreuidFails, audit_exit_ev
  <2> QED BY <2>1, OutOfCommand DEF Early
<1> QED BY <1>1, <1>2, <1>3, <1>4, Zenon

-----------------------------------------------------------------------------
\* The commands of the table are not those of a rename.
LEMMA FileCommands ==
    /\ DOMAIN solaris_audit_commands = {"DELE", "MKD", "RMD", "MDTM", "STOR", "RETR"}
    /\ \A name \in DOMAIN solaris_audit_commands : name \notin {"RNFR", "RNTO"}
  BY DEF solaris_audit_commands

\* Paths that can be resolved or not, and events that are made of them.
LEMMA PathsOf ==
    ASSUME Types, NEW f \in Files
    PROVE  /\ realpath(f) \in Path \ {NULL} /\ Arg(f) \in Path \ {NULL}
           /\ Real(f) \in Path \ {NULL} /\ Empty \in Path \ {NULL} /\ NULL \in Path
           /\ Names(Arg(f), f) /\ Names(Real(f), f) /\ Names(realpath(f), f)
           /\ fs[f] \in BOOLEAN
<1>1. fs[f] \in BOOLEAN
  BY DEF Types
<1>2. /\ Arg(f) \in Path \ {NULL} /\ Real(f) \in Path \ {NULL} /\ Empty \in Path \ {NULL}
      /\ NULL \in Path
  BY NullAssumption, Zenon DEF Path
<1> QED BY <1>1, <1>2, Zenon DEF realpath, Names

\* What the handlers make of two paths is an event.
LEMMA EventOf ==
    ASSUME NEW src \in Path, NEW dst \in Path \ {NULL}, NEW attr \in BOOLEAN
    PROVE  /\ Paths(src, dst, attr) \in Event /\ Paths(src, dst, attr) # NULL
           /\ Paths(src, dst, attr).src = src /\ Paths(src, dst, attr).dst = dst
<1>1. Paths(src, dst, attr) \in Event
  BY Zenon DEF Paths, Event
<1> QED BY <1>1, NullAssumption DEF Paths

\* A command begins.
LEMMA PreCommand ==
    ASSUME IInv, pc' \in {"run", "post_err"}, UNCHANGED fs,
           src_path' \in Files \cup {NULL}, src_realpath' \in Path \ {NULL},
           NEW name \in CmdNames, NEW f \in Files, NEW errno,
           NEW event \in Event \cup {NULL},
           cmd' = [name |-> name, arg |-> f, ok |-> FALSE, errno |-> errno, event |-> event],
           pc' = "run" \/ ~fault' => event \in Event,
           pc' = "run" => /\ name # "RNTO" => Names(event.src, f)
                          /\ name \in {"RNFR", "RNTO"} => src_path' # NULL,
           Before(name, trail')
    PROVE  Rest'
<1>1. cmd'.name = name /\ cmd'.arg = f /\ cmd'.event = event /\ IsCmd(cmd')
  BY DEF IsCmd
<1>2. Types'
  BY <1>1, Zenon DEF IInv, Types, Busy
<1>3. LoginInv' /\ FileInv' /\ CommandRecorded'
  BY Zenon DEF LoginInv, FileInv, CommandRecorded, Early
<1>4. EventInv'
  BY <1>1, Zenon DEF EventInv, Busy, Before
<1>5. TrailInv'
  BY Zenon DEF TrailInv, Short, Before
<1> QED BY <1>2, <1>3, <1>4, <1>5, Zenon DEF Rest

\* The handler before a command on one file.
LEMMA PreFileStep ==
    ASSUME IInv, NEW f \in Files, NEW name \in DOMAIN solaris_audit_commands,
           PreFile(name, f)
    PROVE  Rest'
<1> DEFINE h == solaris_audit_commands[name]
<1>0. /\ name \in CmdNames /\ name # "RNTO" /\ name # "RNFR"
      /\ h.stat \in BOOLEAN
      /\ Types /\ src_path \in Files \cup {NULL} /\ src_realpath \in Path \ {NULL}
  <2>1. h.stat \in BOOLEAN
    <3>1. h \in {dele, mkd, rmd, mdtm, put, get}
      BY FileCommands, SMTT(60) DEF solaris_audit_commands
    <3> HIDE DEF h
    <3>2. /\ dele.stat = TRUE /\ mkd.stat = FALSE /\ rmd.stat = TRUE
          /\ mdtm.stat = FALSE /\ put.stat = FALSE /\ get.stat = FALSE
      BY Zenon DEF dele, mkd, rmd, mdtm, put, get
    <3> QED BY <3>1, <3>2, Zenon
  <2> QED BY <2>1, FileCommands, Zenon DEF CmdNames, IInv, Types
<1> HIDE DEF h
<1>1. UNCHANGED <<fs, src_path>> /\ trail' = << >>
  BY Zenon DEF PreFile
<1>2. CASE NoEvent(name, f) /\ UNCHANGED src_realpath
  BY <1>0, <1>1, <1>2, PreCommand, Zenon DEF NoEvent, Started, Before
<1>3. CASE /\ cmd' = [Started(name, f, Paths(NULL, Empty, FALSE)) EXCEPT !.errno = "errno"]
           /\ src_realpath' = Arg(f) /\ pc' = "post_err"
  <2> DEFINE e == Paths(NULL, Empty, FALSE)
  <2>1. e \in Event
    BY <1>0, PathsOf, EventOf, Zenon
  <2> HIDE DEF e
  <2>2. cmd' = [name |-> name, arg |-> f, ok |-> FALSE, errno |-> "errno", event |-> e]
    BY <1>3, Zenon DEF Started, e
  <2>3. Arg(f) \in Path \ {NULL}
    BY <1>0, PathsOf, Zenon
  <2> QED BY <1>0, <1>1, <1>3, <2>1, <2>2, <2>3, PreCommand, Zenon DEF Before
<1>4. CASE /\ cmd' = Started(name, f, Paths(IF h.resolve THEN realpath(f) ELSE Arg(f), Empty,
                                            h.stat /\ fs[f]))
           /\ src_realpath' = IF h.resolve THEN realpath(f) ELSE src_realpath
           /\ pc' = "run"
  <2> DEFINE src == IF h.resolve THEN realpath(f) ELSE Arg(f)
             e == Paths(src, Empty, h.stat /\ fs[f])
  <2>1. src \in Path /\ Names(src, f) /\ src_realpath' \in Path \ {NULL}
    BY <1>0, <1>4, PathsOf, Zenon
  <2>2. (h.stat /\ fs[f]) \in BOOLEAN /\ Empty \in Path \ {NULL}
    BY <1>0, PathsOf, Zenon
  <2> HIDE DEF src
  <2>3. e \in Event /\ e.src = src
    BY <2>1, <2>2, EventOf, ZenonT(60)
  <2> HIDE DEF e
  <2>4. cmd' = [name |-> name, arg |-> f, ok |-> FALSE, errno |-> "FAILURE", event |-> e]
    BY <1>4, Zenon DEF Started, e, src
  <2> QED BY <1>0, <1>1, <1>4, <2>1, <2>3, <2>4, PreCommand, Zenon DEF Before
<1> QED BY <1>2, <1>3, <1>4, Zenon DEF PreFile, h

\* The handler before RNFR, which may first record an earlier RNFR.
LEMMA PreRnfrStep ==
    ASSUME IInv, NEW f \in Files, solaris_audit_pre_rnfr(f)
    PROVE  Rest'
<1>0. /\ "RNFR" \in CmdNames /\ Types /\ src_realpath \in Path \ {NULL}
      /\ src_path \in Files \cup {NULL}
  BY Zenon DEF CmdNames, IInv, Types
<1>1. UNCHANGED <<fs, src_realpath>>
  BY DEF solaris_audit_pre_rnfr
<1>2. PICK u \in solaris_audit_rnfr_err :
        /\ trail' = u.records
        /\ \/ NoEvent("RNFR", f) /\ src_path' = NULL
           \/ /\ cmd' = Started("RNFR", f, Paths(Arg(f), Empty, FALSE))
              /\ \/ src_path' = NULL /\ pc' = "post_err" /\ fault' = TRUE
                 \/ src_path' = f /\ pc' = "run" /\ fault' = u.fault
  BY Zenon DEF solaris_audit_pre_rnfr
<1>3. Before("RNFR", trail')
  <2> DEFINE e == Paths(Arg(src_path), NULL, FALSE)
             r == Recorded("RNFR", FALSE, "FAILURE", e)
  <2>1. r.event.dst = NULL
    BY Zenon DEF Recorded, Paths
  <2> HIDE DEF r
  <2>2. u.records = << >> \/ u.records = Put(privs.E, <<r>>)
    BY SMTT(60) DEF solaris_audit_rnfr_err, r
  <2>3. u.records = << >> \/ u.records = <<r>>
    BY <2>2, Zenon DEF Put
  <2>4. <<r>>[1] = r
    OBVIOUS
  <2> QED BY <1>2, <2>1, <2>3, <2>4, Zenon DEF Before
<1> DEFINE e == Paths(Arg(f), Empty, FALSE)
<1>4. e \in Event /\ Names(e.src, f)
  <2>1. /\ Arg(f) \in Path /\ Empty \in Path \ {NULL} /\ FALSE \in BOOLEAN
        /\ Names(Arg(f), f)
    BY <1>0, PathsOf, Zenon
  <2>2. e \in Event /\ e.src = Arg(f)
    BY <2>1, EventOf, Zenon
  <2> QED BY <2>1, <2>2, Zenon
<1> HIDE DEF e
<1>5. CASE NoEvent("RNFR", f) /\ src_path' = NULL
  BY <1>0, <1>1, <1>3, <1>5, PreCommand, Zenon DEF NoEvent, Started
<1>6. CASE /\ cmd' = Started("RNFR", f, e)
           /\ \/ src_path' = NULL /\ pc' = "post_err"
              \/ src_path' = f /\ pc' = "run"
  <2>1. cmd' = [name |-> "RNFR", arg |-> f, ok |-> FALSE, errno |-> "FAILURE", event |-> e]
    BY <1>6, Zenon DEF Started
  <2>2. /\ pc' \in {"run", "post_err"} /\ src_path' \in Files \cup {NULL}
        /\ pc' = "run" => src_path' # NULL
    BY <1>6, NullAssumption
  <2> QED BY <1>0, <1>1, <1>3, <1>4, <2>1, <2>2, PreCommand, Zenon
<1> QED BY <1>2, <1>5, <1>6, Zenon DEF e

\* The handler before RNTO.
LEMMA PreRntoStep ==
    ASSUME IInv, NEW f \in Files, solaris_audit_pre_rnto(f)
    PROVE  Rest'
<1> DEFINE there == src_path # NULL /\ fs[src_path]
           src == IF src_path = NULL THEN Empty ELSE Arg(src_path)
           e == Paths(src, Arg(f), there)
<1>0. /\ "RNTO" \in CmdNames /\ Types /\ src_realpath \in Path \ {NULL}
      /\ src_path \in Files \cup {NULL}
  BY Zenon DEF CmdNames, IInv, Types
<1>1. UNCHANGED <<fs, src_path, src_realpath>> /\ trail' = << >>
  BY Zenon DEF solaris_audit_pre_rnto, audit_vars
<1>2. src \in Path /\ there \in BOOLEAN
  <2>1. CASE src_path = NULL
    BY <2>1, Zenon DEF Path
  <2>2. CASE src_path \in Files
    BY <1>0, <2>2, PathsOf, Zenon
  <2> QED BY <1>0, <2>1, <2>2
<1>3. Arg(f) \in Path \ {NULL}
  BY <1>0, PathsOf
<1>4. there => src_path # NULL
  OBVIOUS
<1> HIDE DEF src, there
<1>5. e \in Event
  BY <1>2, <1>3, EventOf, Zenon
<1> HIDE DEF e
<1>6. CASE NoEvent("RNTO", f)
  BY <1>0, <1>1, <1>6, PreCommand, Zenon DEF NoEvent, Started, Before
<1>7. CASE cmd' = Started("RNTO", f, e) /\ pc' = IF there THEN "run" ELSE "post_err"
  <2>1. cmd' = [name |-> "RNTO", arg |-> f, ok |-> FALSE, errno |-> "FAILURE", event |-> e]
    BY <1>7, Zenon DEF Started
  <2>2. pc' \in {"run", "post_err"} /\ (pc' = "run" => src_path' # NULL)
    BY <1>1, <1>4, <1>7, Zenon
  <2> QED BY <1>0, <1>1, <1>5, <2>1, <2>2, PreCommand, Zenon DEF Before
<1> QED BY <1>6, <1>7, Zenon DEF solaris_audit_pre_rnto, e, src, there

\* The command itself.
LEMMA CommandStep ==
    ASSUME IInv, CommandSucceeds \/ CommandFails
    PROVE  Rest'
<1>1. /\ pc = "run" /\ pc' \in {"post", "post_err"}
      /\ UNCHANGED <<src_path, src_realpath, trail, fault, raced>>
      /\ \E errno : cmd' = [cmd EXCEPT !.errno = errno]
  BY Zenon DEF CommandSucceeds, CommandFails, audit_vars
<1>2. cmd'.name = cmd.name /\ cmd'.arg = cmd.arg /\ cmd'.event = cmd.event /\ IsCmd(cmd')
  <2>1. PICK n, a, o, e, w : cmd = [name |-> n, arg |-> a, ok |-> o, errno |-> e, event |-> w]
    BY DEF IInv, Types, IsCmd
  <2>2. PICK errno : cmd' = [cmd EXCEPT !.errno = errno]
    BY <1>1, Zenon
  <2>3. cmd' = [name |-> n, arg |-> a, ok |-> o, errno |-> errno, event |-> w]
    BY <2>1, <2>2
  <2> QED BY <2>1, <2>3, Zenon DEF IsCmd
<1>3. fs' \in [Files -> BOOLEAN]
  <2>1. fs \in [Files -> BOOLEAN]
    BY DEF IInv, Types
  <2>2. \A a, b : [fs EXCEPT ![a] = FALSE, ![b] = TRUE] \in [Files -> BOOLEAN]
    BY <2>1, Zenon
  <2>3. \A a : [fs EXCEPT ![a] = FALSE] \in [Files -> BOOLEAN]
               /\ [fs EXCEPT ![a] = TRUE] \in [Files -> BOOLEAN]
    BY <2>1, Zenon
  <2> QED BY <2>1, <2>2, <2>3, Zenon DEF CommandSucceeds, CommandFails, FilesAfter
<1>4. Types'
  BY <1>1, <1>2, <1>3 DEF IInv, Types, Busy
<1>5. EventInv'
  BY <1>1, <1>2, Zenon DEF IInv, EventInv, Busy
<1>6. LoginInv' /\ TrailInv' /\ CommandRecorded'
  BY <1>1, Zenon DEF IInv, LoginInv, TrailInv, CommandRecorded, Early
<1>7. FileInv'
  <2> SUFFICES ASSUME pc' = "post", cmd.name \in Leaving PROVE fs'[cmd.arg]
    BY <1>2, Zenon DEF FileInv
  <2>1. CommandSucceeds /\ cmd.arg \in Files /\ fs \in [Files -> BOOLEAN]
    BY <1>1 DEF CommandFails, IInv, EventInv, Busy, Types
  <2>2. CASE cmd.name \in {"MDTM", "RETR"}
    BY <2>1, <2>2, Zenon DEF CommandSucceeds, Possible, FilesAfter
  <2>3. CASE cmd.name \in {"MKD", "STOR"}
    BY <2>1, <2>3 DEF CommandSucceeds, FilesAfter
  <2>4. CASE cmd.name = "RNTO"
    BY <2>1, <2>4 DEF CommandSucceeds, FilesAfter
  <2> QED BY <2>2, <2>3, <2>4, Zenon DEF Leaving
<1> QED BY <1>4, <1>5, <1>6, <1>7 DEF Rest

\* Another process creates or removes a file.
LEMMA OtherStep ==
    ASSUME IInv, NEW f \in Files, OtherProcess(f)
    PROVE  Rest'
<1>1. /\ pc \notin Early /\ pc # "end" /\ fs' = [fs EXCEPT ![f] = ~fs[f]]
      /\ raced' = (raced \/ (pc = "post" /\ fs[f] /\ f = cmd.arg))
      /\ UNCHANGED <<src_path, src_realpath, asession, cmd, pc, trail, fault, priv_vars>>
  BY Zenon DEF OtherProcess, Early, audit_vars
<1>2. fs \in [Files -> BOOLEAN] /\ fs' \in [Files -> BOOLEAN]
  <2>1. fs \in [Files -> BOOLEAN]
    BY Zenon DEF IInv, Types
  <2> QED BY <1>1, <2>1
<1>3. Types'
  BY <1>1, <1>2, Zenon DEF IInv, Types
<1>4. LoginInv' /\ EventInv' /\ TrailInv'
  BY <1>1, Zenon DEF IInv, LoginInv, EventInv, TrailInv
<1>5. FileInv'
  <2> SUFFICES ASSUME pc = "post", ~raced', cmd.name \in Leaving PROVE fs'[cmd.arg]
    BY <1>1 DEF FileInv
  <2>1. ~raced /\ ~(fs[f] /\ f = cmd.arg)
    BY <1>1, Zenon
  <2>2. fs[cmd.arg] /\ cmd.arg \in Files
    BY <2>1, Zenon DEF IInv, FileInv, EventInv, Busy
  <2> QED BY <1>1, <1>2, <2>1, <2>2, Zenon
<1>6. CommandRecorded'
  <2>1. CASE pc = "idle"
    <3>1. raced' <=> raced
      BY <1>1, <2>1, Zenon
    <3>2. HalfLowered' <=> HalfLowered
      BY <1>1, Zenon DEF HalfLowered, priv_vars
    <3> QED BY <1>1, <3>1, <3>2, Zenon DEF IInv, CommandRecorded
  <2>2. CASE pc # "idle"
    BY <1>1, <2>2, Zenon DEF CommandRecorded
  <2> QED BY <2>1, <2>2, Zenon
<1> QED BY <1>3, <1>4, <1>5, <1>6, Zenon DEF Rest

-----------------------------------------------------------------------------
\* What the handlers after a command fill in.
LEMMA Fills ==
    ASSUME NEW name \in DOMAIN solaris_audit_commands
    PROVE  /\ solaris_audit_commands[name].fill \in {"none", "attr", "path"}
           /\ solaris_audit_commands[name].fill # "none" => name \in Leaving
<1>1. /\ dele.fill = "none" /\ mkd.fill = "path" /\ rmd.fill = "none"
      /\ mdtm.fill = "attr" /\ put.fill = "path" /\ get.fill = "attr"
  BY DEF dele, mkd, rmd, mdtm, put, get
<1>2. name \in {"DELE", "MKD", "RMD", "MDTM", "STOR", "RETR"}
  BY FileCommands, Zenon
<1>3. /\ solaris_audit_commands["DELE"] = dele /\ solaris_audit_commands["MKD"] = mkd
      /\ solaris_audit_commands["RMD"] = rmd /\ solaris_audit_commands["MDTM"] = mdtm
      /\ solaris_audit_commands["STOR"] = put /\ solaris_audit_commands["RETR"] = get
  BY DEF solaris_audit_commands
<1> QED BY <1>1, <1>2, <1>3, Zenon DEF Leaving

\* A command is over.
LEMMA BackToIdle ==
    ASSUME IInv, pc' = "idle", UNCHANGED fs,
           src_path' \in Files \cup {NULL}, src_realpath' \in Path \ {NULL},
           CommandRecorded', Short(trail'), IsCmd(cmd'), cmd'.event = NULL
    PROVE  Rest'
<1>1. Types'
  BY Zenon DEF IInv, Types
<1>2. LoginInv' /\ EventInv' /\ FileInv' /\ TrailInv'
  BY DEF LoginInv, EventInv, FileInv, TrailInv, Early, Busy
<1> QED BY <1>1, <1>2 DEF Rest

\* An event of the command with members that are filled in.
LEMMA Refilled ==
    ASSUME NEW e \in Event
    PROVE  /\ e.dst # NULL /\ e # NULL
           /\ \A p \in Path : [e EXCEPT !.src = p] \in Event
           /\ [e EXCEPT !.attr = TRUE] \in Event /\ [e EXCEPT !.attr = TRUE].src = e.src
           /\ \A p \in Path, q \in Path \ {NULL} :
                [e EXCEPT !.src = p, !.dst = q] \in Event
                /\ [e EXCEPT !.src = p, !.dst = q].dst = q
<1>1. e.dst # NULL /\ e # NULL
  BY NullAssumption DEF Event
<1>2. [e EXCEPT !.attr = TRUE] \in Event /\ [e EXCEPT !.attr = TRUE].src = e.src
  BY Zenon DEF Event
<1>3. ASSUME NEW p \in Path PROVE [e EXCEPT !.src = p] \in Event
  BY DEF Event
<1>4. ASSUME NEW p \in Path, NEW q \in Path \ {NULL}
      PROVE  [e EXCEPT !.src = p, !.dst = q] \in Event
             /\ [e EXCEPT !.src = p, !.dst = q].dst = q
  BY Zenon DEF Event
<1> QED BY <1>1, <1>2, <1>3, <1>4, Zenon

\* The handler after a command on one file that succeeded.
LEMMA PostFileStep ==
    ASSUME IInv, PostFile
    PROVE  Rest'
<1> DEFINE h == solaris_audit_commands[cmd.name]
           filled == IF h.fill = "none" THEN cmd.event
                     ELSE IF ~fs[cmd.arg] THEN NULL
                     ELSE IF h.fill = "attr" THEN [cmd.event EXCEPT !.attr = TRUE]
                     ELSE Paths(Real(cmd.arg), Empty, TRUE)
<1>1. /\ pc = "post" /\ cmd.name \in DOMAIN solaris_audit_commands
      /\ solaris_audit_post(TRUE, filled)
      /\ src_realpath' = IF h.fill = "path" THEN realpath(cmd.arg) ELSE src_realpath
      /\ pc' = "idle" /\ UNCHANGED <<fs, asession, src_path, raced, priv_vars>>
  BY Zenon DEF PostFile
<1>2. /\ Types /\ cmd.arg \in Files /\ cmd.event \in Event /\ Names(cmd.event.src, cmd.arg)
      /\ cmd.name # "RNTO" /\ cmd.name # "RNFR"
      /\ src_path \in Files \cup {NULL} /\ src_realpath \in Path \ {NULL}
  BY <1>1, FileCommands, Zenon DEF IInv, EventInv, Busy, Types
<1>3. /\ h.fill \in {"none", "attr", "path"}
      /\ h.fill # "none" /\ ~raced => fs[cmd.arg]
  BY <1>1, Fills DEF IInv, FileInv
<1> DEFINE e == Paths(Real(cmd.arg), Empty, TRUE)
<1>4. e \in Event /\ Names(e.src, cmd.arg)
  <2>1. /\ Real(cmd.arg) \in Path /\ Empty \in Path \ {NULL} /\ TRUE \in BOOLEAN
        /\ Names(Real(cmd.arg), cmd.arg)
    BY <1>2, PathsOf, Zenon
  <2>2. e \in Event /\ e.src = Real(cmd.arg)
    BY <2>1, EventOf, ZenonT(60)
  <2> QED BY <2>1, <2>2, Zenon
<1>5. /\ filled = NULL \/ (filled \in Event /\ Names(filled.src, cmd.arg))
      /\ ~raced => filled # NULL
  <2> DEFINE g == [cmd.event EXCEPT !.attr = TRUE]
  <2>1. g \in Event /\ g.src = cmd.event.src
    BY <1>2, Refilled, Zenon
  <2>2. e # NULL /\ g # NULL /\ cmd.event # NULL
    BY <1>2, <1>4, <2>1, NullAssumption, Zenon
  <2> HIDE DEF e, g
  <2>3. CASE h.fill = "none"
    BY <1>2, <2>2, <2>3
  <2>4. CASE h.fill # "none" /\ ~fs[cmd.arg]
    BY <1>3, <2>4, Zenon
  <2>5. CASE h.fill = "attr" /\ fs[cmd.arg]
    <3>1. filled = g
      BY <2>5 DEF g
    <3> QED BY <1>2, <2>1, <2>2, <3>1, Zenon
  <2>6. CASE h.fill = "path" /\ fs[cmd.arg]
    <3>1. filled = e
      BY <2>6 DEF e
    <3> QED BY <1>4, <2>2, <3>1, Zenon
  <2> QED BY <1>3, <2>3, <2>4, <2>5, <2>6, Zenon
<1> HIDE DEF filled, h
<1>6. filled = NULL \/ filled.dst # NULL
  BY <1>5, Refilled, Zenon
<1>7. CommandRecorded' /\ Short(trail') /\ IsCmd(cmd') /\ cmd'.event = NULL
  BY <1>1, <1>2, <1>5, <1>6, PostEnds, Zenon
<1>8. src_realpath' \in Path \ {NULL}
  BY <1>1, <1>2, PathsOf, Zenon
<1> QED BY <1>1, <1>2, <1>7, <1>8, BackToIdle, Zenon

\* The handler after a command on one file that failed.
LEMMA PostFileErrStep ==
    ASSUME IInv, PostFileErr
    PROVE  Rest'
<1> DEFINE h == solaris_audit_commands[cmd.name]
           fill == h.fill_err = "path" /\ cmd.event # NULL
           e == Paths(Real(cmd.arg), Empty, TRUE)
           filled == IF fill /\ fs[cmd.arg] THEN e ELSE cmd.event
<1>1. /\ pc = "post_err" /\ cmd.name \in DOMAIN solaris_audit_commands
      /\ solaris_audit_post(FALSE, filled)
      /\ src_realpath' = IF fill THEN realpath(cmd.arg) ELSE src_realpath
      /\ pc' = "idle" /\ UNCHANGED <<fs, asession, src_path, raced, priv_vars>>
  BY Zenon DEF PostFileErr
<1>2. /\ Types /\ cmd.arg \in Files
      /\ src_path \in Files \cup {NULL} /\ src_realpath \in Path \ {NULL}
  BY <1>1, Zenon DEF IInv, EventInv, Busy, Types
<1>3. cmd.event \in Event \cup {NULL}
  BY DEF IInv, Types
<1>4. e \in Event
  <2>1. Real(cmd.arg) \in Path /\ Empty \in Path \ {NULL} /\ TRUE \in BOOLEAN
    BY <1>2, PathsOf, Zenon
  <2> QED BY <2>1, EventOf, Zenon
<1> HIDE DEF e
<1>5. filled \in Event \cup {NULL} /\ (cmd.event # NULL => filled # NULL)
  <2>1. e # NULL
    BY <1>4, NullAssumption
  <2> QED BY <1>3, <1>4, <2>1, Zenon
<1> HIDE DEF filled, fill
<1>6. filled = NULL \/ filled.dst # NULL
  BY <1>5, Refilled, Zenon
<1>7. CommandRecorded' /\ Short(trail') /\ IsCmd(cmd') /\ cmd'.event = NULL
  BY <1>1, <1>5, <1>6, PostEnds, Zenon
<1>8. src_realpath' \in Path \ {NULL}
  BY <1>1, <1>2, PathsOf, Zenon
<1> QED BY <1>1, <1>2, <1>7, <1>8, BackToIdle, Zenon

\* The handler after an RNFR that succeeded: it leaves no record.
LEMMA PostRnfrStep ==
    ASSUME IInv, solaris_audit_post_rnfr
    PROVE  Rest'
<1>1. /\ pc = "post" /\ cmd.name = "RNFR" /\ pc' = "idle"
      /\ cmd' = [cmd EXCEPT !.event = NULL, !.ok = TRUE]
      /\ src_realpath' = realpath(src_path)
      /\ UNCHANGED <<fs, asession, src_path, trail, fault, raced>>
  BY Zenon DEF solaris_audit_post_rnfr
<1>2. /\ Types /\ IsCmd(cmd) /\ src_path \in Files \cup {NULL} /\ Short(trail)
      /\ Before("RNFR", trail)
  BY <1>1 DEF IInv, Types, TrailInv, EventInv, Busy, Before
<1>3. cmd' = [name |-> cmd.name, arg |-> cmd.arg, ok |-> TRUE, errno |-> cmd.errno,
              event |-> NULL]
  BY <1>1, <1>2, EventGone, Zenon
<1>4. cmd'.name = "RNFR" /\ cmd'.ok = TRUE /\ IsCmd(cmd') /\ cmd'.event = NULL
  BY <1>1, <1>3, Zenon DEF IsCmd
<1>5. Own(trail) = {} /\ Len(trail) <= 1
  <2>1. CASE trail = << >>
    <3>1. DOMAIN << >> = {} /\ Len(<< >>) = 0
      BY SMTT(60)
    <3> QED BY <2>1, <3>1 DEF Own, Range
  <2>2. CASE trail = <<trail[1]>> /\ trail[1].event.dst = NULL
    <3>1. PICK a : trail = <<a>> /\ a.event.dst = NULL
      BY <2>2
    <3>2. DOMAIN <<a>> = {1} /\ <<a>>[1] = a /\ Len(<<a>>) = 1
      BY SMTT(60)
    <3> QED BY <3>1, <3>2, SMTT(60) DEF Own, Range
  <2> QED BY <1>2, <2>1, <2>2, Zenon DEF Before
<1>6. CommandRecorded'
  <2>1. Own(trail') = {} /\ Len(trail') <= 1
    BY <1>1, <1>5, Zenon
  <2> QED BY <1>4, <2>1, SMTT(60) DEF CommandRecorded, Own
<1>7. realpath(src_path) \in Path \ {NULL}
  <2>1. src_path \in Files
    BY <1>1, Zenon DEF IInv, EventInv, Busy, Types
  <2> QED BY <1>2, <2>1, PathsOf, Zenon
<1> QED BY <1>1, <1>2, <1>4, <1>6, <1>7, BackToIdle, Zenon

\* The handler after an RNFR that failed.
LEMMA PostRnfrErrStep ==
    ASSUME IInv, solaris_audit_post_rnfr_err
    PROVE  Rest'
<1> DEFINE fill == src_path # NULL /\ cmd.event # NULL
           g == [cmd.event EXCEPT !.src = Real(src_path)]
           filled == IF fill /\ fs[cmd.arg] THEN g ELSE cmd.event
<1>1. /\ pc = "post_err" /\ cmd.name = "RNFR"
      /\ solaris_audit_post(FALSE, filled)
      /\ src_realpath' = IF fill THEN realpath(src_path) ELSE src_realpath
      /\ src_path' = NULL /\ pc' = "idle" /\ UNCHANGED <<fs, asession, raced, priv_vars>>
  BY Zenon DEF solaris_audit_post_rnfr_err
<1>2. /\ Types /\ cmd.event \in Event \cup {NULL}
      /\ src_path \in Files \cup {NULL} /\ src_realpath \in Path \ {NULL}
  BY DEF IInv, Types
<1>3. ASSUME fill PROVE g \in Event /\ realpath(src_path) \in Path \ {NULL}
  <2>1. cmd.event \in Event /\ src_path \in Files
    BY <1>2, <1>3, Zenon
  <2>2. Real(src_path) \in Path /\ realpath(src_path) \in Path \ {NULL}
    BY <1>2, <2>1, PathsOf
  <2> QED BY <2>1, <2>2, Refilled, Zenon
<1>4. filled \in Event \cup {NULL} /\ (cmd.event # NULL => filled # NULL)
  <2>1. fill => g # NULL
    BY <1>3, NullAssumption
  <2> HIDE DEF g, fill
  <2> QED BY <1>2, <1>3, <2>1, Zenon
<1>5. src_realpath' \in Path \ {NULL}
  BY <1>1, <1>2, <1>3, ZenonT(60)
<1> HIDE DEF filled, fill
<1>6. filled = NULL \/ filled.dst # NULL
  BY <1>4, Refilled, Zenon
<1>7. CommandRecorded' /\ Short(trail') /\ IsCmd(cmd') /\ cmd'.event = NULL
  BY <1>1, <1>4, <1>6, PostEnds, Zenon
<1> QED BY <1>1, <1>5, <1>7, BackToIdle, Zenon

\* The handler after an RNTO that succeeded.
LEMMA PostRntoStep ==
    ASSUME IInv, solaris_audit_post_rnto
    PROVE  Rest'
<1> DEFINE g == [cmd.event EXCEPT !.src = src_realpath, !.dst = Real(cmd.arg)]
           filled == IF src_path # NULL /\ fs[cmd.arg] THEN g ELSE NULL
<1>1. /\ pc = "post" /\ cmd.name = "RNTO"
      /\ solaris_audit_post(TRUE, filled)
      /\ src_path' = NULL /\ pc' = "idle"
      /\ UNCHANGED <<fs, asession, src_realpath, raced, priv_vars>>
  BY Zenon DEF solaris_audit_post_rnto
<1>2. /\ Types /\ cmd.event \in Event /\ cmd.arg \in Files /\ src_path # NULL
      /\ src_realpath \in Path \ {NULL}
      /\ ~raced => fs[cmd.arg]
  BY <1>1 DEF IInv, Types, EventInv, FileInv, Busy, Leaving
<1>3. g \in Event /\ g.dst = Real(cmd.arg) /\ g # NULL /\ Names(Real(cmd.arg), cmd.arg)
  <2>1. Real(cmd.arg) \in Path \ {NULL} /\ src_realpath \in Path
        /\ Names(Real(cmd.arg), cmd.arg)
    BY <1>2, PathsOf
  <2>2. g \in Event /\ g.dst = Real(cmd.arg)
    BY <1>2, <2>1, Zenon DEF Event
  <2> QED BY <2>1, <2>2, NullAssumption, Zenon
<1> HIDE DEF g
<1>4. /\ filled = NULL \/ filled.dst # NULL
      /\ ~raced => filled # NULL /\ Names(filled.dst, cmd.arg)
  <2>1. g.dst # NULL
    BY <1>3, Refilled, Zenon
  <2> QED BY <1>2, <1>3, <2>1, Zenon
<1> HIDE DEF filled
<1>5. CommandRecorded' /\ Short(trail') /\ IsCmd(cmd') /\ cmd'.event = NULL
  BY <1>1, <1>4, PostEnds, Zenon
<1> QED BY <1>1, <1>2, <1>5, BackToIdle, Zenon

\* The handler after an RNTO that failed.
LEMMA PostRntoErrStep ==
    ASSUME IInv, solaris_audit_post_rnto_err
    PROVE  Rest'
<1> DEFINE g == [cmd.event EXCEPT !.src = src_realpath, !.dst = realpath(cmd.arg)]
           filled == IF cmd.event = NULL THEN NULL ELSE g
<1>1. /\ pc = "post_err" /\ cmd.name = "RNTO"
      /\ solaris_audit_post(FALSE, filled)
      /\ src_path' = NULL /\ pc' = "idle"
      /\ UNCHANGED <<fs, asession, src_realpath, raced, priv_vars>>
  BY Zenon DEF solaris_audit_post_rnto_err
<1>2. /\ Types /\ cmd.event \in Event \cup {NULL} /\ cmd.arg \in Files
      /\ src_realpath \in Path \ {NULL}
  BY <1>1 DEF IInv, Types, EventInv, Busy
<1>3. cmd.event # NULL => g \in Event
  <2>1. realpath(cmd.arg) \in Path \ {NULL} /\ src_realpath \in Path
    BY <1>2, PathsOf
  <2> QED BY <1>2, <2>1, Refilled, Zenon
<1> HIDE DEF g
<1>4. /\ filled = NULL \/ filled.dst # NULL
      /\ cmd.event # NULL => filled # NULL
  <2>1. cmd.event # NULL => g # NULL /\ g.dst # NULL
    BY <1>3, Refilled, Zenon
  <2> QED BY <2>1, Zenon
<1> HIDE DEF filled
<1>5. CommandRecorded' /\ Short(trail') /\ IsCmd(cmd') /\ cmd'.event = NULL
  BY <1>1, <1>4, PostEnds, Zenon
<1> QED BY <1>1, <1>2, <1>5, BackToIdle, Zenon

-----------------------------------------------------------------------------
\* Every step keeps the invariant.
LEMMA StepInv == IInv /\ [Next]_vars => IInv'
<1> SUFFICES ASSUME IInv, [Next]_vars PROVE IInv'
  OBVIOUS
<1>1. CanAudit'
  BY PrivsStep, Zenon
<1>2. CASE \/ audit_sess_init \/ solaris_priv_sess_init \/ audit_autherr_ev
           \/ solaris_audit_post_fail \/ PostPass \/ SetreuidFails \/ audit_exit_ev
  BY <1>1, <1>2, SessionStep, Zenon DEF IInv, Rest
<1>3. ASSUME NEW f \in Files,
             \/ \E name \in DOMAIN solaris_audit_commands : PreFile(name, f)
             \/ solaris_audit_pre_rnfr(f) \/ solaris_audit_pre_rnto(f) \/ OtherProcess(f)
      PROVE  IInv'
  BY <1>1, <1>3, PreFileStep, PreRnfrStep, PreRntoStep, OtherStep, Zenon DEF IInv, Rest
<1>4. CASE CommandSucceeds \/ CommandFails \/ PostFile \/ PostFileErr
  BY <1>1, <1>4, CommandStep, PostFileStep, PostFileErrStep, Zenon DEF IInv, Rest
<1>5. CASE \/ solaris_audit_post_rnfr \/ solaris_audit_post_rnfr_err
           \/ solaris_audit_post_rnto \/ solaris_audit_post_rnto_err
  BY <1>1, <1>5, PostRnfrStep, PostRnfrErrStep, PostRntoStep, PostRntoErrStep, Zenon DEF IInv, Rest
<1>6. CASE UNCHANGED vars
  <2>1. /\ UNCHANGED <<fs, asession, src_path, src_realpath, cmd, pc, trail, fault, raced>>
        /\ HalfLowered' <=> HalfLowered
    BY <1>6, Zenon DEF vars, audit_vars, priv_vars, HalfLowered
  <2>2. Types' /\ LoginInv' /\ EventInv'
    BY <2>1, Zenon DEF IInv, Types, LoginInv, EventInv
  <2>3. FileInv' /\ TrailInv' /\ CommandRecorded'
    BY <2>1, Zenon DEF IInv, FileInv, TrailInv, CommandRecorded
  <2> QED BY <1>1, <2>2, <2>3, Zenon DEF IInv
<1> QED BY <1>2, <1>3, <1>4, <1>5, <1>6, Zenon DEF Next

\* A command that is over has left exactly one record with its outcome and its
\* file, for any files and configuration.
THEOREM CommandsRecorded == Spec => []CommandRecorded
<1>1. IInv => CommandRecorded
  BY DEF IInv
<1> QED BY <1>1, InitInv, StepInv, PTL DEF Spec

\* An audit session that a login has opened ends with the record of the logout, or
\* with that of a PASS that was refused later.
THEOREM LogoutsRecorded == Spec => LogoutRecorded
<1> DEFINE Closed == \/ fault' \/ HalfLowered
                     \/ /\ ~asession' /\ trail' # << >>
                        /\ trail'[Len(trail')].kind = IF pc' = "end" THEN "logout" ELSE "login"
<1>1. ASSUME IInv, Next, asession, ~asession' \/ pc' = "end"
      PROVE  Closed
  <2>0. /\ pc \notin Early /\ exitHandler /\ (pc # "end" => Short(trail))
        /\ HalfLowered \/ "PROC_AUDIT" \in privs.E
    BY <1>1, Zenon DEF IInv, LoginInv, TrailInv, CanAudit
  <2>1. CASE audit_exit_ev
    <3> DEFINE r == [kind |-> "logout", ok |-> TRUE]
    <3>1. r.kind = "logout"
      OBVIOUS
    <3>2. pc # "end" /\ pc' = "end" /\ audit_logout
      BY <2>0, <2>1, Zenon DEF audit_exit_ev
    <3>3. PICK failed \in BOOLEAN :
            /\ fault' = failed /\ ~asession'
            /\ trail' = IF failed THEN trail ELSE trail \o Put(privs.E, <<r>>)
      BY <3>2, Zenon DEF audit_logout
    <3> HIDE DEF r
    <3>4. CASE failed = TRUE
      BY <3>3, <3>4, Zenon
    <3>5. CASE HalfLowered
      BY <3>5, Zenon
    <3>6. CASE failed = FALSE /\ ~HalfLowered
      <4>1. trail' = trail \o <<r>>
        BY <1>1, <2>0, <3>3, <3>6, Zenon DEF Put
      <4>2. trail' # << >> /\ trail'[Len(trail')] = r
        BY <2>0, <3>2, <4>1, ShortEnds, Zenon
      <4> QED BY <3>1, <3>2, <3>3, <4>2, Zenon
    <3> QED BY <3>4, <3>5, <3>6, Zenon
  <2>2. CASE solaris_audit_post_fail
    <3> DEFINE r == [kind |-> "login", ok |-> FALSE, err |-> auth_retval]
    <3>1. r.kind = "login"
      OBVIOUS
    <3>2. PICK failed \in BOOLEAN :
            /\ fault' = failed /\ ~asession' /\ pc' # "end"
            /\ trail' = IF failed \/ "PROC_AUDIT" \notin privs.E THEN << >> ELSE <<r>>
      BY <2>2, Zenon DEF solaris_audit_post_fail
    <3> HIDE DEF r
    <3>3. CASE failed = TRUE \/ HalfLowered
      BY <3>2, <3>3, Zenon
    <3>4. CASE failed = FALSE /\ ~HalfLowered
      <4>1. trail' = <<r>>
        BY <2>0, <3>2, <3>4, Zenon
      <4>2. <<r>> # << >> /\ <<r>>[Len(<<r>>)] = r
        BY SMTT(60)
      <4> QED BY <3>1, <3>2, <4>1, <4>2, Zenon
    <3> QED BY <3>3, <3>4, Zenon
  <2> HIDE DEF Closed
  <2>3. ~(\/ PostPass \/ audit_sess_init \/ solaris_priv_sess_init \/ audit_autherr_ev
          \/ SetreuidFails)
    BY <2>0, Zenon DEF PostPass, audit_sess_init, solaris_priv_sess_init, audit_autherr_ev,
         SetreuidFails, Early
  <2>4. ASSUME NEW f, NEW name,
               \/ PreFile(name, f) \/ solaris_audit_pre_rnfr(f)
               \/ solaris_audit_pre_rnto(f) \/ OtherProcess(f)
        PROVE  FALSE
    <3>1. CASE PreFile(name, f)
      BY <1>1, <3>1, Zenon DEF PreFile, NoEvent
    <3>2. CASE solaris_audit_pre_rnfr(f)
      BY <1>1, <3>2, Zenon DEF solaris_audit_pre_rnfr, NoEvent
    <3>3. CASE solaris_audit_pre_rnto(f)
      <4>1. UNCHANGED asession /\ (pc' = "run" \/ pc' = "post_err")
        BY <3>3, Zenon DEF solaris_audit_pre_rnto, NoEvent, audit_vars
      <4> QED BY <1>1, <4>1, Zenon
    <3>4. CASE OtherProcess(f)
      BY <1>1, <3>4, Zenon DEF OtherProcess, audit_vars
    <3> QED BY <2>4, <3>1, <3>2, <3>3, <3>4, Zenon
  <2>5. ~(CommandSucceeds \/ CommandFails \/ PostFile \/ PostFileErr)
    BY <1>1, Zenon DEF CommandSucceeds, CommandFails, PostFile, PostFileErr, audit_vars
  <2>6. ~(\/ solaris_audit_post_rnfr \/ solaris_audit_post_rnfr_err
          \/ solaris_audit_post_rnto \/ solaris_audit_post_rnto_err)
    BY <1>1, Zenon DEF solaris_audit_post_rnfr, solaris_audit_post_rnfr_err,
         solaris_audit_post_rnto, solaris_audit_post_rnto_err
  <2> QED BY <1>1, <2>1, <2>2, <2>3, <2>4, <2>5, <2>6, Zenon DEF Next
<1>2. IInv /\ [Next]_vars => [asession /\ (~asession' \/ pc' = "end") => Closed]_vars
  <2> HIDE DEF Closed
  <2> QED BY <1>1, Zenon
<1> QED BY <1>2, InitInv, StepInv, PTL DEF Spec, LogoutRecorded

-----------------------------------------------------------------------------
\* The source of a rename is the path of the RNFR, from its first handler until
\* a record of it has been put.
RenameInv ==
    /\ pc \in Busy /\ cmd.name = "RNFR" /\ src_path # NULL =>
         src_path = cmd.arg /\ cmd.event \in Event /\ Names(cmd.event.src, src_path)
    /\ rename # NULL =>
         /\ src_path = rename
         /\ Names(src_realpath, rename) \/ (pc = "post" /\ cmd.name = "RNFR")
         /\ pc \in Busy => cmd.name = "RNTO" \/ (pc = "post" /\ cmd.name = "RNFR")

\* There is no rename before the session starts.
LEMMA InitRename == Init => RenameInv
  BY Zenon DEF Init, RenameInv, Busy

\* Every step keeps what the source of a rename names.
LEMMA StepRename == IInv /\ RenameInv /\ [Next]_vars => RenameInv'
<1> SUFFICES ASSUME IInv, RenameInv, [Next]_vars PROVE RenameInv'
  BY Zenon
<1>1. CASE \/ audit_sess_init \/ solaris_priv_sess_init \/ audit_autherr_ev
           \/ solaris_audit_post_fail \/ PostPass \/ SetreuidFails \/ audit_exit_ev
  <2>1. /\ pc # "post" /\ pc' \notin Busy
        /\ rename' = NULL \/ UNCHANGED <<src_path, src_realpath, cmd, rename>>
    <3>1. CASE audit_sess_init \/ solaris_priv_sess_init \/ audit_autherr_ev
      BY <3>1, Zenon
         DEF audit_sess_init, solaris_priv_sess_init, audit_autherr_ev, audit_vars, Busy
    <3>2. CASE solaris_audit_post_fail \/ PostPass \/ SetreuidFails \/ audit_exit_ev
      BY <3>2, Zenon DEF solaris_audit_post_fail, PostPass, SetreuidFails, audit_exit_ev, Busy
    <3> QED BY <1>1, <3>1, <3>2, Zenon
  <2> QED BY <2>1, Zenon DEF RenameInv
<1>2. ASSUME NEW f \in Files, OtherProcess(f) PROVE RenameInv'
  <2>1. UNCHANGED <<src_path, src_realpath, cmd, rename, pc>>
    BY <1>2 DEF OtherProcess, audit_vars
  <2> QED BY <2>1, Zenon DEF RenameInv
<1>3. ASSUME NEW f \in Files, NEW name \in DOMAIN solaris_audit_commands, PreFile(name, f)
      PROVE  RenameInv'
  <2>1. rename' = NULL /\ \E e : cmd' = Started(name, f, e)
                                 \/ cmd' = [Started(name, f, e) EXCEPT !.errno = "errno"]
    BY <1>3, Zenon DEF PreFile, NoEvent
  <2>2. cmd'.name = name
    BY <2>1, SMTT(60) DEF Started
  <2> QED BY <2>1, <2>2, FileCommands, Zenon DEF RenameInv
<1>4. ASSUME NEW f \in Files, solaris_audit_pre_rnfr(f) PROVE RenameInv'
  <2> DEFINE e == Paths(Arg(f), Empty, FALSE)
  <2>1. /\ rename' = NULL
        /\ src_path' = NULL \/ (src_path' = f /\ cmd' = Started("RNFR", f, e))
    BY <1>4, Zenon DEF solaris_audit_pre_rnfr
  <2>2. e \in Event /\ Names(e.src, f)
    <3>1. Types /\ FALSE \in BOOLEAN
      BY Zenon DEF IInv
    <3>2. Arg(f) \in Path /\ Empty \in Path \ {NULL} /\ Names(Arg(f), f)
      BY <1>4, <3>1, PathsOf, Zenon
    <3> QED BY <3>1, <3>2, EventOf, Zenon
  <2> HIDE DEF e
  <2>3. cmd' = Started("RNFR", f, e) => cmd'.arg = f /\ cmd'.event = e
    BY SMTT(60) DEF Started
  <2> QED BY <2>1, <2>2, <2>3, Zenon DEF RenameInv
<1>5. ASSUME NEW f \in Files, solaris_audit_pre_rnto(f) PROVE RenameInv'
  <2>1. /\ pc = "idle" /\ UNCHANGED <<rename, src_path, src_realpath>>
        /\ \E e : cmd' = Started("RNTO", f, e)
    BY <1>5, Zenon DEF solaris_audit_pre_rnto, NoEvent, audit_vars
  <2>2. cmd'.name = "RNTO"
    BY <2>1, SMTT(60) DEF Started
  <2> QED BY <2>1, <2>2, Zenon DEF RenameInv
<1>6. CASE CommandSucceeds \/ CommandFails
  <2>1. /\ pc = "run" /\ UNCHANGED <<src_path, src_realpath>>
        /\ \/ pc' = "post" /\ rename' = IF cmd.name = "RNFR" THEN cmd.arg ELSE rename
           \/ pc' = "post_err" /\ UNCHANGED rename
        /\ \E errno : cmd' = [cmd EXCEPT !.errno = errno]
    BY <1>6, Zenon DEF CommandSucceeds, CommandFails, audit_vars
  <2>2. cmd'.name = cmd.name /\ cmd'.arg = cmd.arg /\ cmd'.event = cmd.event
    <3>1. IsCmd(cmd)
      BY Zenon DEF IInv, Types
    <3>2. PICK n, a, o, e, w : cmd = [name |-> n, arg |-> a, ok |-> o, errno |-> e, event |-> w]
      BY <3>1, Zenon DEF IsCmd
    <3> QED BY <2>1, <3>2, Zenon
  <2>3. cmd.name = "RNFR" => src_path = cmd.arg
    BY <2>1, Zenon DEF IInv, EventInv, RenameInv, Busy
  <2> QED BY <2>1, <2>2, <2>3, Zenon DEF RenameInv, Busy
<1>7. CASE PostFile \/ PostFileErr
  <2>1. /\ pc \in Busy /\ cmd.name \in DOMAIN solaris_audit_commands /\ pc' = "idle"
        /\ UNCHANGED rename
    BY <1>7, Zenon DEF PostFile, PostFileErr, Busy
  <2>2. rename = NULL
    BY <2>1, FileCommands, Zenon DEF RenameInv
  <2> QED BY <2>1, <2>2, Zenon DEF RenameInv, Busy
<1>8. CASE solaris_audit_post_rnfr \/ solaris_audit_post_rnfr_err
  <2>1. /\ pc' = "idle" /\ UNCHANGED rename
        /\ \/ pc = "post" /\ src_realpath' = realpath(src_path) /\ UNCHANGED src_path
           \/ pc = "post_err" /\ cmd.name = "RNFR"
    BY <1>8, Zenon DEF solaris_audit_post_rnfr, solaris_audit_post_rnfr_err
  <2>2. Names(realpath(src_path), src_path)
    BY Zenon DEF Names, realpath
  <2> QED BY <2>1, <2>2 DEF RenameInv, Busy
<1>9. CASE solaris_audit_post_rnto \/ solaris_audit_post_rnto_err
  <2>1. pc' = "idle" /\ rename' = NULL
    BY <1>9, Zenon DEF solaris_audit_post_rnto, solaris_audit_post_rnto_err
  <2> QED BY <2>1 DEF RenameInv, Busy
<1>10. CASE UNCHANGED vars
  <2>1. UNCHANGED <<src_path, src_realpath, cmd, rename, pc>>
    BY <1>10, Zenon DEF vars, audit_vars
  <2> QED BY <2>1, Zenon DEF RenameInv
<1> QED BY <1>1, <1>2, <1>3, <1>4, <1>5, <1>6, <1>7, <1>8, <1>9, <1>10, Zenon DEF Next

\* A record is put for an event, if there is nothing the matter.
LEMMA RecordPut ==
    ASSUME IInv, pc \in {"post", "post_err"}, NEW ok, NEW filled,
           solaris_audit_post(ok, filled), filled # NULL, filled.dst # NULL,
           asession, ~fault', ~HalfLowered
    PROVE  Recorded(cmd.name, ok, cmd.errno, filled) \in Range(trail')
<1> DEFINE r == Recorded(cmd.name, ok, cmd.errno, filled)
<1>1. r.event = filled
  BY DEF Recorded
<1>2. PICK failed \in BOOLEAN :
        /\ fault' = (fault \/ failed)
        /\ trail' = IF cmd.event = NULL \/ filled = NULL \/ failed THEN trail
                    ELSE trail \o Put(privs.E, <<r>>)
  BY Zenon DEF solaris_audit_post
<1> HIDE DEF r
<1>3. ~fault /\ ~failed
  BY <1>2, Zenon
<1>4. cmd.event # NULL /\ Before(cmd.name, trail)
  BY <1>3, NullAssumption, Zenon DEF IInv, EventInv, Busy, Before
<1>5. Put(privs.E, <<r>>) = <<r>>
  BY Zenon DEF IInv, CanAudit, Put
<1>6. trail' = trail \o <<r>>
  BY <1>2, <1>3, <1>4, <1>5, Zenon
<1>7. Own(trail') = {r}
  BY <1>1, <1>4, <1>6, OwnRecord, Zenon
<1> QED BY <1>7, Zenon DEF Own, r

\* What the renaming puts names its source.
Accounted ==
    \/ fault' \/ ~asession \/ raced \/ HalfLowered
    \/ \E r \in Range(trail') :
        /\ r.kind \in {"RNFR", "RNTO"}
        /\ Names(r.event.src, src_path) \/ (r.kind = "RNTO" /\ rename = NULL)

\* A handler of RNTO that puts its record accounts for the RNFR.
LEMMA PutAccounted ==
    ASSUME IInv, pc \in {"post", "post_err"}, NEW ok, NEW filled,
           solaris_audit_post(ok, filled), cmd.name \in {"RNFR", "RNTO"},
           raced \/ fault' \/ filled \in Event,
           filled \in Event =>
             Names(filled.src, src_path) \/ (cmd.name = "RNTO" /\ rename = NULL)
    PROVE  Accounted
<1> SUFFICES ASSUME asession, ~fault', ~raced, ~HalfLowered PROVE Accounted
  BY Zenon DEF Accounted
<1> DEFINE r == Recorded(cmd.name, ok, cmd.errno, filled)
<1>1. filled \in Event /\ filled # NULL /\ filled.dst # NULL
  BY Refilled, Zenon
<1>2. r \in Range(trail')
  BY <1>1, RecordPut, Zenon
<1>3. r.kind = cmd.name /\ r.event = filled
  BY Zenon DEF Recorded
<1> HIDE DEF r
<1> QED BY <1>1, <1>2, <1>3, Zenon DEF Accounted

\* The record of an RNFR that led to nothing names its path.
LEMMA RnfrAccounted ==
    ASSUME IInv, NEW f \in Files, solaris_audit_pre_rnfr(f), src_path # NULL
    PROVE  Accounted
<1> SUFFICES ASSUME asession, ~fault', ~HalfLowered PROVE Accounted
  BY Zenon DEF Accounted
<1> DEFINE r == Recorded("RNFR", FALSE, "FAILURE", Paths(Arg(src_path), NULL, FALSE))
<1>1. r.kind = "RNFR" /\ r.event.src = Arg(src_path)
  BY Zenon DEF Recorded, Paths
<1>2. PICK u \in solaris_audit_rnfr_err : trail' = u.records /\ (fault' = TRUE \/ fault' = u.fault)
  BY Zenon DEF solaris_audit_pre_rnfr, NoEvent
<1> HIDE DEF r
<1>3. u.records = Put(privs.E, <<r>>)
  BY <1>2, SMTT(60) DEF solaris_audit_rnfr_err, r
<1>4. Put(privs.E, <<r>>) = <<r>>
  BY Zenon DEF IInv, CanAudit, Put
<1>5. r \in Range(<<r>>)
  <2>1. 1 \in DOMAIN <<r>> /\ <<r>>[1] = r
    BY SMTT(60)
  <2> QED BY <2>1, Zenon DEF Range
<1> QED BY <1>1, <1>2, <1>3, <1>4, <1>5, Zenon DEF Accounted, Names

\* The path of an RNFR is given up only with a record.
LEMMA GivenUp ==
    ASSUME IInv, RenameInv, Next, src_path # NULL,
           src_path' = NULL \/ (pc = "idle" /\ cmd'.name = "RNFR" /\ cmd'.event # NULL)
    PROVE  Accounted
<1>0. /\ Types /\ cmd.event \in Event \cup {NULL} /\ src_path \in Files
      /\ src_realpath \in Path \ {NULL}
      /\ pc = "idle" => cmd.event = NULL
  BY Zenon DEF IInv, Types, LoginInv
<1>1. ~(\/ audit_sess_init \/ solaris_priv_sess_init \/ audit_autherr_ev
        \/ solaris_audit_post_fail \/ PostPass \/ SetreuidFails \/ audit_exit_ev)
  <2>0. NoCmd.event = NULL
    BY Zenon DEF NoCmd
  <2>1. ~solaris_audit_post_fail
    BY <1>0, <2>0, Zenon DEF solaris_audit_post_fail
  <2> SUFFICES ASSUME UNCHANGED <<src_path, cmd>> PROVE FALSE
    BY <2>1, Zenon DEF audit_sess_init, solaris_priv_sess_init, audit_autherr_ev,
         PostPass, SetreuidFails, audit_exit_ev, audit_vars
  <2> QED BY <1>0, Zenon
<1>2. ASSUME NEW f \in Files,
             \/ \E name \in DOMAIN solaris_audit_commands : PreFile(name, f)
             \/ solaris_audit_pre_rnfr(f) \/ solaris_audit_pre_rnto(f) \/ OtherProcess(f)
      PROVE  Accounted
  <2>1. CASE solaris_audit_pre_rnfr(f)
    BY <1>2, <2>1, RnfrAccounted, Zenon
  <2>2. ~OtherProcess(f)
    BY <1>0 DEF OtherProcess, audit_vars
  <2>3. ASSUME NEW name, NEW e, name # "RNFR", UNCHANGED src_path,
               \/ cmd' = Started(name, f, e)
               \/ cmd' = [Started(name, f, e) EXCEPT !.errno = "errno"]
        PROVE  FALSE
    <3>1. cmd'.name = name
      BY <2>3 DEF Started
    <3> QED BY <2>3, <3>1
  <2>4. ~solaris_audit_pre_rnto(f)
    <3> SUFFICES ASSUME solaris_audit_pre_rnto(f) PROVE FALSE
      OBVIOUS
    <3>1. UNCHANGED src_path /\ \E e : cmd' = Started("RNTO", f, e)
      BY Zenon DEF solaris_audit_pre_rnto, NoEvent, audit_vars
    <3> QED BY <2>3, <3>1, Zenon
  <2>5. \A name \in DOMAIN solaris_audit_commands : ~PreFile(name, f)
    <3> SUFFICES ASSUME NEW name \in DOMAIN solaris_audit_commands, PreFile(name, f)
                 PROVE  FALSE
      OBVIOUS
    <3>1. UNCHANGED src_path /\ \E e : cmd' = Started(name, f, e)
                                       \/ cmd' = [Started(name, f, e) EXCEPT !.errno = "errno"]
      BY Zenon DEF PreFile, NoEvent
    <3> QED BY <2>3, <3>1, FileCommands, Zenon
  <2> QED BY <1>2, <2>1, <2>2, <2>4, <2>5, Zenon
<1>3. ~(CommandSucceeds \/ CommandFails \/ PostFile \/ PostFileErr \/ solaris_audit_post_rnfr)
  <2> SUFFICES ASSUME pc # "idle", UNCHANGED src_path PROVE FALSE
    BY Zenon DEF CommandSucceeds, CommandFails, PostFile, PostFileErr,
         solaris_audit_post_rnfr, audit_vars
  <2> QED OBVIOUS
<1>4. CASE solaris_audit_post_rnfr_err
  <2> DEFINE fill == src_path # NULL /\ cmd.event # NULL
             g == [cmd.event EXCEPT !.src = Real(src_path)]
             filled == IF fill /\ fs[cmd.arg] THEN g ELSE cmd.event
  <2>1. pc = "post_err" /\ cmd.name = "RNFR" /\ solaris_audit_post(FALSE, filled)
    BY <1>4, Zenon DEF solaris_audit_post_rnfr_err
  <2>2. cmd.event \in Event /\ Names(cmd.event.src, src_path)
    BY <2>1 DEF RenameInv, Busy
  <2>3. g \in Event /\ Names(g.src, src_path)
    <3>1. Real(src_path) \in Path /\ Names(Real(src_path), src_path)
      BY <1>0, PathsOf, Zenon
    <3>2. g \in Event /\ g.src = Real(src_path)
      BY <2>2, <3>1, Zenon DEF Event
    <3> QED BY <3>1, <3>2, Zenon
  <2> HIDE DEF g
  <2>4. filled \in Event /\ Names(filled.src, src_path)
    BY <2>2, <2>3, Zenon
  <2> HIDE DEF filled
  <2> QED BY <2>1, <2>4, PutAccounted, Zenon
<1>5. CASE solaris_audit_post_rnto
  <2> DEFINE g == [cmd.event EXCEPT !.src = src_realpath, !.dst = Real(cmd.arg)]
             filled == IF src_path # NULL /\ fs[cmd.arg] THEN g ELSE NULL
  <2>1. pc = "post" /\ cmd.name = "RNTO" /\ solaris_audit_post(TRUE, filled)
    BY <1>5, Zenon DEF solaris_audit_post_rnto
  <2>2. cmd.event \in Event /\ cmd.arg \in Files /\ (~raced => fs[cmd.arg])
    BY <2>1 DEF IInv, EventInv, FileInv, Busy, Leaving
  <2>3. g \in Event /\ g.src = src_realpath
    <3>1. Real(cmd.arg) \in Path \ {NULL}
      BY <1>0, <2>2, PathsOf, Zenon
    <3> QED BY <1>0, <2>2, <3>1, Zenon DEF Event
  <2>4. Names(src_realpath, src_path) \/ rename = NULL
    BY <2>1, Zenon DEF RenameInv
  <2> HIDE DEF g
  <2>5. /\ raced \/ filled \in Event
        /\ filled \in Event => Names(filled.src, src_path) \/ rename = NULL
    BY <2>2, <2>3, <2>4, NullAssumption, Zenon
  <2> HIDE DEF filled
  <2> QED BY <2>1, <2>5, PutAccounted, Zenon
<1>6. CASE solaris_audit_post_rnto_err
  <2> DEFINE g == [cmd.event EXCEPT !.src = src_realpath, !.dst = realpath(cmd.arg)]
             filled == IF cmd.event = NULL THEN NULL ELSE g
  <2>1. pc = "post_err" /\ cmd.name = "RNTO" /\ solaris_audit_post(FALSE, filled)
    BY <1>6, Zenon DEF solaris_audit_post_rnto_err
  <2>2. cmd.arg \in Files /\ (~fault => cmd.event \in Event) /\ (fault => fault')
    BY <2>1, Zenon DEF IInv, EventInv, Busy, solaris_audit_post
  <2>3. cmd.event # NULL => g \in Event /\ g.src = src_realpath
    <3>1. realpath(cmd.arg) \in Path \ {NULL}
      BY <1>0, <2>2, PathsOf, Zenon
    <3> QED BY <1>0, <3>1, Zenon DEF Event
  <2>4. Names(src_realpath, src_path) \/ rename = NULL
    BY <2>1 DEF RenameInv
  <2> HIDE DEF g
  <2>5. /\ fault' \/ filled \in Event
        /\ filled \in Event => Names(filled.src, src_path) \/ rename = NULL
    BY <2>2, <2>3, <2>4, NullAssumption, Zenon
  <2> HIDE DEF filled
  <2> QED BY <2>1, <2>5, PutAccounted, Zenon
<1> QED BY <1>1, <1>2, <1>3, <1>4, <1>5, <1>6, Zenon DEF Next

\* An RNFR that has begun is accounted for by a record that names its path.
THEOREM RenamesAccounted == Spec => RenameAccounted
<1>1. IInv /\ RenameInv /\ [Next]_vars =>
        [src_path # NULL /\ (src_path' = NULL \/ (pc = "idle" /\ cmd'.name = "RNFR"
                                                     /\ cmd'.event # NULL)) =>
            \/ fault' \/ ~asession \/ raced \/ HalfLowered
            \/ \E r \in Range(trail') :
                /\ r.kind \in {"RNFR", "RNTO"}
                /\ Names(r.event.src, src_path) \/ (r.kind = "RNTO" /\ rename = NULL)]_vars
  BY GivenUp DEF Accounted
<1> QED BY <1>1, InitInv, StepInv, InitRename, StepRename, PTL DEF Spec, RenameAccounted

================================================================================
