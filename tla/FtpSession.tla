----------------------------- MODULE FtpSession -----------------------------
(***************************************************************************)
(* A session of the FTP server with the two modules of this repository:    *)
(* proftpd/mod_solaris_audit.c, which audits the login and the file        *)
(* commands, and proftpd/mod_solaris_priv.c, which lowers the privileges   *)
(* at the login and must leave those that auditing needs.                  *)
(*                                                                         *)
(* A command is a "pre" handler, the command itself, and a "post" or       *)
(* "post_err" handler; other processes create and remove files between     *)
(* them.  The server is external: it accepts a PASS until one succeeds and *)
(* refuses it from then on, and accepts RNTO only right after an RNFR that *)
(* succeeded.  STOU and APPE have the handlers of STOR, and XRMD those of  *)
(* RMD.                                                                    *)
(***************************************************************************)
EXTENDS Sequences, Functions

CONSTANTS Files,       \* what file commands name
          Configs,     \* directives the server may be configured with
          AuthCodes,   \* errors an authentication may report
          NULL

VARIABLES config,        \* the directives of this server
          fs,            \* fs[f]: f is there, and can be reached
          asession,      \* an audit session is open
          exitHandler,   \* audit_exit_ev is registered
          auth_retval,
          src_path, src_realpath,
          cmd,           \* the command: name, argument, outcome, errno and event
          rename,        \* the server: source of the RNFR that has just succeeded
          privs,         \* inheritable, permitted and effective privileges
          use_privs, solaris_priv_flags, priv_aware,
          pc,            \* "start", "login", "idle", "run", "post", "post_err", "end"
          trail,         \* records put since the command began
          fault,         \* a call that needs memory or a device failed meanwhile
          raced          \* another process removed the file of the command

audit_vars == <<asession, exitHandler, auth_retval, src_path, src_realpath>>
priv_vars  == <<privs, use_privs, solaris_priv_flags, priv_aware>>
vars       == <<config, fs, audit_vars, cmd, rename, priv_vars, pc, trail, fault, raced>>

\* A path is the argument of a command, or what realpath has made of it.
Arg(f)  == <<"arg", f>>
Real(f) == <<"real", f>>
Empty   == <<"">>

Path    == {NULL, Empty} \cup {Arg(f) : f \in Files} \cup {Real(f) : f \in Files}

\* The members of an event that are filled in here.
Event == [src : Path, dst : Path \ {NULL}, attr : BOOLEAN]

ASSUME NullAssumption ==
    /\ NULL \notin Files /\ NULL \notin Event
    /\ Empty # NULL /\ \A f \in Files : Arg(f) # NULL /\ Real(f) # NULL

NoCmd == [name |-> NULL, arg |-> NULL, ok |-> FALSE, errno |-> NULL, event |-> NULL]

\* realpath (external): what the buffer holds then; it is the argument if the
\* path cannot be resolved.
realpath(f) == IF fs[f] THEN Real(f) ELSE Arg(f)

-----------------------------------------------------------------------------
\* mod_solaris_priv.

Basic == {"PROC_EXEC", "PROC_FORK", "PROC_INFO", "PROC_SESSION", "FILE_WRITE"}
Unused == {"PROC_EXEC", "PROC_FORK", "PROC_INFO", "PROC_SESSION"}

PRIV_SOL_ROOT_PRIVS ==
    {"FILE_CHOWN", "FILE_CHOWN_SELF", "FILE_DAC_READ", "FILE_DAC_WRITE",
     "FILE_DAC_SEARCH", "FILE_OWNER", "PROC_SETID", "PROC_TASKID", "PROC_CHROOT",
     "SYS_AUDIT"}

All == Basic \cup PRIV_SOL_ROOT_PRIVS \cup {"NET_PRIVADDR", "PROC_AUDIT"}

\* set_solaris_priv: the flags of a PrivilegeSet directive.  A + adds no flag for
\* the two that a - takes away.
PrivilegeSet(args) ==
    LET Signed(sign) == {a.priv : a \in {b \in Range(args) : b.sign = sign}} IN
    ({"FILE_CHOWN"} \ Signed("-")) \cup (Signed("+") \ {"FILE_CHOWN", "FILE_CHOWN_SELF"})

\* solaris_priv_sess_init: the flags of the session.
SessionFlags ==
    (IF config.PrivilegeSet = NULL THEN {} ELSE PrivilegeSet(config.PrivilegeSet))
    \cup (IF config.AllowOverwrite THEN {} ELSE {"DROP_FILE_WRITE"})
    \cup (IF config.SetidEngine \/ ~config.RootRevoke THEN {"PROC_SETID"} ELSE {})

\* Planted bug: only what the comment above it asks for is added.
Bug_Permitted(flags) ==
    (((Basic \cup {"NET_PRIVADDR"}) \ Unused) \cup (flags \cap PRIV_SOL_ROOT_PRIVS))
    \ (IF "DROP_FILE_WRITE" \in flags THEN {"FILE_WRITE"} ELSE {})

\* solaris_priv_post_passwd: the privileges that are left.
Permitted(flags) ==
    (((Basic \cup {"NET_PRIVADDR", "PROC_AUDIT"}) \ Unused)
        \cup (flags \cap PRIV_SOL_ROOT_PRIVS))
    \ (IF "DROP_FILE_WRITE" \in flags THEN {"FILE_WRITE"} ELSE {})

\* The kernel (external): without awareness of privileges the effective ones of a
\* user who is not root are the inheritable ones.
Unaware(root, pr) == [privs |-> IF root THEN pr ELSE [pr EXCEPT !.E = pr.I], aware |-> FALSE]

\* solaris_priv_post_passwd: the privileges after it, and whether the session is
\* aware of them, for a user who is root or is not.  Memory may be short before
\* and after the inheritable set is lowered.
Lowered(root) ==
    LET set == Permitted(IF root THEN PRIV_SOL_ROOT_PRIVS ELSE solaris_priv_flags)
        low == [privs EXCEPT !.I = Basic \ Unused]
    IN  IF use_privs
        THEN {[privs |-> [low EXCEPT !.P = set, !.E = set], aware |-> TRUE],
              Unaware(root, low), Unaware(root, privs)}
        ELSE {Unaware(root, privs)}

-----------------------------------------------------------------------------
\* mod_solaris_audit: the session.

\* adt_put_event (external): a record needs a session and the privilege.
Put(effective, records) ==
    IF asession /\ "PROC_AUDIT" \in effective THEN records ELSE << >>

\* audit_autherr_ev.
AuthRetval(code) ==
    CASE code = "NOPWD"              -> "USER_UNKNOWN"
      [] code = "AGEPWD"             -> "CRED_EXPIRED"
      [] code = "DISABLEDPWD"        -> "ACCT_EXPIRED"
      [] code = "CRED_INSUFFICIENT"  -> "CRED_INSUFFICIENT"
      [] code = "CRED_UNAVAIL"       -> "CRED_UNAVAIL"
      [] code = "CRED_ERROR"         -> "CRED_ERR"
      [] code = "INFO_UNAVAIL"       -> "AUTHINFO_UNAVAIL"
      [] code = "MAX_ATTEMPTS"       -> "MAXTRIES"
      [] code = "INIT_ERROR"         -> "SESSION_ERR"
      [] code = "NEW_TOKEN_REQUIRED" -> "NEW_AUTHTOK_REQD"
      [] OTHER                       -> "AUTH_ERR"

\* audit_sess_init: the privileges during and after it; without the terminal id
\* there is no session.
audit_sess_init ==
    /\ pc = "start"
    /\ privs' \in {privs, [privs EXCEPT !.I = @ \cup {"PROC_AUDIT"},
                                        !.E = @ \ {"SYS_AUDIT"}]}
    /\ pc' \in {"end"} \cup (IF privs' = privs THEN {} ELSE {"priv"})
    /\ UNCHANGED <<config, fs, audit_vars, cmd, rename, use_privs, solaris_priv_flags,
                   priv_aware, trail, fault, raced>>

\* solaris_priv_sess_init.
solaris_priv_sess_init ==
    /\ pc = "priv"
    /\ use_privs' = config.PrivilegeEngine
    /\ solaris_priv_flags' = IF config.PrivilegeEngine THEN SessionFlags ELSE {}
    /\ pc' = "login"
    /\ UNCHANGED <<config, fs, audit_vars, cmd, rename, privs, priv_aware, trail, fault,
                   raced>>

audit_autherr_ev ==
    /\ pc = "login"
    /\ \E code \in AuthCodes : auth_retval' = AuthRetval(code)
    /\ UNCHANGED <<config, fs, asession, exitHandler, src_path, src_realpath, cmd, rename,
                   priv_vars, pc, trail, fault, raced>>

\* solaris_audit_post_fail and audit_failure, for any PASS that is refused, also
\* one after the login: a session for one record takes the place of the open one,
\* and ends.
solaris_audit_post_fail ==
    /\ pc \in {"login", "idle"}
    /\ \E failed \in BOOLEAN :
        /\ fault' = failed
        /\ trail' = IF failed \/ "PROC_AUDIT" \notin privs.E THEN << >>
                    ELSE <<[kind |-> "login", ok |-> FALSE, err |-> auth_retval]>>
    /\ asession' = FALSE
    /\ cmd' = NoCmd /\ rename' = NULL
    /\ UNCHANGED <<config, fs, exitHandler, auth_retval, src_path, src_realpath, priv_vars,
                   pc, raced>>

\* audit_success, with the privileges there are then: the session is left open,
\* if there is one, whether the record could be put or not.
audit_success(effective) ==
    \E failed \in {"no", "start", "event"} :
        /\ fault' = (failed # "no")
        /\ asession' = (failed # "start")
        /\ trail' = IF failed = "no" /\ "PROC_AUDIT" \in effective
                    THEN <<[kind |-> "login", ok |-> TRUE]>> ELSE << >>

\* PASS has succeeded: solaris_audit_post_pass and solaris_priv_post_passwd_ok, in
\* the order of the modules.
PostPass ==
    /\ pc = "login"
    /\ \E root, auditFirst \in BOOLEAN : \E l \in Lowered(root) :
        /\ privs' = l.privs /\ priv_aware' = l.aware
        /\ audit_success(IF auditFirst THEN privs.E ELSE l.privs.E)
    /\ exitHandler' = TRUE
    /\ pc' = "idle"
    /\ UNCHANGED <<config, fs, auth_retval, src_path, src_realpath, cmd, rename, use_privs,
                   solaris_priv_flags, raced>>

\* PASS has succeeded, but setreuid fails: the session ends at once, and whether
\* there are records depends on the order of the modules.
SetreuidFails ==
    /\ pc = "login" /\ use_privs
    /\ \E root, auditFirst \in BOOLEAN : \E l \in {l \in Lowered(root) : l.aware} :
        /\ privs' = l.privs
        /\ exitHandler' = auditFirst
        /\ trail' = IF auditFirst /\ "PROC_AUDIT" \in l.privs.E
                    THEN <<[kind |-> "login", ok |-> TRUE], [kind |-> "logout", ok |-> TRUE]>>
                    ELSE << >>
    /\ pc' = "end"
    /\ UNCHANGED <<config, fs, asession, auth_retval, src_path, src_realpath, cmd, rename,
                   use_privs, solaris_priv_flags, priv_aware, fault, raced>>

\* audit_logout: nothing if no session was created by the login.
audit_logout ==
    /\ asession' = FALSE
    /\ \E failed \in BOOLEAN :
        /\ fault' = failed
        /\ trail' = IF failed THEN trail
                    ELSE trail \o Put(privs.E, <<[kind |-> "logout", ok |-> TRUE]>>)

\* audit_exit_ev: the session ends, because the client leaves or for a timeout.
audit_exit_ev ==
    /\ pc \in {"login", "idle", "run"}
    /\ pc' = "end"
    /\ IF exitHandler THEN audit_logout ELSE UNCHANGED <<asession, trail, fault>>
    /\ UNCHANGED <<config, fs, exitHandler, auth_retval, src_path, src_realpath, cmd,
                   rename, priv_vars, raced>>

-----------------------------------------------------------------------------
\* mod_solaris_audit: commands.

\* The handlers of a command on one file: whether "pre" resolves the path and
\* stats it, and what "post" and "post_err" fill in.
dele == [resolve |-> TRUE,  stat |-> TRUE,  fill |-> "none", fill_err |-> "none"]
mkd  == [resolve |-> FALSE, stat |-> FALSE, fill |-> "path", fill_err |-> "path"]
rmd  == [resolve |-> TRUE,  stat |-> TRUE,  fill |-> "none", fill_err |-> "none"]
mdtm == [resolve |-> TRUE,  stat |-> FALSE, fill |-> "attr", fill_err |-> "none"]
put  == [resolve |-> FALSE, stat |-> FALSE, fill |-> "path", fill_err |-> "none"]
get  == [resolve |-> TRUE,  stat |-> FALSE, fill |-> "attr", fill_err |-> "none"]

solaris_audit_commands ==
    [DELE |-> dele, MKD |-> mkd, RMD |-> rmd, MDTM |-> mdtm, STOR |-> put, RETR |-> get]

\* __solaris_audit_pre_arg2: the command with its event, whose paths are these.
\* There is none if there is no memory.
Started(name, f, event) ==
    [name |-> name, arg |-> f, ok |-> FALSE, errno |-> "FAILURE", event |-> event]

Paths(src, dst, attr) == [src |-> src, dst |-> dst, attr |-> attr]

\* __solaris_audit_post: the record of an event.
Recorded(kind, ok, errno, event) ==
    [kind |-> kind, ok |-> ok, event |-> event,
     err |-> IF ok /\ errno = "FAILURE" THEN "SUCCESS" ELSE errno]

\* Planted bug: every command is recorded as a success.
Bug_solaris_audit_post(ok, filled) ==
    \E failed \in BOOLEAN :
        /\ fault' = (fault \/ failed)
        /\ trail' = IF cmd.event = NULL \/ filled = NULL \/ failed THEN trail
                    ELSE trail \o Put(privs.E,
                             <<Recorded(cmd.name, TRUE, cmd.errno, filled)>>)
        /\ cmd' = [cmd EXCEPT !.event = NULL, !.ok = ok]

\* __solaris_audit_post, for an event whose members are filled in, or NULL if
\* that was not possible: the event is gone and nothing is put then.
solaris_audit_post(ok, filled) ==
    \E failed \in BOOLEAN :
        /\ fault' = (fault \/ failed)
        /\ trail' = IF cmd.event = NULL \/ filled = NULL \/ failed THEN trail
                    ELSE trail \o Put(privs.E,
                             <<Recorded(cmd.name, ok, cmd.errno, filled)>>)
        /\ cmd' = [cmd EXCEPT !.event = NULL, !.ok = ok]

\* A command begins, for which there is no event.
NoEvent(name, f) ==
    /\ cmd' = Started(name, f, NULL)
    /\ fault' = TRUE
    /\ pc' = "post_err"

\* solaris_audit_pre_dele and the like.  A path that is not there is left to the
\* command; one that cannot be resolved for another reason ends it.
PreFile(name, f) ==
    LET h == solaris_audit_commands[name] IN
    /\ pc = "idle"
    /\ \/ NoEvent(name, f) /\ UNCHANGED src_realpath
       \/ /\ h.resolve
          /\ cmd' = [Started(name, f, Paths(NULL, Empty, FALSE)) EXCEPT !.errno = "errno"]
          /\ src_realpath' = Arg(f)
          /\ pc' = "post_err" /\ fault' = FALSE
       \/ /\ cmd' = Started(name, f, Paths(IF h.resolve THEN realpath(f) ELSE Arg(f), Empty,
                                           h.stat /\ fs[f]))
          /\ src_realpath' = IF h.resolve THEN realpath(f) ELSE src_realpath
          /\ pc' = "run" /\ fault' = FALSE
    /\ trail' = << >> /\ rename' = NULL /\ raced' = FALSE
    /\ UNCHANGED <<config, fs, asession, exitHandler, auth_retval, src_path, priv_vars>>

\* solaris_audit_post_dele, _mkd, _rmd, _mdtm, _put and _get: a path or attribute
\* that is missing and cannot be filled in costs the record.
PostFile ==
    LET h == solaris_audit_commands[cmd.name]
        filled == IF h.fill = "none" THEN cmd.event
                  ELSE IF ~fs[cmd.arg] THEN NULL
                  ELSE IF h.fill = "attr" THEN [cmd.event EXCEPT !.attr = TRUE]
                  ELSE Paths(Real(cmd.arg), Empty, TRUE)
    IN  /\ pc = "post" /\ cmd.name \in DOMAIN solaris_audit_commands
        /\ solaris_audit_post(TRUE, filled)
        /\ src_realpath' = IF h.fill = "path" THEN realpath(cmd.arg) ELSE src_realpath
        /\ pc' = "idle"
        /\ UNCHANGED <<config, fs, asession, exitHandler, auth_retval, src_path, rename,
                       priv_vars, raced>>

\* solaris_audit_post_dele_err and the like.
PostFileErr ==
    LET h == solaris_audit_commands[cmd.name]
        fill == h.fill_err = "path" /\ cmd.event # NULL
    IN  /\ pc = "post_err" /\ cmd.name \in DOMAIN solaris_audit_commands
        /\ solaris_audit_post(FALSE, IF fill /\ fs[cmd.arg]
                                     THEN Paths(Real(cmd.arg), Empty, TRUE) ELSE cmd.event)
        /\ src_realpath' = IF fill THEN realpath(cmd.arg) ELSE src_realpath
        /\ pc' = "idle"
        /\ UNCHANGED <<config, fs, asession, exitHandler, auth_retval, src_path, rename,
                       priv_vars, raced>>

-----------------------------------------------------------------------------
\* mod_solaris_audit: a file is renamed by RNFR and RNTO.

\* Planted bug: an RNFR without an RNTO is forgotten.
Bug_solaris_audit_rnfr_err == {[records |-> << >>, fault |-> FALSE]}

\* __solaris_audit_rnfr_err: the record of an RNFR without an RNTO, if there is
\* one and an event can be allocated and put.
solaris_audit_rnfr_err ==
    IF src_path = NULL THEN {[records |-> << >>, fault |-> FALSE]}
    ELSE {[records |-> << >>, fault |-> TRUE],
          [records |-> Put(privs.E, <<Recorded("RNFR", FALSE, "FAILURE",
                                              Paths(Arg(src_path), NULL, FALSE))>>),
           fault |-> FALSE]}

\* solaris_audit_pre_rnfr.
solaris_audit_pre_rnfr(f) ==
    /\ pc = "idle"
    /\ \E u \in solaris_audit_rnfr_err :
        /\ trail' = u.records
        /\ \/ NoEvent("RNFR", f) /\ src_path' = NULL
           \/ /\ cmd' = Started("RNFR", f, Paths(Arg(f), Empty, FALSE))
              /\ \/ src_path' = NULL /\ pc' = "post_err" /\ fault' = TRUE
                 \/ src_path' = f /\ pc' = "run" /\ fault' = u.fault
    /\ rename' = NULL /\ raced' = FALSE
    /\ UNCHANGED <<config, fs, asession, exitHandler, auth_retval, src_realpath, priv_vars>>

\* solaris_audit_post_rnfr: nothing is put, and the event is dropped.
solaris_audit_post_rnfr ==
    /\ pc = "post" /\ cmd.name = "RNFR"
    /\ src_realpath' = realpath(src_path)
    /\ cmd' = [cmd EXCEPT !.event = NULL, !.ok = TRUE]
    /\ pc' = "idle"
    /\ UNCHANGED <<config, fs, asession, exitHandler, auth_retval, src_path, rename,
                   priv_vars, trail, fault, raced>>

\* solaris_audit_post_rnfr_err.
solaris_audit_post_rnfr_err ==
    LET fill == src_path # NULL /\ cmd.event # NULL IN
    /\ pc = "post_err" /\ cmd.name = "RNFR"
    /\ solaris_audit_post(FALSE, IF fill /\ fs[cmd.arg]
                                 THEN [cmd.event EXCEPT !.src = Real(src_path)]
                                 ELSE cmd.event)
    /\ src_realpath' = IF fill THEN realpath(src_path) ELSE src_realpath
    /\ src_path' = NULL
    /\ pc' = "idle"
    /\ UNCHANGED <<config, fs, asession, exitHandler, auth_retval, rename, priv_vars, raced>>

\* solaris_audit_pre_rnto: the source must be there.
solaris_audit_pre_rnto(f) ==
    LET there == src_path # NULL /\ fs[src_path] IN
    /\ pc = "idle"
    /\ \/ NoEvent("RNTO", f)
       \/ /\ cmd' = Started("RNTO", f, Paths(IF src_path = NULL THEN Empty ELSE Arg(src_path),
                                             Arg(f), there))
          /\ pc' = IF there THEN "run" ELSE "post_err"
          /\ fault' = FALSE
    /\ trail' = << >> /\ raced' = FALSE
    /\ UNCHANGED <<config, fs, audit_vars, rename, priv_vars>>

\* solaris_audit_post_rnto: the source is what RNFR has resolved.
solaris_audit_post_rnto ==
    /\ pc = "post" /\ cmd.name = "RNTO"
    /\ solaris_audit_post(TRUE, IF src_path # NULL /\ fs[cmd.arg]
                                THEN [cmd.event EXCEPT !.src = src_realpath,
                                                       !.dst = Real(cmd.arg)]
                                ELSE NULL)
    /\ src_path' = NULL
    /\ pc' = "idle" /\ rename' = NULL
    /\ UNCHANGED <<config, fs, asession, exitHandler, auth_retval, src_realpath, priv_vars,
                   raced>>

\* solaris_audit_post_rnto_err: the source is what is in the buffer.
solaris_audit_post_rnto_err ==
    /\ pc = "post_err" /\ cmd.name = "RNTO"
    /\ solaris_audit_post(FALSE, IF cmd.event = NULL THEN NULL
                                 ELSE [cmd.event EXCEPT !.src = src_realpath,
                                                        !.dst = realpath(cmd.arg)])
    /\ src_path' = NULL
    /\ pc' = "idle" /\ rename' = NULL
    /\ UNCHANGED <<config, fs, asession, exitHandler, auth_retval, src_realpath, priv_vars,
                   raced>>

-----------------------------------------------------------------------------
\* The server and other processes (external).

\* What a command needs, and what becomes of the files.
Possible ==
    CASE cmd.name \in {"DELE", "RMD", "MDTM", "RETR", "RNFR"} -> fs[cmd.arg]
      [] cmd.name = "MKD"  -> ~fs[cmd.arg]
      [] cmd.name = "STOR" -> TRUE
      [] cmd.name = "RNTO" -> rename # NULL /\ fs[rename]

FilesAfter ==
    CASE cmd.name \in {"DELE", "RMD"} -> [fs EXCEPT ![cmd.arg] = FALSE]
      [] cmd.name \in {"MKD", "STOR"} -> [fs EXCEPT ![cmd.arg] = TRUE]
      [] cmd.name = "RNTO" -> [fs EXCEPT ![rename] = FALSE, ![cmd.arg] = TRUE]
      [] OTHER -> fs

\* A command that succeeds can leave an errno as well.
CommandSucceeds ==
    /\ pc = "run" /\ Possible
    /\ fs' = FilesAfter
    /\ \E errno \in {cmd.errno, "errno"} : cmd' = [cmd EXCEPT !.errno = errno]
    /\ rename' = IF cmd.name = "RNFR" THEN cmd.arg ELSE rename
    /\ pc' = "post"
    /\ UNCHANGED <<config, audit_vars, priv_vars, trail, fault, raced>>

CommandFails ==
    /\ pc = "run"
    /\ \E errno \in {cmd.errno, "errno"} : cmd' = [cmd EXCEPT !.errno = errno]
    /\ pc' = "post_err"
    /\ UNCHANGED <<config, fs, audit_vars, rename, priv_vars, trail, fault, raced>>

OtherProcess(f) ==
    /\ pc \notin {"start", "priv", "login", "end"}
    /\ fs' = [fs EXCEPT ![f] = ~@]
    /\ raced' = (raced \/ (pc = "post" /\ fs[f] /\ f = cmd.arg))
    /\ UNCHANGED <<config, audit_vars, cmd, rename, priv_vars, pc, trail, fault>>

-----------------------------------------------------------------------------
Init ==
    /\ config \in Configs
    /\ fs \in [Files -> BOOLEAN]
    /\ asession = FALSE /\ exitHandler = FALSE /\ auth_retval = "AUTH_ERR"
    /\ src_path = NULL /\ src_realpath = Empty
    /\ cmd = NoCmd /\ rename = NULL
    /\ privs = [I |-> Basic, P |-> All, E |-> All]
    /\ use_privs = TRUE /\ solaris_priv_flags = {} /\ priv_aware = FALSE
    /\ pc = "start" /\ trail = << >> /\ fault = FALSE /\ raced = FALSE

Next ==
    \/ audit_sess_init \/ solaris_priv_sess_init
    \/ audit_autherr_ev \/ solaris_audit_post_fail \/ PostPass \/ SetreuidFails
    \/ \E f \in Files :
        \/ \E name \in DOMAIN solaris_audit_commands : PreFile(name, f)
        \/ solaris_audit_pre_rnfr(f) \/ solaris_audit_pre_rnto(f)
        \/ OtherProcess(f)
    \/ CommandSucceeds \/ CommandFails
    \/ PostFile \/ PostFileErr
    \/ solaris_audit_post_rnfr \/ solaris_audit_post_rnfr_err
    \/ solaris_audit_post_rnto \/ solaris_audit_post_rnto_err
    \/ audit_exit_ev

Spec == Init /\ [][Next]_vars

-----------------------------------------------------------------------------
\* Properties.

Names(path, f) == path \in {Arg(f), Real(f)}

\* Memory ran short after the inheritable privileges were lowered, and the session
\* is left without awareness of the rest.
HalfLowered == ~priv_aware /\ privs.I = Basic \ Unused

\* A command that is over has left exactly one record, with its outcome and, if it
\* succeeded, the file and an error that is not the marker for a failure: whatever
\* privileges the login has left, however often handlers turn a command down, and
\* though other processes remove the file.  RNFR leaves none when it succeeds.
\* The record can be missing when memory is short, now or while the privileges were
\* lowered, or if the file is removed after the command and before the handler that
\* stats it; and a PASS that is refused after the login ends auditing.
CommandRecorded ==
    pc = "idle" /\ cmd.name # NULL /\ asession /\ ~fault /\ ~raced /\ ~HalfLowered =>
        LET own == {r \in Range(trail) : r.event.dst # NULL} IN
        /\ Len(trail) <= (IF own = {} THEN 0 ELSE 1) + (IF cmd.name = "RNFR" THEN 1 ELSE 0)
        /\ IF cmd.name = "RNFR" /\ cmd.ok THEN own = {}
           ELSE \E r \in own :
                 /\ own = {r}
                 /\ r.kind = cmd.name /\ r.ok = cmd.ok
                 /\ cmd.ok => /\ r.err # "FAILURE"
                              /\ Names(IF cmd.name = "RNTO" THEN r.event.dst
                                       ELSE r.event.src, cmd.arg)

\* An RNFR that has begun is accounted for: its path is given up only by a step
\* that puts a record of the rename, of an RNTO or of the next RNFR, and that
\* record names the path, unless another command came before RNTO.  An RNFR that
\* the session ends after is not recorded: audit_exit_ev does not look at it.
RenameAccounted ==
    [][src_path # NULL /\ (src_path' = NULL \/ (pc = "idle" /\ cmd'.name = "RNFR"
                                                  /\ cmd'.event # NULL)) =>
        \/ fault' \/ ~asession \/ raced \/ HalfLowered
        \/ \E r \in Range(trail') :
            /\ r.kind \in {"RNFR", "RNTO"}
            /\ Names(r.event.src, src_path) \/ (r.kind = "RNTO" /\ rename = NULL)]_vars

\* The audit session that a login has left open does not just vanish: when the FTP
\* session ends it is closed with the record of the logout, which the privileges
\* that are left still allow, and when a refused PASS takes its place there is the
\* record of that.
LogoutRecorded ==
    [][asession /\ (~asession' \/ pc' = "end") =>
        \/ fault' \/ HalfLowered
        \/ /\ ~asession' /\ trail' # << >>
           /\ trail'[Len(trail')].kind = IF pc' = "end" THEN "logout" ELSE "login"]_vars

\* "Don't end adt session - leave for when logging out": the session of a login
\* stays until the FTP session ends.  Violated: audit_failure, for a PASS that is
\* refused because the user is logged in, puts a new session in its place and ends
\* it, so that there is no record of the logout or of any later command.
SessionLeftForLogout == [][asession /\ ~asession' => pc' = "end"]_vars

=============================================================================
