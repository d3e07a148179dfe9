------------------------------ MODULE Dtlogin -------------------------------
(***************************************************************************)
(* The X server becomes the user who has logged in, and root again when it *)
(* closes down: sun-src/os/dtlogin.c, with the group that SetPriority of   *)
(* sun-src/IA/interactive.c takes for a moment.                            *)
(*                                                                         *)
(* The display manager writes a record to a named pipe for every login, in *)
(* pieces of any size; a record is a sequence of pairs of a key and a      *)
(* value, and packets in it end with ";".  The server has one thread:      *)
(* while dtlogin_receive_packet runs, only the writer goes on.  A record   *)
(* follows another one when that has been acted on.                        *)
(***************************************************************************)
EXTENDS Integers, SequencesExt

CONSTANTS Records,       \* what display managers send: uid, gid, groups, home
          Gdm,           \* the user the login screen runs as
          BUFLEN,        \* the first size of the buffer, in pairs
          NGROUPS_UMAX,  \* most supplementary groups a process can have
          OwnGroups,     \* those of the server when it is started
          Screens

ASSUME DtloginAssumption ==
    /\ \A r \in Records : /\ r.uid \in Nat /\ r.gid \in Nat
                           /\ Len(r.groups) <= NGROUPS_UMAX
    /\ BUFLEN \in Nat /\ BUFLEN > 3
    /\ Screens # {}

None == -1

VARIABLES cred,      \* real, effective and saved ids of the server
          groups,    \* its supplementary groups
          home,      \* HOME, and the working directory
          vt,        \* the kernel thinks that a user is logged in
          dmd,       \* struct dmdata of the open pipe, or NoPipe
          pipe,      \* what has been written to the pipe and not read
          unsent,    \* rest of a record that the display manager has to write
          last,      \* the record it has begun last (history)
          first,     \* no other record came before that one (history)
          pc,        \* "main", or "receive": in dtlogin_receive_packet
          phase,     \* "start", "run", "reset" by the main loop or "abort"
          wrapped,   \* screens with DtloginCloseScreen in CloseScreen
          closed,    \* screens that have been closed
          bare       \* a screen could not be wrapped (history)

vars == <<cred, groups, home, vt, dmd, pipe, unsent, last, first, pc, phase,
          wrapped, closed, bare>>

NoPipe == [open |-> FALSE, buf |-> << >>, bufsize |-> 0,
           user |-> [uid |-> None, gid |-> None, groupids |-> << >>, home |-> None]]
NoRecord == [uid |-> None, gid |-> None, groups |-> << >>, home |-> None]

\* What DtloginInit notes down.  getgroups puts OwnGroups into groupids, but
\* groupid_cnt, which says how many of them setgroups takes, stays 0.
originalUser == [uid |-> 0, gid |-> 0, groupids |-> << >>, home |-> 0]

-----------------------------------------------------------------------------
\* System calls (external).  A call that is not allowed changes nothing.

seteuid(c, e) ==
    IF c.euid = 0 \/ e \in {c.ruid, c.suid} THEN [c EXCEPT !.euid = e] ELSE c

setegid(c, e) ==
    IF c.euid = 0 \/ e \in {c.rgid, c.sgid} THEN [c EXCEPT !.egid = e] ELSE c

\* The saved id becomes the effective one if the real id is set, or if the
\* effective one is set to something else than the real one.
setreuid(c, r, e) ==
    LET ru == IF r = None THEN c.ruid ELSE r
        eu == IF e = None THEN c.euid ELSE e
    IN  IF c.euid # 0 THEN c
        ELSE [c EXCEPT !.ruid = ru, !.euid = eu,
                       !.suid = IF r # None \/ eu # ru THEN eu ELSE @]

setregid(c, r, e) ==
    IF c.euid # 0 THEN c ELSE [c EXCEPT !.rgid = r, !.egid = e, !.sgid = e]

-----------------------------------------------------------------------------
\* Planted bug: the group is set in one go.
Bug_SwitchedGid(c, gid) ==
    IF gid = None THEN c ELSE setregid(c, gid, gid)

\* dtlogin_process: the gid dance, which leaves 0 as the saved id.
SwitchedGid(c, gid) ==
    IF gid = None THEN c ELSE setegid(setregid(c, gid, 0), gid)

\* dtlogin_process: the real uid and then the effective one.
SwitchedUid(c, uid) ==
    IF uid = None THEN c ELSE setreuid(setreuid(c, uid, None), None, uid)

\* dtlogin_process for the ids, as root.
Switched(c, user) == SwitchedUid(SwitchedGid(seteuid(c, 0), user.gid), user.uid)

\* dtlogin_process.  Screens are wrapped once; memory may be short.  The user of
\* the login screen does not count as logged in.
dtlogin_process(user, user_logged_in, screens) ==
    /\ cred' = Switched(cred, user)
    /\ groups' = user.groupids
    /\ home' = IF user.home = None THEN home ELSE user.home
    /\ vt' = (user_logged_in /\ user.uid # Gdm)
    /\ screens \subseteq Screens \ wrapped
    /\ IF user.uid \notin {None, 0} /\ user # originalUser
       THEN /\ wrapped' = wrapped \cup screens
            /\ bare' = (bare \/ wrapped' # Screens)
       ELSE UNCHANGED <<wrapped, bare>>

\* dtlogin_close_pipe; what is in the pipe is lost.
dtlogin_close_pipe ==
    /\ dmd' = NoPipe
    /\ pipe' = << >> /\ unsent' = << >>

\* Planted bug: the pipe is closed and the user stays.
Bug_DtloginCloseDown ==
    /\ UNCHANGED <<cred, groups, home, vt>>
    /\ dtlogin_close_pipe

\* DtloginCloseDown: back to the user the server was started as.
DtloginCloseDown ==
    /\ IF cred.euid # originalUser.uid
       THEN /\ cred' = Switched(cred, originalUser)
            /\ groups' = originalUser.groupids
            /\ home' = originalUser.home
            /\ vt' = FALSE
       ELSE UNCHANGED <<cred, groups, home, vt>>
    /\ dtlogin_close_pipe

-----------------------------------------------------------------------------
\* dtlogin_parse_packet, for one pair; nothing after EOF is looked at.
ParsePair(acc, x) ==
    IF acc.done THEN acc
    ELSE CASE x.key = "EOF"  -> [acc EXCEPT !.done = TRUE]
           [] x.key = "UID"  -> [acc EXCEPT !.user.uid = x.val]
           [] x.key = "GID"  -> [acc EXCEPT !.user.gid = x.val]
           [] x.key = "HOME" -> [acc EXCEPT !.user.home = x.val]
           [] x.key = "G_LIST_ID" /\ Len(acc.user.groupids) < NGROUPS_UMAX ->
                                [acc EXCEPT !.user.groupids = Append(@, x.val)]
           [] OTHER          -> acc

\* dtlogin_receive_packet: the packets of the buffer up to one that has EOF are
\* parsed.
TakePair(acc, x) ==
    IF acc.done THEN acc
    ELSE IF x.key = ";"
         THEN [FoldLeft(ParsePair, acc, acc.packet) EXCEPT !.packet = << >>]
         ELSE [acc EXCEPT !.packet = Append(@, x)]

\* Planted bug: what is left over is forgotten.
Bug_LeftOver(got) == << >>

\* dtlogin_receive_packet: what follows the last packet is kept.
LeftOver(got) == IF got.done THEN << >> ELSE got.packet

\* DtloginInit: the pipe is made for a server that root has started, if that
\* works, in the first generation.
DtloginInit ==
    /\ phase = "start"
    /\ dmd' \in {NoPipe} \cup (IF cred.ruid = 0 THEN {[NoPipe EXCEPT !.open = TRUE]}
                               ELSE {})
    /\ phase' = "run"
    /\ UNCHANGED <<cred, groups, home, vt, pipe, unsent, last, first, pc, wrapped,
                   closed, bare>>

\* dtlogin_pipe_notify: there is something to read, and the buffer is allocated.
dtlogin_pipe_notify ==
    /\ phase = "run" /\ pc = "main" /\ dmd.open /\ pipe # << >>
    /\ dmd' = [dmd EXCEPT !.bufsize = IF @ = 0 THEN BUFLEN ELSE @]
    /\ pc' = "receive"
    /\ UNCHANGED <<cred, groups, home, vt, pipe, unsent, last, first, phase,
                   wrapped, closed, bare>>

\* The pipe breaks, or there is no memory for the buffer.
PipeFails ==
    /\ phase = "run" /\ dmd.open
    /\ dtlogin_close_pipe
    /\ pc' = "main"
    /\ UNCHANGED <<cred, groups, home, vt, last, first, phase, wrapped, closed,
                   bare>>

\* dtlogin_receive_packet: a turn of the loop.  The buffer grows if it is more
\* than half full; if it does not, and is full, read is asked for nothing and
\* the result is taken as the end of the file.
dtlogin_receive_packet ==
    /\ pc = "receive"
    /\ \E bufsize \in {dmd.bufsize}
            \cup (IF Len(dmd.buf) > dmd.bufsize \div 2 THEN {dmd.bufsize + BUFLEN}
                  ELSE {}) :
        LET room == bufsize - Len(dmd.buf) - 1
            n    == Min({room, Len(pipe)})
            got  == FoldLeft(TakePair,
                             [user |-> dmd.user, packet |-> << >>, done |-> FALSE],
                             dmd.buf \o SubSeq(pipe, 1, n))
        IN  \/ /\ room = 0
               /\ dtlogin_close_pipe
               /\ pc' = "main"
               /\ UNCHANGED <<cred, groups, home, vt, wrapped, bare>>
            \/ /\ room > 0 /\ pipe = << >>
               /\ dmd' = [dmd EXCEPT !.bufsize = bufsize]
               /\ pc' = "main"
               /\ UNCHANGED <<cred, groups, home, vt, wrapped, bare, pipe, unsent>>
            \/ /\ room > 0 /\ pipe # << >>
               /\ pipe' = SubSeq(pipe, n + 1, Len(pipe))
               /\ dmd' = [dmd EXCEPT !.bufsize = bufsize, !.user = got.user,
                                     !.buf = LeftOver(got)]
               /\ IF got.done
                  THEN /\ \E screens \in SUBSET Screens :
                              dtlogin_process(got.user, TRUE, screens)
                       /\ pc' = "main"
                  ELSE UNCHANGED <<cred, groups, home, vt, wrapped, bare, pc>>
               /\ UNCHANGED unsent
    /\ UNCHANGED <<last, first, phase, closed>>

\* SetPriority, for which the server is in group 0 for a moment.
SetPriority ==
    /\ phase = "run" /\ pc = "main"
    /\ cred' = IF cred.euid = 0 THEN cred ELSE setegid(setegid(cred, 0), cred.egid)
    /\ UNCHANGED <<groups, home, vt, dmd, pipe, unsent, last, first, pc, phase,
                   wrapped, closed, bare>>

-----------------------------------------------------------------------------
\* The display manager and the main loop (external).

Stream(r) ==
    <<[key |-> "UID", val |-> r.uid], [key |-> "GID", val |-> r.gid],
      [key |-> ";", val |-> 0]>>
    \o [i \in DOMAIN r.groups |-> [key |-> "G_LIST_ID", val |-> r.groups[i]]]
    \o <<[key |-> ";", val |-> 0], [key |-> "HOME", val |-> r.home],
         [key |-> "EOF", val |-> 0], [key |-> ";", val |-> 0]>>

Login ==
    /\ dmd.open /\ pc = "main"
    /\ pipe = << >> /\ unsent = << >> /\ dmd.buf = << >>
    /\ \E r \in Records : unsent' = Stream(r) /\ last' = r
    /\ first' = (last = NoRecord)
    /\ UNCHANGED <<cred, groups, home, vt, dmd, pipe, pc, phase, wrapped, closed,
                   bare>>

Write ==
    /\ \E n \in 1 .. Len(unsent) :
        /\ pipe' = pipe \o SubSeq(unsent, 1, n)
        /\ unsent' = SubSeq(unsent, n + 1, Len(unsent))
    /\ UNCHANGED <<cred, groups, home, vt, dmd, last, first, pc, phase, wrapped,
                   closed, bare>>

\* The main loop ends, and everything is closed down.
EndGeneration ==
    /\ phase = "run" /\ pc = "main"
    /\ phase' = "reset"
    /\ DtloginCloseDown
    /\ UNCHANGED <<last, first, pc, wrapped, closed, bare>>

\* The server gives up and closes its screens from wherever it is.
AbortServer ==
    /\ phase = "run" /\ pc = "main"
    /\ phase' = "abort"
    /\ UNCHANGED <<cred, groups, home, vt, dmd, pipe, unsent, last, first, pc,
                   wrapped, closed, bare>>

\* DtloginCloseScreen, or what CloseScreen was before.
CloseScreen(s) ==
    /\ phase \in {"reset", "abort"} /\ s \notin closed
    /\ IF s \in wrapped
       THEN /\ DtloginCloseDown
            /\ wrapped' = wrapped \ {s}
       ELSE UNCHANGED <<cred, groups, home, vt, dmd, pipe, unsent, wrapped>>
    /\ closed' = closed \cup {s}
    /\ UNCHANGED <<last, first, pc, phase, bare>>

\* The next generation, in which DtloginInit does nothing.
Regenerate ==
    /\ phase = "reset" /\ closed = Screens
    /\ phase' = "run"
    /\ closed' = {} /\ bare' = FALSE
    /\ UNCHANGED <<cred, groups, home, vt, dmd, pipe, unsent, last, first, pc,
                   wrapped>>

Init ==
    /\ cred \in [ruid : {0} \cup {r.uid : r \in Records}, euid : {0}, suid : {0},
                 rgid : {0}, egid : {0}, sgid : {0}]
    /\ groups = OwnGroups /\ home = 0 /\ vt = FALSE
    /\ dmd = NoPipe /\ pipe = << >> /\ unsent = << >> /\ last = NoRecord
    /\ first = TRUE
    /\ pc = "main" /\ phase = "start"
    /\ wrapped = {} /\ closed = {} /\ bare = FALSE

Next ==
    \/ DtloginInit \/ dtlogin_pipe_notify \/ PipeFails \/ dtlogin_receive_packet
    \/ SetPriority
    \/ Login \/ Write
    \/ EndGeneration \/ AbortServer \/ Regenerate \/ \E s \in Screens : CloseScreen(s)

Spec == Init /\ [][Next]_vars

-----------------------------------------------------------------------------
\* Properties.

\* "make sure our saved-set-gid is 0 so that we can regain gid 0 when necessary":
\* whoever has logged in, and in whatever order, the server can become root
\* again, and SetPriority can take group 0 and give it back.
RootRegainable ==
    /\ seteuid(cred, 0).euid = 0
    /\ setegid(cred, 0).egid = 0
    /\ setegid(setegid(cred, 0), cred.egid) = cred

\* However a record is cut up by the pipe and the buffer, when all of it has been
\* read the server is the user of that record, nothing of it is left in the
\* buffer, and the groups of the first record are the server's, in their order
\* and without its own.
LoginApplied ==
    dmd.open /\ last # NoRecord /\ pipe = << >> /\ unsent = << >> /\ pc = "main" =>
        /\ dmd.buf = << >>
        /\ <<cred.ruid, cred.euid>> = <<last.uid, last.uid>>
        /\ <<cred.rgid, cred.egid>> = <<last.gid, last.gid>>
        /\ home = last.home
        /\ vt = (last.uid # Gdm)
        /\ first => groups = last.groups

\* "It notifies the Xserver it needs to change over to the user's credentials
\* (UID, GID, GID_LIST)": after any login, not only the first, the groups of the
\* server are those of the record.  They are not: groupid_cnt is never set back
\* to 0, and the groups of the login screen's user stay with the one who follows.
GroupsSwitched ==
    dmd.open /\ last # NoRecord /\ pipe = << >> /\ unsent = << >> /\ pc = "main" =>
        groups = last.groups

\* When all screens have been closed the server is who it was at the start, with
\* that user's home, no groups of anyone else and nobody logged in, and every
\* CloseScreen is what it was before it was wrapped.  An abort does without if
\* some screen could not be wrapped, and the home and the groups of root who has
\* logged in stay.
CloseRestores ==
    closed = Screens =>
        /\ wrapped = {}
        /\ \/ /\ cred.euid = originalUser.uid /\ cred.egid = originalUser.gid
              /\ \/ home = originalUser.home /\ ~vt /\ groups \in {OwnGroups, << >>}
                 \/ \E r \in Records : r.uid = 0 /\ home = r.home
           \/ phase = "abort" /\ bare

\* originalUser is the "user to switch back to in CloseDown", and its groups are
\* asked for: a server that goes into its next generation after a login of
\* someone else than root has the groups it was started with.  It has none.
GroupsRestored ==
    closed = Screens /\ phase = "reset" /\ last.uid # 0 => groups = OwnGroups

=============================================================================
