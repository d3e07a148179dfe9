------------------------------ MODULE Interactive ------------------------------
(***************************************************************************)
(* The interactive-class extension of the X server,                        *)
(* x11/xserver/xorg/sun-src/IA/interactive.c: processes of the client that *)
(* has the keyboard focus get a scheduling boost, the ones that lose it    *)
(* lose the boost, and the server and the window manager keep theirs.      *)
(*                                                                         *)
(* The X server dispatches one request or callback at a time, so each is   *)
(* one step; the processes behind the pids come and go on their own.       *)
(* LastPids, a pointer to the process list of a client, is the client.     *)
(* The extension is taken to have initialised, memory not to run out.      *)
(***************************************************************************)
EXTENDS Integers, Sequences, Functions

CONSTANTS Clients,     \* connections other than the server's own
          Server,      \* serverClient
          ServerPid,   \* its process
          PidLists,    \* PidLists[c]: the lists of pids client c can report
          None,
          Dangling     \* what a pointer to freed memory points to

Pids == {ServerPid} \cup UNION {Range(l) : l \in UNION Range(PidLists)}
Anyone == Clients \cup {Server}

ASSUME ClientsAssumption == Server \notin Clients /\ {None, Dangling} \cap Anyone = {}

VARIABLES conn,      \* "none", "running" or "retained" (resources outlive it)
          list,      \* priv->process: None or a record of pids, boosted and, as
                     \* history, whether a SET_ or UNSET_PRIORITY on it failed
          wmgr,      \* priv->wmgr
          LastPids,  \* the client whose list it points to, None or Dangling
          mode,      \* what the kernel knows of a pid
          armed      \* IAInitTimer

vars == <<conn, list, wmgr, LastPids, mode, armed>>

Boosted == "IA on"
Modes == {"TS", "IA off", Boosted, "other class", "gone"}

Init ==
    /\ conn = [c \in Anyone |-> IF c = Server THEN "running" ELSE "none"]
    /\ list = [c \in Anyone |-> None]
    /\ wmgr = [c \in Anyone |-> FALSE]
    /\ LastPids = None
    /\ mode \in {m \in [Pids -> {"TS", "other class"} \cup {Boosted}] :
                   \A p \in Pids : m[p] = Boosted <=> p = ServerPid}
    /\ armed = TRUE

--------------------------------------------------------------------------------
\* The pids SetPriority gets to: it punts at the first one that is gone.
Reached(m, pids) ==
    {pids[k] : k \in {j \in DOMAIN pids : \A i \in 1 .. j : m[pids[i]] # "gone"}}
Punts(m, pids) == \E k \in DOMAIN pids : m[pids[k]] = "gone"

\* Those of them it calls PC_SETPARMS for.
Tried(m, pids, cmd) ==
    {p \in Reached(m, pids) :
        m[p] \in IF cmd = "SET_INTERACTIVE" THEN {"TS"} ELSE {"TS", "IA off", Boosted}}

\* The mode PC_SETPARMS asks for.
SetTo(cmd) == IF cmd = "SET_PRIORITY" THEN Boosted ELSE "IA off"

\* State the handlers pass along: kernel modes, process lists and LastPids.
State(m, l, last) == [mode |-> m, list |-> l, last |-> last]

\* PC_SETPARMS fails for the processes in failed, for lack of privilege (a
\* setegid(0) that fails is only logged) or because they end just then: the loop
\* goes on, and the flag of the list is not touched.
Outcome(s, c, cmd, failed) ==
    LET pids == s.list[c].pids
        ok == failed = {} /\ ~Punts(s.mode, pids)
    IN  [s EXCEPT
           !.mode = [p \in Pids |-> IF p \in Tried(s.mode, pids, cmd) \ failed
                                    THEN SetTo(cmd) ELSE s.mode[p]],
           !.list[c].boosted = IF ok /\ cmd # "SET_INTERACTIVE"
                               THEN cmd = "SET_PRIORITY" ELSE @,
           !.list[c].failed = @ \/ (~ok /\ cmd # "SET_INTERACTIVE")]

\* The states SetPriority can leave; no caller looks at its result.
SetPriority(s, c, cmd) ==
    IF s.list[c] = None \/ s.list[c].pids = <<>> THEN {s}
    ELSE {Outcome(s, c, cmd, failed) :
            failed \in SUBSET Tried(s.mode, s.list[c].pids, cmd)}

\* As many pids in both, and every one of the first in the second.
PidSetEqual(a, b) ==
    Len(a.pids) = Len(b.pids) /\ Range(a.pids) \subseteq Range(b.pids)

SameAsLast(s, c) ==
    s.list[c] # None /\ s.last # None /\ PidSetEqual(s.list[c], s.list[s.last])

\* A pointer to the list that is freed points nowhere.
Freed(s, c) ==
    [s EXCEPT !.list[c] = None, !.last = IF @ = c THEN Dangling ELSE @]

\* Planted bug: LastPids is left pointing to the list that is freed.
Bug_FreeProcessList(s, c) == Freed(s, c)

FreeProcessList(s, c) ==
    Freed([s EXCEPT !.last = IF @ = c THEN None ELSE @], c)

NewList(pids) == [pids |-> pids, boosted |-> FALSE, failed |-> FALSE]

SetClientPrivate(s, c, pids) ==
    [FreeProcessList(s, c) EXCEPT !.list[c] = NewList(pids)]

Unfocus(s) ==
    IF s.last = None THEN {s}
    ELSE {[t EXCEPT !.last = None] : t \in SetPriority(s, s.last, "UNSET_PRIORITY")}

\* "Set the priority boost if it isn't already active".
Boost(s, c) == IF s.list[c].boosted THEN {s} ELSE SetPriority(s, c, "SET_PRIORITY")

\* Planted bug: the window manager is remembered like any other client.
Bug_ChangePriority(s, c, w) ==
    IF SameAsLast(s, c) THEN {s}
    ELSE IF s.list[c] = None \/ s.list[c].pids = <<>> THEN Unfocus(s)
    ELSE {[on EXCEPT !.last = IF c # Server THEN c ELSE @] :
            on \in UNION {Boost(off, c) : off \in Unfocus(s)}}

\* Planted bug: the new focus group is remembered but not boosted.
Bug_boostless(s, c, w) ==
    IF SameAsLast(s, c) THEN {s}
    ELSE IF s.list[c] = None \/ s.list[c].pids = <<>> THEN Unfocus(s)
    ELSE {[off EXCEPT !.last = IF c # Server /\ ~w THEN c ELSE @] : off \in Unfocus(s)}

\* Focus goes to client c, a window manager if w.
ChangePriority(s, c, w) ==
    IF SameAsLast(s, c) THEN {s}
    ELSE IF s.list[c] = None \/ s.list[c].pids = <<>> THEN Unfocus(s)
    ELSE {[on EXCEPT !.last = IF c # Server /\ ~w THEN c ELSE @] :
            on \in UNION {Boost(off, c) : off \in Unfocus(s)}}

--------------------------------------------------------------------------------
Now == State(mode, list, LastPids)
\* One of the outcomes of a call.
Becomes(outcomes) ==
    \E s \in outcomes : mode' = s.mode /\ list' = s.list /\ LastPids' = s.last

\* IAClientStateChange, ClientStateInitial: the pid is that of the peer, unless
\* it is not known.
ClientStateInitial(c, pids) ==
    /\ conn[c] = "none"
    /\ conn' = [conn EXCEPT ![c] = "running"]
    /\ \/ UNCHANGED <<mode, list, LastPids>>
       \/ /\ Len(pids) = 1
          /\ Becomes(SetPriority(SetClientPrivate(Now, c, pids), c, "SET_INTERACTIVE"))
    /\ UNCHANGED <<wmgr, armed>>

\* IAClientStateChange, ClientStateGone and ClientStateRetained.
ClientStateGone(c, to) ==
    LET off == IF list[c] # None /\ list[c].boosted
               THEN SetPriority(Now, c, "UNSET_PRIORITY") ELSE {Now}
        done(s) == IF SameAsLast(s, c) THEN [s EXCEPT !.last = None] ELSE s
    IN  /\ <<conn[c], to>> \in {<<"running", "none">>, <<"running", "retained">>,
                               <<"retained", "none">>}
        /\ conn' = [conn EXCEPT ![c] = to]
        /\ Becomes({FreeProcessList(done(s), c) : s \in off})
        /\ wmgr' = [wmgr EXCEPT ![c] = FALSE]
        /\ UNCHANGED armed

\* From a local client with the right uid.
ProcIASetProcessInfo(c, pids) ==
    /\ conn[c] = "running"
    /\ Becomes(SetPriority(SetClientPrivate(Now, c, pids), c, "SET_INTERACTIVE"))
    /\ UNCHANGED <<conn, wmgr, armed>>

\* The focus is set to a window of owner.
IAProcSetInputFocus(owner) ==
    /\ conn[owner] # "none"
    /\ Becomes(ChangePriority(Now, owner, wmgr[owner]))
    /\ UNCHANGED <<conn, wmgr, armed>>

\* A window manager offers the focus to owner in a client message.
IAProcSendEvent(c, owner) ==
    /\ conn[c] = "running" /\ wmgr[c]
    /\ conn[owner] # "none"
    /\ Becomes(ChangePriority(Now, owner, wmgr[owner]))
    /\ UNCHANGED <<conn, wmgr, armed>>

\* A client that redirects the substructure of a window is a window manager.
IAProcChangeWindowAttributes(c) ==
    /\ conn[c] = "running" /\ ~wmgr[c]
    /\ wmgr' = [wmgr EXCEPT ![c] = TRUE]
    /\ Becomes({[s EXCEPT !.last = None] : s \in ChangePriority(Now, c, TRUE)})
    /\ UNCHANGED <<conn, armed>>

IAInitTimerCall ==
    /\ armed /\ armed' = FALSE
    /\ Becomes(ChangePriority(SetClientPrivate(Now, Server, <<ServerPid>>), Server, FALSE))
    /\ UNCHANGED <<conn, wmgr>>

\* A server reset, which closes the clients down first: IACloseDown, then
\* IAExtensionInit for the next generation.
Regenerate ==
    /\ \A c \in Clients : conn[c] = "none"
    /\ list' = [list EXCEPT ![Server] = None]
    /\ mode' = [mode EXCEPT ![ServerPid] = Boosted]
    /\ armed' = TRUE
    /\ UNCHANGED <<conn, wmgr, LastPids>>

\* External: a process ends.
Exit(p) ==
    /\ p # ServerPid /\ mode[p] # "gone"
    /\ mode' = [mode EXCEPT ![p] = "gone"]
    /\ UNCHANGED <<conn, list, wmgr, LastPids, armed>>

Next ==
    \/ \E c \in Clients : \E l \in PidLists[c] : ClientStateInitial(c, l)
    \/ \E c \in Clients, to \in {"none", "retained"} : ClientStateGone(c, to)
    \/ \E c \in Clients : \E l \in PidLists[c] : ProcIASetProcessInfo(c, l)
    \/ \E owner \in Anyone : IAProcSetInputFocus(owner)
    \/ \E c \in Clients, owner \in Anyone : IAProcSendEvent(c, owner)
    \/ \E c \in Clients : IAProcChangeWindowAttributes(c)
    \/ IAInitTimerCall
    \/ Regenerate
    \/ \E p \in Pids : Exit(p)

Spec == Init /\ [][Next]_vars

--------------------------------------------------------------------------------
TypeOK ==
    /\ conn \in [Anyone -> {"none", "running", "retained"}]
    /\ \A c \in Anyone : list[c] = None \/
         /\ list[c].boosted \in BOOLEAN /\ list[c].failed \in BOOLEAN
         /\ list[c].pids \in IF c = Server THEN {<<ServerPid>>} ELSE PidLists[c]
    /\ wmgr \in [Anyone -> BOOLEAN]
    /\ LastPids \in Anyone \cup {None, Dangling}
    /\ mode \in [Pids -> Modes]
    /\ armed \in BOOLEAN

\* LastPids is used, and the list behind it written to, at the next change of
\* focus: through every order of connects, reports, focus changes and closing
\* down it points to the present list of a running client that is neither the
\* server nor a window manager.
FocusRecordLive ==
    LastPids # None =>
        /\ LastPids \in Clients /\ conn[LastPids] = "running"
        /\ list[LastPids] # None /\ ~wmgr[LastPids]

Steerable(p) == mode[p] \notin {"gone", "other class"}

\* For processes with one connection each: unless a call of SetPriority on its
\* list did not get through, the focus group is marked as boosted and its
\* processes are, through every order of focus changes, reports and ends of
\* processes.  The shortcut for a focus change between windows of the same pids
\* relies on it.  ChangePriority does not look at the result of SetPriority, so
\* that after a call that failed nothing is promised.
FocusIsBoosted ==
    LastPids # None /\ ~list[LastPids].failed =>
        /\ list[LastPids].boosted
        /\ \A p \in Range(list[LastPids].pids) : Steerable(p) => mode[p] = Boosted

\* "Set the priority boost if it isn't already active": the flag that decides
\* says that the boost is active.  Violated: SetPriority takes the boost of the
\* first processes, punts at one that has ended, and leaves the flag set; they
\* are not boosted again when the focus comes back.
BoostedIsActive ==
    \A c \in Anyone : list[c] # None /\ list[c].boosted =>
        \A p \in Range(list[c].pids) : Steerable(p) => mode[p] = Boosted

\* "Make sure server or wmgr isn't unset": for processes with one connection
\* each, no step takes the boost of the server's process, or of a process of a
\* window manager as long as that stays connected.
KeepsBoost ==
    [][ /\ mode[ServerPid] = Boosted => mode'[ServerPid] = Boosted
        /\ \A c \in Clients :
             wmgr[c] /\ wmgr'[c] /\ list[c] # None /\ list'[c] # None =>
                \A p \in Range(list[c].pids) :
                    mode[p] = Boosted => mode'[p] \in {Boosted, "gone"} ]_vars
================================================================================
