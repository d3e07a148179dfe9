------------------------------- MODULE FbConf -------------------------------
(***************************************************************************)
(* Invocations of fbconf_xorg (fbc/fbconf_xorg.c, fbc/fbc_write_config.c)  *)
(* on one configuration file.                                              *)
(*                                                                         *)
(* Each of Runs is one invocation with a command line of its own.  They    *)
(* may follow each other or run at the same time: the program takes no     *)
(* lock.  An open file is a snapshot, since the file is only ever replaced *)
(* by rename.  Any system call may fail, and a run may be killed between   *)
(* any two steps.  Whether -res accepts a mode depends on the monitor, the *)
(* hardware and the user's answer, and is left open.                       *)
(*                                                                         *)
(* Memory may be short for the runs in Short, for a Device or a Screen     *)
(* section, for a Display and for the element of a mode; it is not modelled*)
(* for lines and for what a Monitor needs.                                 *)
(***************************************************************************)
EXTENDS FbcConfig

CONSTANTS Runs,       \* numbers of the invocations; they start in this order
          Commands,   \* command lines that modify the configuration
          Files,      \* configuration files there may be at first
          Short       \* runs that may find no memory for what they add

ASSUME RunsAssumption == Runs \subseteq Nat /\ Short \subseteq Runs

NoFile == << >>       \* there is no file of that name

VARIABLES config,     \* the configuration file
          pc,         \* where each run is
          cmd,        \* its command line
          mem,        \* its configuration in memory, with the active sections
          tmp,        \* its temporary file
          status,     \* its exit status
          base,       \* how many files had been installed when it read
          installed,  \* runs that have renamed their file, in order
          lacking     \* runs that have gone on without memory (history)

vars == <<config, pc, cmd, mem, tmp, status, base, installed, lacking>>

NoMem == [secs |-> << >>, scr |-> 0, mon |-> 0, dsp |-> 0]
NoCmd == [dev |-> [name |-> "none", is_default |-> FALSE], res |-> NoRes,
          rscreen |-> "unset"]

Init ==
    /\ config \in Files
    /\ pc = [r \in Runs |-> "idle"]
    /\ cmd = [r \in Runs |-> NoCmd]
    /\ mem = [r \in Runs |-> NoMem]
    /\ tmp = [r \in Runs |-> NoFile]
    /\ status = [r \in Runs |-> "none"]
    /\ base = [r \in Runs |-> 0]
    /\ installed = << >>
    /\ lacking = {}

\* A run ends, and its memory is gone.
Exit(r, s) ==
    /\ pc' = [pc EXCEPT ![r] = "done"]
    /\ mem' = [mem EXCEPT ![r] = NoMem]
    /\ status' = [status EXCEPT ![r] = s]

\* main: the command line and the configuration file, if there is one, are read.
\* The program ends if the file does not validate.
ReadConfig(r) ==
    /\ pc[r] = "idle"
    /\ \A q \in Runs : q < r => pc[q] # "idle"
    /\ \E c \in Commands : cmd' = [cmd EXCEPT ![r] = c]
    /\ LET secs == xf86parseConfigFile(config)
       IN  IF xf86validateConfig(secs)
           THEN /\ mem' = [mem EXCEPT ![r].secs = secs]
                /\ pc' = [pc EXCEPT ![r] = "edit"]
                /\ base' = [base EXCEPT ![r] = Len(installed)]
                /\ UNCHANGED status
           ELSE Exit(r, "failure") /\ UNCHANGED base
    /\ UNCHANGED <<config, tmp, installed, lacking>>

\* The sections for the device are found or made, the mode of -res is accepted,
\* and the sections are edited.
Edited(secs, c, short) ==
    LET Accept(act) ==
            IF c.res = NoRes THEN act
            ELSE [act EXCEPT !.secs = fbc_res_validate_mode(@, act.mon, c.res)]
        Edit(act) == [act EXCEPT !.secs = fbc_edit_active_sections(act, c, short)]
    IN  Apply(Edit, Apply(Accept, fbc_find_active_sections(secs, c, short)))

\* main: all of this in memory.  That nothing could be edited for lack of memory
\* is ignored.
EditConfig(r) ==
    /\ pc[r] = "edit"
    /\ \E short \in {"no"} \cup {s \in {"Display", "element"} : r \in Short} :
       /\ mem' = [mem EXCEPT ![r] = Edited(@.secs, cmd[r], short)]
       /\ lacking' = IF mem'[r] = Edited(mem[r].secs, cmd[r], "no") THEN lacking
                     ELSE lacking \cup {r}
    /\ pc' = [pc EXCEPT ![r] = "create"]
    /\ UNCHANGED <<config, cmd, tmp, status, base, installed>>

\* main: the mode of -res is rejected, which AUTO never is, or there is no memory
\* for a Device or Screen section.
RejectMode(r) ==
    /\ pc[r] = "edit"
    /\ cmd[r].res \notin {NoRes, AUTO} \/ r \in Short
    /\ Exit(r, "failure")
    /\ UNCHANGED <<config, cmd, tmp, base, installed, lacking>>

\* fbc_write_config: the temporary file is made, and is still empty.
CreateTemp(r) ==
    /\ pc[r] = "create"
    /\ tmp' = [tmp EXCEPT ![r] = <<"incomplete">>]
    /\ pc' = [pc EXCEPT ![r] = "write"]
    /\ UNCHANGED <<config, cmd, mem, status, base, installed, lacking>>

\* fbc_write_config: mkstemp fails, or fdopen does and leaves the file.
CreateFails(r) ==
    /\ pc[r] = "create"
    /\ \/ UNCHANGED tmp /\ Exit(r, "failure")
       \/ tmp' = [tmp EXCEPT ![r] = <<"incomplete">>] /\ Exit(r, "failure")
    /\ UNCHANGED <<config, cmd, base, installed, lacking>>

\* fbc_write_config: the lines are written, and the modes and owner set.
WriteTemp(r) ==
    /\ pc[r] = "write"
    /\ tmp' = [tmp EXCEPT ![r] = fbc_write_config_file(mem[r], cmd[r])]
    /\ pc' = [pc EXCEPT ![r] = "rename"]
    /\ UNCHANGED <<config, cmd, mem, status, base, installed, lacking>>

\* fbc_write_config: a line cannot be read again, or the mode or the owner not
\* be set, or the file not be renamed; the temporary file is deleted.
WriteFails(r) ==
    /\ pc[r] \in {"write", "rename"}
    /\ tmp' = [tmp EXCEPT ![r] = NoFile]
    /\ Exit(r, "failure")
    /\ UNCHANGED <<config, cmd, base, installed, lacking>>

\* fbc_write_config: the temporary file becomes the configuration file.
Rename(r) ==
    /\ pc[r] = "rename"
    /\ config' = tmp[r]
    /\ tmp' = [tmp EXCEPT ![r] = NoFile]
    /\ installed' = Append(installed, r)
    /\ Exit(r, "success")
    /\ UNCHANGED <<cmd, base, lacking>>

\* The run is killed, or the system goes down; to its caller it has failed.
Crash(r) ==
    /\ pc[r] \notin {"idle", "done"}
    /\ Exit(r, "failure")
    /\ UNCHANGED <<config, cmd, tmp, base, installed, lacking>>

Next ==
    \E r \in Runs :
        \/ ReadConfig(r) \/ EditConfig(r) \/ RejectMode(r)
        \/ CreateTemp(r) \/ CreateFails(r) \/ WriteTemp(r) \/ WriteFails(r)
        \/ Rename(r) \/ Crash(r)

Spec == Init /\ [][Next]_vars

-----------------------------------------------------------------------------
\* Properties.

\* What the X server and the next run of the program make of the file.
Parsed(file) == xf86parseConfigFile(file)

\* The identities of the sections that a command line is for.
ActiveSections(file, c) ==
    LET act == fbc_find_active_sections(Parsed(file), c, "no")
        scr == act.secs[act.scr]
    IN  {<<"Screen", scr.id>>, <<"Device", Entries(scr, "Device")[1].v>>}
        \cup (IF act.mon = 0 THEN {}
              ELSE {<<"Monitor", act.secs[act.mon].id>>,
                    <<"Modes", MonitorSunModes(act.secs[act.mon].id)>>})

\* The file has what the command line asks for, in sections it had already.
Applied(file, c) ==
    LET act == fbc_find_active_sections(Parsed(file), c, "no")
        scr == act.secs[act.scr]
    IN  /\ act.secs = Parsed(file)
        /\ c.res # NoRes => /\ scr.ents[act.dsp].v.modes # << >>
                            /\ scr.ents[act.dsp].v.modes[1] = c.res
        /\ c.rscreen # "unset" => HasValue(scr, "RemoteScreen", <<c.rscreen>>)

\* The configuration file is always one that can be read again: whatever runs
\* overlap, fail or are killed, a file that is installed passes
\* xf86validateConfig, all names in it resolved.
ConfigValid == xf86validateConfig(Parsed(config))

\* The mode that -res has set is one the Monitor has: if it is a mode of the
\* supplement, a Modes section that the Monitor uses defines it, although every
\* run takes out the section it wrote before and trims "SunModes" to one mode.
\* A run without memory for a mode takes out the section of the old one as well,
\* which is not promised of the Screen it was for.
ModesDefined ==
    LET secs == Parsed(config)
        Spoilt(id) == \E r \in lacking \cap ToSet(installed) :
                          <<"Screen", id>> \in ActiveSections(config, cmd[r])
    IN  \A s \in DOMAIN secs :
            \A v \in Values(secs[s], "Monitor") :
                LET mon == secs[xf86find(secs, "Monitor", v.id)]
                    d   == fbc_find_active_Display_subsection(secs[s], v.num)
                    m   == IF d = 0 THEN << >> ELSE secs[s].ents[d].v.modes
                IN  m # << >> /\ m[1] \in ToSet(SunModes) =>
                        \/ \E u \in Values(mon, "UseModes") :
                               HasValue(secs[xf86find(secs, "Modes", u)],
                                        "Mode", <<m[1]>>)
                        \/ Spoilt(secs[s].id)

\* What a run has done and reported as done stays done, unless a later run was
\* for the same device or had read the file before this run installed its own.
\* A run that lacked memory has not done what it reports.
UpdateKept ==
    \A p \in DOMAIN installed :
        (\A q \in p + 1 .. Len(installed) :
            /\ base[installed[q]] >= p
            /\ cmd[installed[q]].dev # cmd[installed[p]].dev)
        => installed[p] \in lacking \/ Applied(config, cmd[installed[p]])

\* The lines of the input file are kept: a run that overlaps no other leaves
\* every section that is not of its device as it was and where it was.  (Of
\* repeated options only the first is kept.)
ForeignKept ==
    [][\A r \in Runs :
        Rename(r) /\ base[r] = Len(installed) =>
            LET mine == ActiveSections(config', cmd[r])
                Others(file) == SelectSeq(file, LAMBDA s :
                                    <<s.type, s.id>> \notin mine)
                once == [i \in DOMAIN config |-> WrittenSection(Parsed(config)[i])]
            IN  Others(config') = Others(once)]_vars

=============================================================================
