----------------------------- MODULE FbcConfig -----------------------------
(***************************************************************************)
(* The Xorg configuration as fbconf_xorg edits it                          *)
(* (components/x11/app/gfx-utils/sun-src/fbconf_xorg, fbc/ and xf86/).     *)
(*                                                                         *)
(* A file is a sequence of sections, a section a sequence of entries.  In  *)
(* memory the program keeps two representations: an internal one it looks  *)
(* things up in, and an external one of lines with a status, which is what *)
(* is written.  Here they are one sequence of sections whose entries carry *)
(* the status; an "internal" entry has no line, and the lines of a         *)
(* "dropped" section are deleted although lookups still find the section.  *)
(*                                                                         *)
(* Identifiers are tuples: <<"mga0", 0>> is "mga0", <<"mga0", 2>> is       *)
(* "mga0_2" and <<"SunModes", "mga0", 0>> is "SunModes_mga0".  Only        *)
(* sections that have the driver of the device are modelled as Device      *)
(* sections, and a Display's depth stands for its depth and its fbbpp.     *)
(***************************************************************************)
EXTENDS Naturals, SequencesExt

CONSTANT SunModes    \* video modes of the supplement SunModes_xorg.conf,
                     \* in its order; << >> if it cannot be opened

NoRes == "no -res"   \* a command line without -res <video_mode>
AUTO  == "AUTO"      \* FBC_RESNAME_PREFERRED
Freed == "freed"     \* what is read through a pointer to a freed element

SunModesId == <<"SunModes">>
MonitorSunModes(mon) == SunModesId \o mon

\* Op(v), where v is evaluated once.
Apply(Op(_), v) == CHOOSE y \in {Op(x) : x \in {v}} : TRUE

-----------------------------------------------------------------------------
\* Lookup.

\* Position of the first section of a type with an identifier, or 0.
xf86find(secs, type, id) ==
    SelectInSeq(secs, LAMBDA s : s.type = type /\ s.id = id)

\* The entries of a kind that the internal representation has, and their values.
Entries(sec, k) ==
    SelectSeq(sec.ents, LAMBDA e : e.k = k /\ e.st # "deleted")

Values(sec, k) ==
    {e.v : e \in {x \in ToSet(sec.ents) : x.k = k /\ x.st # "deleted"}}

HasValue(sec, k, v) == v \in Values(sec, k)

\* Every UseModes entry names a Modes section.
xf86validateMonitor(secs, mon) ==
    \A v \in Values(mon, "UseModes") : xf86find(secs, "Modes", v) # 0

\* The Monitors and the Device a Screen names exist, and the Monitors are good.
xf86validateScreen(secs, scr) ==
    /\ \A v \in Values(scr, "Monitor") :
          /\ xf86find(secs, "Monitor", v.id) # 0
          /\ xf86validateMonitor(secs, secs[xf86find(secs, "Monitor", v.id)])
    /\ \A v \in Values(scr, "Device") : xf86find(secs, "Device", v) # 0

\* Every Screen a ServerLayout names exists.
xf86validateLayout(secs, lay) ==
    \A v \in Values(lay, "Screen") : xf86find(secs, "Screen", v) # 0

xf86validateConfig(secs) ==
    \A i \in DOMAIN secs :
        /\ secs[i].type = "Screen" => xf86validateScreen(secs, secs[i])
        /\ secs[i].type = "Layout" => xf86validateLayout(secs, secs[i])

-----------------------------------------------------------------------------
\* Reading.

\* Of options with one name the first counts and the others lose their lines.
xf86parseOption(ents, i) ==
    IF /\ ents[i].k \in {"Path", "RemoteScreen"}
       /\ \E j \in 1 .. i - 1 : ents[j].k = ents[i].k
    THEN "deleted"
    ELSE "original"

\* Planted bug: the name of the section is not compared.
Bug_parseModesSection(sec) == sec.type = "Modes"

\* The lines of any Modes section called "SunModes" are deleted as it is read.
xf86parseModesSection(sec) == sec.type = "Modes" /\ sec.id = SunModesId

\* A section of any type.
xf86parseSection(sec) ==
    [type    |-> sec.type,
     id      |-> sec.id,
     dropped |-> xf86parseModesSection(sec),
     ents    |-> [j \in DOMAIN sec.ents |->
                     [k  |-> sec.ents[j].k,
                      v  |-> sec.ents[j].v,
                      st |-> xf86parseOption(sec.ents, j)]]]

xf86parseConfigFile(file) == [i \in DOMAIN file |-> xf86parseSection(file[i])]

\* The supplement, read as a configuration file.
Supplement ==
    xf86parseConfigFile(<<[type |-> "Modes", id |-> SunModesId,
        ents |-> [i \in DOMAIN SunModes |->
                     [k |-> "Mode", v |-> <<SunModes[i]>>]]]>>)

-----------------------------------------------------------------------------
\* Lines.

\* A new line before the section's end line.
fbc_insert_line_ER(secs, i, k, v) ==
    [secs EXCEPT ![i].ents = Append(@, [k |-> k, v |-> v, st |-> "inserted"])]

\* A line that is printed anew from the internal representation.
fbc_modify_line_ER(secs, i, e) == [secs EXCEPT ![i].ents[e].st = "modified"]

\* An option is changed where it is, or added to its section.
xf86addNewOptionOrValue(secs, i, k, v) ==
    LET e == SelectInSeq(secs[i].ents, LAMBDA x : x.k = k /\ x.st # "deleted")
    IN  IF e = 0
        THEN fbc_insert_line_ER(secs, i, k, v)
        ELSE fbc_modify_line_ER([secs EXCEPT ![i].ents[e].v = v], i, e)

\* "name", or the first of "name_1", "name_2", ... that no section has.
UniqueName(secs, type, name) ==
    <<name, CHOOSE n \in 0 .. Len(secs) :
        /\ xf86find(secs, type, <<name, n>>) = 0
        /\ \A m \in 0 .. n - 1 : xf86find(secs, type, <<name, m>>) # 0>>

NewSection(type, id, ents) ==
    [type |-> type, id |-> id, dropped |-> FALSE,
     ents |-> [i \in DOMAIN ents |->
                  [k |-> ents[i].k, v |-> ents[i].v, st |-> "inserted"]]]

-----------------------------------------------------------------------------
\* The active sections: found, or inserted if they are needed.

\* A new Device section, at the end.  (The code links configIR and not the new
\* record into the list of Device sections, and does so for Monitor sections
\* too.  Neither list is looked at again in that run, the record is reached by a
\* pointer of its own, and its lines are in the file.)
fbc_insert_Device_section(secs, dev, id) ==
    Append(secs, NewSection("Device", id, <<[k |-> "Path", v |-> <<dev.name>>]>>))

\* The first Device section with the device's path, else the first without a
\* path, which gets it, else a new one.
fbc_find_active_Device_section(secs, dev) ==
    LET path  == SelectInSeq(secs, LAMBDA s :
                     s.type = "Device" /\ HasValue(s, "Path", <<dev.name>>))
        blank == SelectInSeq(secs, LAMBDA s :
                     s.type = "Device" /\ Values(s, "Path") = {})
        new   == UniqueName(secs, "Device", dev.name)
    IN  IF path # 0
        THEN [secs |-> secs, id |-> secs[path].id]
        ELSE IF blank # 0
        THEN [secs |-> xf86addNewOptionOrValue(secs, blank, "Path", <<dev.name>>),
              id   |-> secs[blank].id]
        ELSE [secs |-> fbc_insert_Device_section(secs, dev, new), id |-> new]

\* A new Screen section: at the front if this is the default device, else at
\* the end.
fbc_insert_Screen_section(secs, dev, devId) ==
    LET new == NewSection("Screen", UniqueName(secs, "Screen", dev.name),
                          <<[k |-> "Device", v |-> devId]>>)
    IN  IF dev.is_default
        THEN [secs |-> <<new>> \o secs, scr |-> 1]
        ELSE [secs |-> Append(secs, new), scr |-> Len(secs) + 1]

\* The first Screen section for the Device section, else a new one.
fbc_find_active_Screen_section(secs, dev, devId) ==
    LET old == SelectInSeq(secs, LAMBDA s :
                   s.type = "Screen" /\ HasValue(s, "Device", devId))
    IN  IF old # 0
        THEN [secs |-> secs, scr |-> old]
        ELSE fbc_insert_Screen_section(secs, dev, devId)

\* A new Monitor section at the end, named in the Screen section.
fbc_insert_Monitor_section(secs, scr, dev) ==
    LET new == UniqueName(secs, "Monitor", dev.name)
    IN  fbc_insert_line_ER(Append(secs, NewSection("Monitor", new, << >>)),
                           scr, "Monitor", [num |-> 0, id |-> new])

\* The Screen's first Monitor, else, if it is needed, a new one.
fbc_find_active_Monitor(secs, scr, dev, needed) ==
    LET mons == Entries(secs[scr], "Monitor")
    IN  IF mons # << >>
        THEN [secs |-> secs, scr |-> scr, num |-> mons[1].v.num,
              mon |-> xf86find(secs, "Monitor", mons[1].v.id)]
        ELSE IF ~needed
        THEN [secs |-> secs, scr |-> scr, num |-> 0, mon |-> 0]
        ELSE [secs |-> fbc_insert_Monitor_section(secs, scr, dev), scr |-> scr,
              num |-> 0, mon |-> Len(secs) + 1]

\* The first Display of the Screen for the monitor number (0: none is given)
\* whose depth is not given or is the Screen's default depth.
fbc_find_active_Display_subsection(scr, num) ==
    SelectInSeq(scr.ents, LAMBDA e :
        /\ e.k = "Display"
        /\ e.v.num = num
        /\ e.v.depth # 0 => HasValue(scr, "DefaultDepth", <<e.v.depth>>))

\* A new Display for a monitor number, of any depth.
fbc_insert_Display_subsection(secs, scr, num) ==
    fbc_insert_line_ER(secs, scr, "Display",
                       [num |-> num, depth |-> 0, modes |-> << >>])

\* All of them.  scr and mon are positions of sections, mon is 0 if there is
\* none, dsp is the position of the Display in the Screen or 0.  The program goes
\* on without a Display if memory is short when it is to be inserted.
fbc_find_active_sections(secs, cmd, short) ==
    LET needed == cmd.res # NoRes
        Screen(d)  == fbc_find_active_Screen_section(d.secs, cmd.dev, d.id)
        Monitor(s) == fbc_find_active_Monitor(s.secs, s.scr, cmd.dev, needed)
        Display(m) ==
            LET old == IF m.mon = 0 THEN 0
                       ELSE fbc_find_active_Display_subsection(m.secs[m.scr], m.num)
                add == old = 0 /\ m.mon # 0 /\ needed /\ short # "Display"
            IN  [secs |-> IF ~add THEN m.secs
                          ELSE fbc_insert_Display_subsection(m.secs, m.scr, m.num),
                 scr  |-> m.scr,
                 mon  |-> m.mon,
                 dsp  |-> IF add THEN Len(m.secs[m.scr].ents) + 1 ELSE old]
    IN  Apply(Display, Apply(Monitor, Apply(Screen,
            fbc_find_active_Device_section(secs, cmd.dev))))

-----------------------------------------------------------------------------
\* -res <video_mode>.

\* Planted bug: the Monitor gets no line for the section that will be written.
Bug_insert_UseModes(secs, mon) ==
    [secs EXCEPT ![mon].ents =
        Append(@, [k |-> "UseModes", v |-> SunModesId, st |-> "internal"])]

\* A link to "SunModes" without a line, and one to "SunModes_<monitor>".
fbc_insert_UseModes_entry(secs, mon) ==
    LET own  == MonitorSunModes(secs[mon].id)
        both == [secs EXCEPT ![mon].ents =
                     Append(@, [k |-> "UseModes", v |-> SunModesId,
                                st |-> "internal"])]
    IN  IF HasValue(secs[mon], "UseModes", own)
        THEN both
        ELSE fbc_insert_line_ER(both, mon, "UseModes", own)

\* The modes of the supplement become available to the Monitor.
fbc_append_Modes_sections(secs, mon) ==
    LET Used(all) == IF \/ xf86find(all, "Modes", SunModesId) = 0
                        \/ HasValue(all[mon], "UseModes", SunModesId)
                     THEN all
                     ELSE fbc_insert_UseModes_entry(all, mon)
    IN  Apply(Used, IF xf86find(secs, "Modes", SunModesId) = 0 /\ SunModes # << >>
                    THEN secs \o Supplement
                    ELSE secs)

\* Is the mode one of the section "SunModes"?
IsSunMode(secs, mode) ==
    LET i == xf86find(secs, "Modes", SunModesId)
    IN  i # 0 /\ HasValue(secs[i], "Mode", <<mode>>)

\* Section "SunModes" keeps only the mode.
fbc_trim_Modes_sections(secs, mode) ==
    LET i == xf86find(secs, "Modes", SunModesId)
        j == SelectLastInSeq(secs[i].ents, LAMBDA e :
                 e.k = "Mode" /\ e.v = <<mode>>)
    IN  IF i = 0
        THEN secs
        ELSE [secs EXCEPT ![i].ents = IF j = 0 THEN << >> ELSE <<@[j]>>]

\* The section "SunModes_<monitor>" loses its lines.
fbc_remove_monitor_sunmodes_section_ER(secs, mon) ==
    LET i == xf86find(secs, "Modes", MonitorSunModes(secs[mon].id))
    IN  IF i = 0 THEN secs ELSE [secs EXCEPT ![i].dropped = TRUE]

\* Planted bug: the Monitor keeps its UseModes line.
Bug_remove_usemodes(secs, mon) == secs

\* So does the Monitor's first UseModes entry for it.
fbc_remove_monitor_usemodes_entry_ER(secs, mon) ==
    LET e == SelectInSeq(secs[mon].ents, LAMBDA x :
                 x.k = "UseModes" /\ x.v = MonitorSunModes(secs[mon].id))
    IN  IF e = 0 THEN secs ELSE [secs EXCEPT ![mon].ents[e].st = "deleted"]

\* What fbc_res_validate_mode does to the configuration when it accepts.
fbc_res_validate_mode(secs, mon, mode) ==
    LET Trim(all)  == fbc_trim_Modes_sections(all, mode)
        Drop(all)  == fbc_remove_monitor_sunmodes_section_ER(all, mon)
        Unuse(all) == fbc_remove_monitor_usemodes_entry_ER(all, mon)
        Kept(all)  == Apply(Drop, Apply(Trim, all))
        Edit(all)  == IF mode # AUTO /\ IsSunMode(all, mode)
                      THEN Kept(all)
                      ELSE Apply(Unuse, Kept(all))
    IN  Apply(Edit, fbc_append_Modes_sections(secs, mon))

-----------------------------------------------------------------------------
\* Editing.

\* Planted bug: the mode is added after the modes that are there.
Bug_ReplaceMode(modes, mode) == Append(modes, mode)

\* The mode replaces the first element of the list.  If it is the first one
\* and not the only one, the element it is linked to has been freed.
ReplaceMode(modes, mode) ==
    LET i == SelectInSeq(modes, LAMBDA m : m = mode)
    IN  IF i = 0 THEN <<mode>>
        ELSE IF i = 1 THEN IF Len(modes) = 1 THEN modes ELSE <<mode, Freed>>
        ELSE SubSeq(modes, i, Len(modes))

fbc_edit_Display_subsection(secs, scr, dsp, mode) ==
    IF mode = NoRes \/ dsp = 0
    THEN secs
    ELSE fbc_modify_line_ER(
             [secs EXCEPT ![scr].ents[dsp].v.modes = ReplaceMode(@, mode)],
             scr, dsp)

fbc_edit_Options(secs, scr, rscreen) ==
    IF rscreen = "unset"
    THEN secs
    ELSE xf86addNewOptionOrValue(secs, scr, "RemoteScreen", <<rscreen>>)

\* fbc_edit_Display_subsection needs a new element for the mode.
NeedsElement(act, mode) ==
    /\ mode # NoRes /\ act.dsp # 0
    /\ mode \notin ToSet(act.secs[act.scr].ents[act.dsp].v.modes)

\* Without memory for the element nothing is edited.
fbc_edit_active_sections(act, cmd, short) ==
    LET Options(secs) == fbc_edit_Options(secs, act.scr, cmd.rscreen)
    IN  IF short = "element" /\ NeedsElement(act, cmd.res)
        THEN act.secs
        ELSE Apply(Options,
                 fbc_edit_Display_subsection(act.secs, act.scr, act.dsp, cmd.res))

-----------------------------------------------------------------------------
\* Writing.

\* The section "SunModes_<monitor>" with what is left of "SunModes".
fbc_write_config_modes(secs, mon) ==
    LET i == xf86find(secs, "Modes", SunModesId)
    IN  IF i = 0 THEN << >>
        ELSE IF Entries(secs[i], "Mode") = << >> THEN << >>
        ELSE <<[type |-> "Modes", id |-> MonitorSunModes(secs[mon].id),
                ents |-> [j \in DOMAIN Entries(secs[i], "Mode") |->
                             [k |-> "Mode", v |-> Entries(secs[i], "Mode")[j].v]]]>>

\* The lines that are not deleted, in order.
WrittenSection(sec) ==
    LET es == SelectSeq(sec.ents, LAMBDA e : e.st \notin {"deleted", "internal"})
    IN  [type |-> sec.type, id |-> sec.id,
         ents |-> [j \in DOMAIN es |-> [k |-> es[j].k, v |-> es[j].v]]]

fbc_write_config_file(act, cmd) ==
    LET kept == SelectSeq(act.secs, LAMBDA s : ~s.dropped)
    IN  [i \in DOMAIN kept |-> WrittenSection(kept[i])]
        \o (IF cmd.res = NoRes THEN << >>
            ELSE fbc_write_config_modes(act.secs, act.mon))

=============================================================================
