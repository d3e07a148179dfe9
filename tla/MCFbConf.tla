------------------------------ MODULE MCFbConf ------------------------------
(* Instances of FbConf: configuration files and command lines.             *)
EXTENDS FbConf

E(k, v) == [k |-> k, v |-> v]
Sec(type, id, ents) == [type |-> type, id |-> id, ents |-> ents]
Display(num, depth, modes) ==
    E("Display", [num |-> num, depth |-> depth, modes |-> modes])

MCSunModes == <<"x", "x2">>

d1 == [name |-> "mga0", is_default |-> TRUE]
d2 == [name |-> "mga1", is_default |-> FALSE]
Cmd(dev, res, rscreen) == [dev |-> dev, res |-> res, rscreen |-> rscreen]

MCCommands == {Cmd(d1, AUTO, "unset"), Cmd(d1, "x2", "unset"),
               Cmd(d2, "x", "on"), Cmd(d2, NoRes, "off")}

\* Sections without path, Monitor and Display.
Blank ==
    <<Sec("Layout", <<"l">>, <<E("Screen", <<"s">>)>>),
      Sec("Device", <<"mga1", 0>>, << >>),
      Sec("Screen", <<"s">>, <<E("Device", <<"mga1", 0>>)>>)>>

\* Monitor numbers, depths, and options given twice.
Full ==
    <<Sec("Device", <<"a">>, <<E("Path", <<"mga0">>), E("Path", <<"mga1">>)>>),
      Sec("Monitor", <<"n">>, << >>),
      Sec("Monitor", <<"m">>, <<E("UseModes", <<"SunModes", "m">>),
                                E("UseModes", <<"own">>)>>),
      Sec("Modes", <<"own">>, <<E("Mode", <<"y">>)>>),
      Sec("Screen", <<"mga1", 0>>,
          <<E("Device", <<"a">>), E("Monitor", [num |-> 2, id |-> <<"m">>]),
            E("Monitor", [num |-> 1, id |-> <<"n">>]),
            E("DefaultDepth", <<24>>), Display(1, 24, <<"y">>),
            Display(2, 8, <<"y">>), Display(2, 24, <<"x">>),
            E("RemoteScreen", <<"off">>), E("RemoteScreen", <<"on">>)>>),
      Sec("Modes", <<"SunModes", "m">>, <<E("Mode", <<"x">>)>>)>>

MCFiles == {NoFile, Blank, Full}

\* A section "SunModes" of the user's own, used by a Monitor.
OwnSunModes ==
    {<<Sec("Modes", SunModesId, <<E("Mode", <<"x">>)>>),
       Sec("Monitor", <<"m">>, <<E("UseModes", SunModesId)>>)>>}
=============================================================================
