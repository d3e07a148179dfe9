# TLA+ models of Solaris Userland

Solaris Userland is a consolidation: most of the repository is makefiles,
manifests and patches for programs maintained elsewhere. What it has of its own
is a build system and a set of C programs and modules under `components/`. The
models cover those of its own parts whose state is hard to test: windows and
tables that live long, protocols with two ends, timers, callbacks that come in
any order, code that runs while a program exits, files that several processes
replace, and recipes that are killed half way.

## The parts of the system

| Part | Sources | Model |
|---|---|---|
| GSS sequence window | `components/krb5/Solaris/util_ordering.c` | `GssOrdering`, `GssWindow`, `GssOrderingProofs` |
| Entity MIB tables | `components/net-snmp/sun/agent/modules/entityMib/ent*Table.c` | `EntTable`, `EntityMib` |
| Entity MIB change time and trap | `.../entityMib/entLastChangeTime.c` | `EntLastChange`, `EntLastChangeProofs` |
| Interactive-class extension | `components/x11/xserver/xorg/sun-src/IA/interactive.c` | `Interactive`, `MCInteractive` |
| GSSAPI key exchange | `components/openssh/sources/kexgssc.c`, `kexgsss.c` | `KexGss`, `MCKexGss`, `KexGssProofs` |
| Exit handlers of C++ objects | `components/llvm-21/cxa_finalize/cxa_finalize.c` (and llvm-13) | `CxaFinalize`, `CxaFinalizeProofs` |
| Source preparation (fetch, unpack, patch, clone) | `tools/userland-fetch`, `tools/userland-unpack`, `make-rules/prep*.mk` | `Prep`, `MCPrep`, `PrepProofs` |
| Xorg configuration editor | `components/x11/app/gfx-utils/sun-src/fbconf_xorg` | `FbcConfig`, `FbConf`, `MCFbConf` |
| Display login hand-over | `components/x11/xserver/xorg/sun-src/os/dtlogin.c` | `Dtlogin`, `MCDtlogin`, `DtloginProofs` |
| Auditing and privileges of an FTP session | `components/proftpd/mod_solaris_audit.c`, `mod_solaris_priv.c` | `FtpSession`, `MCFtpSession`, `FtpSessionProofs` |
| Everything else | | see "Not modelled" |

`PROJECT.json` has the same list with a reason for each part that is left out,
the source lines of every definition, the hazards with the properties that
watch them, and for every property a planted bug that breaks it. Definitions
named `Bug_...` are those planted bugs; nothing else uses them.

Most parts are separate programs. Where they do interact:

* The entity tables call `configChanged`. `EntityMib` records whether a call did
  so (`stamped`), and `EntLastChange` takes any sequence of such calls.
* The two FTP modules share a session: the one lowers the privileges that the
  other needs to put its records. `FtpSession` composes them.
* `dtlogin.c` and `interactive.c` share the ids of the X server: `SetPriority`
  takes group 0 for a moment, which needs the saved id that the login left.
  `Dtlogin` has that step of `interactive.c` as an action.

## The modules

### GssOrdering, GssWindow

The queue is the C structure field by field: `start`, `length`, `firstnum`, the
slots `elem`, the two flags. Sequence numbers are reduced modulo `2 * Half`.
A call of `g_order_check` is a `Call`, a step for rules 1 to 3, and one step
per turn of the loop of rules 4 and 5; `queue_insert` moves elements between
slots exactly as the code does. Externalising and internalising a context is an
action of its own. Tokens have a true, unbounded number that the code never
sees; it is what the properties speak of.

`GssWindow` is the abstract specification: a set of the highest numbers taken,
without width, slots or loop. `ImplementsWindow` states that the queue
implements it, with `Window` (the true numbers of the elements) as mapping.

* `gss_half`: a number that arrives, the elements and the number expected next
  lie less than half the range apart. Only then is `after` an order, and
  `RepInv`, `NoReplay` and the refinement hold. `NeverFails` is the comment "this
  should never happen"; it is proved below for numbers without that restriction.

Bounds: 3 slots for 20, and 12 numbers for 2^32 or 2^64, with the first
number next to the end, so that tokens wrap around, the queue fills, and
elements are evicted by insertions at its end and in its middle. The value
`memset` leaves in unused slots is one of the numbers.

Fairness: a call that has begun takes its steps, and an exported context is
imported again (`WF` of `System`). Neither waits for anything.

### EntTable, EntityMib

`EntTable` is the linked list that `entPhysicalTable.c` and
`entLogicalTable.c` both implement: entries in list order, the tail pointer
(which can point to an entry that was freed: `Outside`), the size. Stale
entries have a negated index. `EntityMib` adds the three mapping tables, rows
with slots in which a negative number marks a deleted pair, and has one action
per API function that changes a table. The agent has one thread, so a call is a
step. `isRecursiveChild` is a bounded search; running in a circle gives `Crash`.
Each function's return code is modelled, its order of tests included.

* `entity_contains`: physical entities and containment, for callers that give
  the containers with `addPhysicalContainsTableEntry` (`Parents = {0}`), where
  no entry is added to a table that has more than `LARGE_TABLE`. 3 indexes are
  enough for a child with two parents, chains, refused cycles and index reuse.
* `entity_mapping`: logical entities, mappings and aliases.
* `entity_container`: a disagreement with the documentation; see below.

The SNMP iterators and request handlers read the tables and are registered read
only; they are not modelled, nor is running out of memory inside a call.

### EntLastChange

Times are relative to the present; `alarms[t]` counts registered alarms with
`t` ticks to go. `alarms[0]` are due and wait for the main loop, which may be
late: at most `MaxLate` of them pile up. The marker that is read after a trap
may or may not be in the tick of the change.

* `entity_trap`: `SuppressedIsCovered`, and the liveness properties
  `EveryChangeReported` and `TrapsCease`.

Fairness: the clock goes on, and the agent's loop runs alarms that are due.

### Interactive

The record a client has (`priv->process`, `priv->wmgr`), `LastPids`, the
scheduling class and mode of processes as the kernel has them, and the timer
that marks the extension as initialised. One action per request handler or
callback, with the wrapped requests that change focus or show a window manager;
processes end at any time. `SetPriority` stops at the first process that is
gone, and at a call of `priocntl` that fails, as the code does: the processes
before it are changed, those after it and the flag `boosted` are not.

* `ia_apart`: two clients of different processes, one of them with two. The
  window manager, focus and process lists in every order, and server resets.
  `FocusIsBoosted` says that a focus group is marked as boosted and that its
  processes are. It leaves out a list on which a call of `SetPriority` has failed
  (`failed`), since `ChangePriority` does not look at the result.

Two connections of one process are outside `FocusIsBoosted` and `KeepsBoost`:
flags belong to connections and boosts to processes, so the second connection
of a window manager can put the manager's pid into `LastPids`.
`ProcIAGetProcessInfo` is not modelled: it moves the pointer of the list it
reads, and what the list holds afterwards is undefined. No fairness is assumed.

### KexGss

Both ends of both variants. A mechanism needs up to four tokens, grants or does
not grant each flag, and may fail at any call; an end may fail elsewhere. Either
end also meets a peer of another make that sends any packet in any order.
`Rekey` starts a second exchange. Keys and hashes are the values they depend on.

* `kex_pass`: `KeysAreProven` (no keys without an established context and a MIC
  over what this side saw), and between the two ends `ContextsAgree` (the contexts
  kept for user authentication are those of one exchange, also while a rekey is
  over at one end only), `ExchangeEnds` and `ExchangeSucceeds`.

Deadlock is not checked: a connection with keys may stay as it is. Fairness: an
end that can go on does; the connection is TCP, so packets arrive in order or
the end of the connection is noticed.

### CxaFinalize

`mem` is the blocks the list has been in, so that a pointer into an old block
stays what it is when the list moves. The loops of `__cxa_atexit_callback` and
`__cxa_finalize` take one step per element, and while a destructor runs it may
register others. `locked` is the mutex between steps. Every registration may meet
a failure of `malloc` or `atexit`. Three history variables tell the cases apart:
`ran`, the destructors run; `moved`, the list was copied to a larger block while
one ran; `lost`, a failure has dropped the list.

* `cxa`: an executable and a shared object; a first block of 2 elements and 5
  registrations, so that the list grows before the exit and under both loops.
  `RunOnce` and `ReverseOrder` hold until the list is moved under a loop,
  `InBounds` until it is moved or dropped, `AllRun` until it is dropped, and
  `ExitFinishes` would fail if a destructor were called with the mutex held.

After a failure the list has size 0, and the next registration doubles that: the
block is then smaller than what is written to it, which `lost` leaves out of
`InBounds`. A loop that is to read an element that was never written, or one of
a block that was freed, gets no further in the model. Threads are taken to have
stopped registering when the process exits; the code reads the list in the
callback without the mutex. Deadlock is not checked: the process ends. Fairness:
a process that exits goes on, and its destructors return.

### Prep

`gmake prep` for one component. A recipe line, or a phase of `userland-fetch`, is
a step, and anything may be killed between two steps. On disk are the archive,
whether it is newer than the Makefile, and the source directory with the patches
it has; a directory in which something was broken off is `Torn`. The contents of
an archive are what the Makefile's hash says or not. Mirrors, signatures, the
clone of a repository and patches may each fail in the ways the code tells apart,
and the archive that a failed check is to remove may stay (`Discard`), until `Heal`.

* `prep`: one trusted and one untrusted location, two patches, components with
  and without signature and repository. `SourceComplete`: success means all
  patches, each once. `DownloadVerifies`: what is unpacked has been verified.
  `Recovers`: when faults are over, repeating `gmake prep` succeeds.

`DownloadVerifies` and `Recovers` except an archive that an earlier `gmake` left
behind without having checked it to the end (`left`); see below. Fairness: `gmake`
goes on, and its user repeats it.

### FbcConfig, FbConf

`FbcConfig` is the configuration in memory and what the functions of `fbc/` and
`xf86/` do with it: reading, validating, finding the active sections or inserting
them, `-res`, options, writing. The internal and the external representation are
one sequence of sections whose entries carry the status of their line, so that an
entry without a line, or a line that is deleted under an entry, can be told.
`FbConf` is runs of the program on one file: read, edit, create the temporary
file, write, rename, any of which can fail, or be killed, at any point. The
program takes no lock, so runs interleave.

* `fbconf`: three runs for two devices with four command lines, on no file, on
  one whose sections lack what is needed, and on one with monitor numbers, depths
  and repeated options. `ConfigValid`: the file can always be read again.
  `ModesDefined`: the mode that `-res` has set is one its Monitor has, although
  each run takes out what an earlier one wrote. `UpdateKept`: what a run reported
  as done stays, unless a later run was for the same device or had read the file
  before. `ForeignKept`: sections of other devices stay as and where they were.

The second run may find no memory (`Short`). Without a Device or Screen section it
fails; without a Display or the element of a mode it goes on, installs what it has
and reports success (`lacking`): `ModesDefined` leaves out the Screen it was for,
`UpdateKept` what it reports.

Three runs are needed for a run to meet the sections of two others, of which one
was for another device. Deadlock is not checked: the runs end. No fairness.

### Dtlogin

The ids of the server are real, effective and saved ones, and the system calls
(external) change them as the manual says, failing silently as the code ignores
errors. The pipe is a sequence of key and value pairs and packet ends, which
arrives and is read in pieces of any size; the buffer grows if it can. Screens
have `DtloginCloseScreen` in front of `CloseScreen` or, for lack of memory, not.
The display manager, the main loop and `AbortServer` are external. The display
manager is taken to write a record when the server has acted on the one before:
a login screen and the session that follows it are not started together.

* `dtlogin`: three records, one of root and one of the login screen's user, a
  buffer of 4, at most 6 groups, two screens. `RootRegainable` is the comment on
  the gid dance; `LoginApplied` that records are not torn by pipe or buffer, and
  that the groups of the first one take the place of the server's; `CloseRestores`
  that closing down undoes a login, with the exceptions its comment names.

The buffer holds fewer pairs than a record has, so that it fills and grows.
Deadlock is not checked: a server that has aborted is gone. No fairness.

### FtpSession

A command is the `pre` handler, the command, and the `post` or `post_err` handler;
between them other processes create and remove files, and any allocation may
fail. A path is the argument or what `realpath` made of it. Privileges are the
sets the code manipulates. The order in which the two modules are called at the
login is left open. Lowering the privileges may end for lack of memory before
anything is done, or with only the inheritable set lowered (`HalfLowered`). The
server is external, with three assumptions: `PASS` is accepted until one succeeds
and refused from then on; `RNTO` succeeds only right after a successful `RNFR`;
`realpath` leaves the argument in its buffer when it fails, which the comment at
`mod_solaris_audit.c:949` relies on.

* `ftp`: two files and three sets of directives. `CommandRecorded`: every command
  leaves exactly one record with its outcome. `RenameAccounted`: an `RNFR` ends in
  a record that names its path. `LogoutRecorded`: the audit session of a login ends
  with the record of the logout, whatever privileges the login has left, or gives
  way to a refused `PASS`, which is recorded.

Two files are enough for a rename and for two renames to be mixed up. The
exceptions are lack of memory (`fault`, `HalfLowered`), a file that another
process removes after the command and before the handler looks at it again
(`raced`), and an `RNTO` that does not follow its `RNFR`: the buffer may then have
the path of the command between. Deadlock is not checked: the session ends. No
fairness.

## Where code and documentation differ

One run is kept for such a difference, `entity_container`: a container given at
allocation is not reset when the container is deleted or becomes stale.
`findings` in `PROJECT.json` quotes the lines.

The others can be seen with the same modules, some of them under other constants.
The passing runs check what does hold, with the exception named.

| Property | Constants | What happens |
|---|---|---|
| `AllocatedIsFound` of `EntityMib` | those of `entity_container` with `LARGE_TABLE = 1`, `Parents = {0}` | Past `LARGE_TABLE`, deleting the last entry leaves the tail pointer on freed memory, and the next entry is lost (`entPhysicalTable.c:885`). |
| `ProposalIsSigned` of `KexGss` | `Proposals <- AnyProposals` | The server signs the group size after it has limited it, while the comment at `kexgsss.c:320` says "store client proposal to provide valid signature". |
| `BoostedIsActive` of `Interactive` | those of `ia_apart` | `SetPriority` takes the boost of the first processes of a group, meets one that has ended and returns; the flag `boosted` stays set, and these processes are not boosted when the focus comes back (`interactive.c:577`), while the comment at `interactive.c:512` says "Set the priority boost if it isn't already active". |
| `CalledOnce` of `CxaFinalize` | those of `cxa` | A full list moves under the exit callback, which goes on in the old block; what it marks there `__do_cleanup` runs once more (`cxa_finalize.c:177`), while the Itanium C++ ABI, which the comment at `cxa_finalize.c:24` names, has a destructor called once. |
| `GroupsSwitched` of `Dtlogin` | those of `dtlogin` | `groupid_cnt` is not set back between records, and the groups of one login stay with the next (`dtlogin.c:465`), while the comment at `dtlogin.c:33` says that the server "needs to change over to the user's credentials (UID, GID, GID_LIST)". |
| `GroupsRestored` of `Dtlogin` | those of `dtlogin` | The count of the server's own groups is not kept, and a server that closes down after a login has none (`dtlogin.c:142`), while the comment at `dtlogin.c:110` says "user to switch back to in CloseDown". |
| `SessionLeftForLogout` of `FtpSession` | those of `ftp` | A `PASS` that is refused after the login ends the audit session of the login, and nothing is recorded from then on (`mod_solaris_audit.c:110`), while the comment at `mod_solaris_audit.c:180` says "Don't end adt session - leave for when logging out." |
| `DownloadAlwaysVerifies` of `Prep` | those of `prep` | An archive whose signature could not be fetched, or whose download broke off, stays and is taken by the next `gmake` (`userland-fetch:186`, `:477`), while `doc/makefile-targets.txt:33` says "It will download all verify (hash and signature) sources." |
| `ForeignKept` of `FbConf` | `Files <- OwnSunModes`, `Runs = {1}`, `Short = {}` | A Modes section of the user's own called "SunModes" is deleted as it is read (`xf86/Monitor.c:826`), while `fbc/fbc_line_er.c:42` says that the external representation "is used to maintain the order and formatting of the lines from the input file". |

## What is proved

For every value of the constants, with TLAPS:

* `GssOrderingProofs`. `TypeCorrect` (`TypeOK`) and `NeverFailsCorrect`
  (`NeverFails`), for every queue length, width and sequence of numbers.
  `NeverFails` is not inductive. The strengthening is `ScanInv`: the number is
  at or after the element the loop looks at and before the newest one. It rests
  on `AfterTournament`, that `after` decides any two different numbers one way
  round, also at exactly half the range, and on `BeforeNewest`, that a number
  that passes rules 1 to 3 is before the newest element. Neither needs the
  elements to be sorted, which is why the result holds for any input.
  `RepCorrect` (`RepInv`), `NoReplayCorrect` (`NoReplay`) and
  `WindowImplemented`, the safety part of `ImplementsWindow` (initial states map
  to initial states, every step to a step of `GssWindow` or a stutter), for
  `HalfRangeSpec`: every queue length and width, with numbers less than half the
  range apart. The invariant `HInv` adds `Order` (the true numbers of the
  elements ascend and lie within half the range, so that `after` on reduced
  numbers is their order), `InCall` (the number of a call is a true one, reduced) and
  `Seen` (a number that was taken is in the window or below all of it).
* `EntLastChangeProofs`. `TypeCorrect` and `SuppressedCovered`
  (`SuppressedIsCovered`), for every throttle period. The strengthening
  `AlarmInv` says that the alarms not yet due are exactly one, at the end of the
  running throttle period.
* `KexGssProofs`. `KeysProven` (`KeysAreProven`) and `ContextsCorrect`
  (`ContextsAgree`), for every mechanism, number of tokens, exchanges and stray
  messages. `KeysProven` needs `ClientInv` (a client past its loop has an
  established context, and the MIC came with the `COMPLETE`), `ServerInv`, and
  `WireInv`: between the two ends, a `COMPLETE` under way is the only one and has
  the hash of the server's keys. `ContextsCorrect` needs `KeptInv`: a client
  without a context is in the first exchange, and a server that is ahead has kept
  the context of this one.
* `CxaFinalizeProofs`. `TypeCorrect`, `OnceCorrect` (`RunOnce`), `BoundsCorrect`
  (`InBounds`), `ReverseCorrect` (`ReverseOrder`) and `AllRunCorrect` (`AllRun`),
  for every chunk size and number of handlers, with failures at any registration
  and a list that moves or is dropped at any time; the only assumption is that
  the chunk size is a positive number. What holds until the list is moved or
  dropped is in the invariant as such: `Inv` has `ListInv` (a list that
  is there is not empty and holds distinct handlers) always, `RoomInv` (it has the
  room it says) unless `lost`, `OnceInv` (what has run is marked as done) unless
  `moved`, and `WalkInv` (a loop is at an element of the list, or at its end)
  unless either. `ReverseCorrect` adds `OrderInv`: what the callback has yet to
  reach was registered before all that it has run. `AllRunCorrect` adds `AllInv`:
  what a loop has passed has run. It holds also in the old block of a list that
  has moved, because handlers keep their places when the list is copied.
* `PrepProofs`. `SourceCorrect` (`SourceComplete`) and `DownloadCorrect`
  (`DownloadVerifies`), for any locations, number of patches and components. The
  invariant says what the source directory can be at each point of the recipe
  (`SourceInv`), and that an archive past the hash check is good, or was left
  behind (`ArchiveInv`): that every `gmake` starts from the removal is what makes
  torn directories harmless.
* `DtloginProofs`. `RootCorrect` (`RootRegainable`), for any records, buffer and
  screens: the saved ids stay 0, and the effective group is 0 or the real one.
  `CloseCorrect`, the part of `CloseRestores` about ids and wrappers: a server that
  is not root has all its screens wrapped, or noted one that could not be.
* `FtpSessionProofs`. `CommandsRecorded` (`CommandRecorded`), `LogoutsRecorded`
  (`LogoutRecorded`) and `RenamesAccounted` (`RenameAccounted`), for any files,
  directives and errors; the only assumption is that `NULL` is no file, path or
  event. The invariant `IInv` adds what holds inside a command, where
  `CommandRecorded` says nothing: `PROC_AUDIT` is never lost, unless the lowering
  broke off half way, and an open audit session has its exit handler (`CanAudit`); the
  event is there unless memory was short, and the trail holds at most the record
  of an earlier `RNFR` (`EventInv`); the file is there for the `post` handler
  unless another process removed it (`FileInv`). Renames need `RenameInv` as well:
  what the source buffer names, from the `RNFR` to the record.

The constants' assumptions are named in the modules that declare them, and hold
in every run.

Only model-checked: all liveness properties and the fairness behind them, also
those of `GssWindow` in `ImplementsWindow`, which are out of the prover's reach;
the properties of `EntityMib`, `Interactive` and `FbConf`, which rest on what
recursive or folded definitions compute; `LoginApplied`, and the home directory
and the groups in `CloseRestores`.

## Not modelled

* Of the parts that are modelled: the SNMP iterators and request handlers, which
  only read; `ProcIAGetProcessInfo`, after which the list it read is undefined;
  several archives of one component, the rules for Mercurial and Subversion; the
  grammar of `xorg.conf` below entries, gamma tables and default depths, which the
  devices that are shipped do not offer, EDID data, and the switching of the
  effective user; that `fbc_write_config` does not look at the results of `fprintf`
  and `fclose`, so that a full disk can truncate the file it installs; the project
  and the environment of a user who logs in; the fields of audit records besides
  outcome, error and paths.
* `full-build` (a build, its watcher and `--stop` share a file with the number of
  the task) and `repeat_cmd` (a loop around one command).
* User interfaces (`AccessX`, `dsession`, `xlock`, `fbconsole`): most of the code
  lays out widgets or draws, and what it keeps is the toolkit's or the server's.
* Audit records of `openssh` and `krb5`, SMF configuration, kstat and SNMP
  statistics, X protocol stubs, cipher providers, the InfiniBand layer: formatting,
  parsing, pure I/O or single library calls, without state between calls.
* Tables and generated code (character set conversions, EDID test data, C++ library
  configurations, cached scripts): data.
* Makefiles, manifests and patches: declarative; what they do is what the tools
  and the patched programs do.

So the models cover a small share of the lines and most of the repository's own
long-lived or concurrent state.
