------------------------------ MODULE PrepProofs ------------------------------
(***************************************************************************)
(* For any list of locations and any number of patches, with and without   *)
(* signatures and repositories: a gmake prep that succeeds has prepared a  *)
(* complete source directory, from an archive that was checked unless it   *)
(* was left behind.                                                        *)
(***************************************************************************)
EXTENDS Prep, TLAPS

Working == {"remove", "unpack", "patch"}

Source == [from : {None, "torn"} \cup Contents, patches : Seq(Nat)]

Types ==
    /\ archive \in {None} \cup Contents
    /\ source \in Source
    /\ pc \in {"idle", "fetch", "signature", "hash"} \cup Working
    /\ loc \in Nat
    /\ result \in {None, "failure", "success"}

Flags == newer \in BOOLEAN /\ left \in BOOLEAN

\* The patches that are in are the first ones.
Complete(n) == source.from \in Contents /\ source.patches = [i \in 1 .. n |-> i]

\* The directory is only looked at after it has been made from the archive.
SourceInv ==
    /\ pc \in Working => archive \in Contents
    /\ pc \in {"signature", "hash"} => archive \in Contents
    /\ pc = "patch" => Len(source.patches) <= Patches /\ Complete(Len(source.patches))
    /\ pc # "idle" => result = None
    /\ result = "success" => Complete(Patches)

\* An archive that the next gmake would not fetch again has the right hash, or
\* is one that was left behind.
ArchiveInv ==
    /\ pc = "idle" /\ newer => archive \in {None, "good"} \/ left
    /\ pc = "fetch" /\ loc > 0 => archive = None \/ left
    /\ pc \in Working => archive = "good" \/ left
    /\ pc = "patch" => source.from = "good" \/ left
    /\ result = "success" => source.from = "good" \/ left

IInv == Types /\ Flags /\ SourceInv /\ ArchiveInv

-----------------------------------------------------------------------------
LEMMA InitInv == Init => IInv
<1> SUFFICES ASSUME Init PROVE IInv
  OBVIOUS
<1>1. Flags
  BY Zenon DEF Init, Flags
<1>2. NoSource \in Source
  BY DEF NoSource, Source, None, Contents
<1>3. Types
  BY <1>2 DEF Init, Types, None, Contents, Working
<1> QED BY <1>1, <1>3 DEF Init, IInv, SourceInv, ArchiveInv, None, Contents, Working

\* userland-fetch does not touch the source directory.
LEMMA FetchStep ==
    ASSUME IInv, FileItself \/ Found \/ NotFound \/ ReadFails \/ Exhausted
    PROVE  IInv'
<1>1. CASE FileItself
  BY <1>1 DEF FileItself, IInv, Types, Flags, SourceInv, ArchiveInv, None, Contents,
     Working, Complete
<1>2. CASE Found
  BY <1>2, Zenon DEF Found, IInv, Types, Flags, SourceInv, ArchiveInv, None, Contents,
     Working, Complete
<1>3. CASE NotFound
  BY <1>3, PrepAssumption DEF NotFound, IInv, Types, Flags, SourceInv, ArchiveInv, None,
     Contents, Working, Complete
<1>4. CASE ReadFails
  <2>1. Flags'
    BY <1>4 DEF ReadFails, IInv, Flags
  <2>2. Types'
    BY <1>4 DEF ReadFails, IInv, Types, Contents
  <2>3. SourceInv'
    BY <1>4 DEF ReadFails, IInv, SourceInv, Contents, Working, Complete
  <2>4. ArchiveInv'
    BY <1>4 DEF ReadFails, IInv, SourceInv, ArchiveInv, Working, None
  <2> QED BY <2>1, <2>2, <2>3, <2>4 DEF IInv
<1>5. CASE Exhausted
  <2>1. pc = "fetch" /\ loc > 0 /\ source' = source
    BY <1>5, PrepAssumption DEF Exhausted, IInv, Types
  <2>2. CASE Fail /\ UNCHANGED <<archive, newer, left>>
    BY <2>1, <2>2 DEF Fail, IInv, Types, Flags, SourceInv, ArchiveInv, None, Contents,
       Working, Complete
  <2>3. CASE /\ archive' \in Contents /\ newer' = TRUE /\ left' = FALSE /\ loc' = 0
             /\ UNCHANGED <<pc, result>>
    <3>1. Flags'
      BY <2>3, Zenon DEF Flags
    <3>2. Types' /\ SourceInv' /\ ArchiveInv'
      BY <2>1, <2>3 DEF IInv, Types, SourceInv, ArchiveInv, None, Contents, Working, Complete
    <3> QED BY <3>1, <3>2 DEF IInv
  <2> QED BY <1>5, <2>2, <2>3, Zenon DEF Exhausted
<1> QED BY <1>1, <1>2, <1>3, <1>4, <1>5

\* Nor does the validation, and it goes on only with the right hash.
LEMMA CheckStep ==
    ASSUME IInv,
           \/ SignatureSkipped \/ SignatureValid \/ SignatureBad \/ SignatureUnavailable
           \/ HashBad \/ HashUnreadable \/ HashGood
    PROVE  IInv'
<1>1. CASE SignatureSkipped
  BY <1>1 DEF SignatureSkipped, IInv, Types, Flags, SourceInv, ArchiveInv, None, Contents,
     Working, Complete
<1>2. CASE SignatureValid
  BY <1>2 DEF SignatureValid, IInv, Types, Flags, SourceInv, ArchiveInv, None, Contents,
     Working, Complete
<1>3. CASE SignatureBad
  <2>1. archive' \in {None} \cup Contents /\ left' \in BOOLEAN
    BY <1>3, Zenon DEF SignatureBad, Discard, IInv, Types, Flags, SourceInv, Working
  <2> QED
    BY <1>3, <2>1 DEF SignatureBad, Discard, Fail, IInv, Types, Flags, SourceInv, ArchiveInv,
       None, Contents, Working, Complete
<1>4. CASE SignatureUnavailable
  BY <1>4 DEF SignatureUnavailable, Fail, IInv, Types, Flags, SourceInv, ArchiveInv, None,
     Contents, Working, Complete
<1>5. CASE HashBad
  <2>1. archive' \in {None} \cup Contents /\ left' \in BOOLEAN
    BY <1>5, Zenon DEF HashBad, Discard, IInv, Types, Flags, SourceInv, Working
  <2> QED
    BY <1>5, <2>1 DEF HashBad, Discard, Fail, IInv, Types, Flags, SourceInv, ArchiveInv,
       None, Contents, Working, Complete
<1>6. CASE HashUnreadable
  BY <1>6 DEF HashUnreadable, Fail, IInv, Types, Flags, SourceInv, ArchiveInv, None,
     Contents, Working, Complete
<1>7. CASE HashGood
  BY <1>7, Zenon DEF HashGood, IInv, Types, Flags, SourceInv, ArchiveInv, None, Contents,
     Working, Complete
<1> QED BY <1>1, <1>2, <1>3, <1>4, <1>5, <1>6, <1>7

\* A patch goes in after those that are in.
LEMMA NextPatch ==
    ASSUME NEW n \in Nat, NEW s, s = [i \in 1 .. n |-> i]
    PROVE  /\ s \in Seq(Nat) /\ Len(s) = n
           /\ Append(s, Len(s) + 1) = [i \in 1 .. n + 1 |-> i]
           /\ Append(s, Len(s) + 1) \in Seq(Nat)
           /\ Len(Append(s, Len(s) + 1)) = n + 1
  OBVIOUS

\* The rules that work on the directory.
LEMMA WorkStep ==
    ASSUME IInv,
           RemoveSource \/ Unpack \/ UnpackFails \/ Patch \/ PatchFails \/ Prepared \/ KillPrep
    PROVE  IInv'
<1>1. NoSource \in Source /\ Torn \in Source
  BY DEF NoSource, Torn, Source, None, Contents
<1>2. CASE RemoveSource
  BY <1>1, <1>2 DEF RemoveSource, At, IInv, Types, Flags, SourceInv, ArchiveInv, None,
     Contents, Working
<1>3. CASE Unpack
  <2> DEFINE new == [from |-> archive, patches |-> << >>]
  <2>1. /\ new \in Source /\ new.from = archive /\ new.patches = << >>
    BY <1>3 DEF Unpack, At, IInv, SourceInv, Source, Working
  <2>2. Len(<< >>) = 0 /\ << >> = [i \in 1 .. 0 |-> i]
    OBVIOUS
  <2> QED
    BY <1>3, <2>1, <2>2, PrepAssumption DEF Unpack, At, IInv, Types, Flags, SourceInv,
       ArchiveInv, None, Contents, Working, Complete
<1>4. CASE UnpackFails
  BY <1>4 DEF UnpackFails, Fail, IInv, Types, Flags, SourceInv, ArchiveInv, None, Contents,
     Working
<1>5. CASE Patch
  <2> DEFINE n == Len(source.patches)
  <2>1. /\ n \in Nat /\ n < Patches /\ source.patches = [i \in 1 .. n |-> i]
        /\ source.from \in Contents
    BY <1>5 DEF Patch, IInv, Types, Source, SourceInv, Complete
  <2>2. /\ source'.from = source.from /\ source'.patches = [i \in 1 .. n + 1 |-> i]
        /\ source' \in Source /\ Len(source'.patches) = n + 1
    BY <1>5, <2>1, NextPatch, Zenon DEF Patch, IInv, Types, Source
  <2> HIDE DEF n
  <2> QED
    BY <1>5, <2>1, <2>2, PrepAssumption DEF Patch, IInv, Types, Flags, SourceInv, ArchiveInv,
       None, Contents, Working, Complete
<1>6. CASE PatchFails
  BY <1>1, <1>6 DEF PatchFails, Fail, IInv, Types, Flags, SourceInv, ArchiveInv, None,
     Contents, Working
<1>7. CASE Prepared
  BY <1>7 DEF Prepared, At, IInv, Types, Flags, SourceInv, ArchiveInv, None, Contents,
     Working, Complete
<1>8. CASE KillPrep
  BY <1>1, <1>8 DEF KillPrep, Fail, IInv, Types, Flags, SourceInv, ArchiveInv, None,
     Contents, Working
<1> QED BY <1>2, <1>3, <1>4, <1>5, <1>6, <1>7, <1>8

LEMMA StepInv == IInv /\ [Next]_vars => IInv'
<1> SUFFICES ASSUME IInv, [Next]_vars PROVE IInv'
  OBVIOUS
<1>1. CASE StartPrep
  BY <1>1 DEF StartPrep, IInv, Types, Flags, SourceInv, ArchiveInv, None, Contents, Working
<1>2. CASE EditMakefile
  BY <1>2, Zenon
     DEF EditMakefile, IInv, Types, Flags, SourceInv, ArchiveInv, None, Contents,
     Working
<1>3. CASE Heal
  BY <1>3 DEF Heal, IInv, Types, Flags, SourceInv, ArchiveInv, Complete
<1>4. CASE KillFetch
  <2>1. archive' \in {None} \cup Contents /\ newer' \in BOOLEAN /\ left' \in BOOLEAN
    BY <1>4, Zenon DEF KillFetch, IInv, Types, Flags, Contents
  <2> QED
    BY <1>4, <2>1 DEF KillFetch, Fail, IInv, Types, Flags, SourceInv, ArchiveInv, None,
       Contents, Working
<1>5. CASE UNCHANGED vars
  BY <1>5 DEF vars, IInv, Types, Flags, SourceInv, ArchiveInv, Complete
<1> QED
  BY <1>1, <1>2, <1>3, <1>4, <1>5, FetchStep, CheckStep, WorkStep DEF Next, System

\* SourceComplete for any number of patches: whatever is left in the source
\* directory, a gmake prep that succeeds has unpacked it and patched it completely.
THEOREM SourceCorrect == Spec => []SourceComplete
<1>1. IInv => SourceComplete
  BY DEF IInv, SourceInv, Complete, SourceComplete
<1> QED BY InitInv, StepInv, <1>1, PTL DEF Spec

\* DownloadVerifies for any list of locations: only an archive that was left
\* behind can be unpacked with another hash than that of the Makefile.
THEOREM DownloadCorrect == Spec => []DownloadVerifies
<1>1. IInv => DownloadVerifies
  BY DEF IInv, ArchiveInv, DownloadVerifies
<1> QED BY InitInv, StepInv, <1>1, PTL DEF Spec

=============================================================================
