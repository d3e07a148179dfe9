-------------------------------- MODULE Prep --------------------------------
(***************************************************************************)
(* gmake prep for one component: make-rules/prep-download.mk, prep-git.mk, *)
(* prep-unpack.mk, prep-patch.mk and prep.mk with tools/userland-fetch and *)
(* tools/userland-unpack.                                                  *)
(*                                                                         *)
(* A recipe line, or a phase of userland-fetch, is a step; between two     *)
(* steps anything may be killed.  What is on disk stays for the next       *)
(* gmake.  The stamps are inside the source directory, and the unpack rule *)
(* has the phony target download as a prerequisite, so that every gmake    *)
(* prep removes the directory and goes through unpack and all patches      *)
(* again; the archive alone is taken as it is if it is newer than the      *)
(* Makefile.                                                               *)
(***************************************************************************)
EXTENDS Naturals, Sequences

CONSTANTS Locations,   \* where to search: a sequence of "trusted", "untrusted"
          Patches,     \* number of patches
          Components   \* kinds of components: is COMPONENT_SIG_URL set (sig), is
                       \* GIT_REPO set, to make the archive from a clone (scm)

ASSUME PrepAssumption ==
    /\ Locations \in Seq({"trusted", "untrusted"}) \ {<< >>}
    /\ Patches \in Nat
    /\ Components \subseteq [sig : BOOLEAN, scm : BOOLEAN]

VARIABLES comp,        \* the component
          archive,     \* contents of the archive: what the Makefile's hash says or not
          newer,       \* it is newer than the Makefile
          source,      \* the source directory: what was unpacked, and the patches
          pc,          \* where gmake is
          loc,         \* location userland-fetch is at; 0 is the file itself
          trusted,     \* the archive came from a trusted location
          result,      \* how the last gmake ended
          healthy,     \* nothing fails any more
          left         \* the archive was left behind unchecked (history)

vars == <<comp, archive, newer, source, pc, loc, trusted, result, healthy, left>>

None == "none"
Contents == {"good", "bad"}

\* A source directory: the archive it is from, and the patches it has.  A torn
\* one is where a removal, an unpacking or a patch was broken off.
NoSource == [from |-> None, patches |-> << >>]
Torn == [from |-> "torn", patches |-> << >>]

Init ==
    /\ comp \in Components
    /\ archive = None /\ newer = FALSE
    /\ source = NoSource
    /\ pc = "idle" /\ loc = 0 /\ trusted = FALSE
    /\ result = None
    /\ healthy = FALSE /\ left = FALSE

Fail ==
    /\ pc' = "idle" /\ result' = "failure" /\ loc' = 0

At(p, q) == pc = p /\ pc' = q

\* Planted bug: a source directory that is there is taken as unpacked.
Bug_StartPrep ==
    /\ pc = "idle"
    /\ pc' = IF archive = None \/ ~newer THEN "fetch"
             ELSE IF source # NoSource THEN "patch" ELSE "remove"
    /\ result' = None
    /\ loc' = 0
    /\ UNCHANGED <<comp, archive, newer, source, trusted, healthy, left>>

\* gmake prep: the archive is fetched if it is not there or not newer than the
\* Makefile.
StartPrep ==
    /\ pc = "idle"
    /\ pc' = IF archive = None \/ ~newer THEN "fetch" ELSE "remove"
    /\ result' = None
    /\ loc' = 0
    /\ UNCHANGED <<comp, archive, newer, source, trusted, healthy, left>>

\* The Makefile is edited; the hash may be that of another archive then.
EditMakefile ==
    /\ pc = "idle" /\ ~healthy
    /\ newer' = FALSE
    /\ archive' \in {archive} \cup (IF archive = "good" THEN {"bad"} ELSE {})
    /\ result' = None
    /\ UNCHANGED <<comp, source, pc, loc, trusted, healthy, left>>

\* The mirrors are in order, and nobody interferes any more.
Heal ==
    /\ ~healthy /\ healthy' = TRUE
    /\ UNCHANGED <<comp, archive, newer, source, pc, loc, trusted, result, left>>

-----------------------------------------------------------------------------
\* tools/userland-fetch.

\* get_download_paths: the file itself comes first, and is trusted.
FileItself ==
    /\ pc = "fetch" /\ loc = 0
    /\ IF archive = None
       THEN loc' = 1 /\ UNCHANGED <<pc, trusted>>
       ELSE pc' = "signature" /\ trusted' = TRUE /\ UNCHANGED loc
    /\ UNCHANGED <<comp, archive, newer, source, result, healthy, left>>

\* download_from_paths: a location has something under the archive's name.  A
\* copied file keeps its time; one that is downloaded is new.
Found ==
    /\ pc = "fetch" /\ loc \in DOMAIN Locations
    /\ \E c \in Contents : (healthy => c = "good") /\ archive' = c
    /\ trusted' = (Locations[loc] = "trusted")
    /\ newer' \in BOOLEAN
    /\ pc' = "signature"
    /\ left' = FALSE
    /\ UNCHANGED <<comp, source, loc, result, healthy>>

\* download_from_paths: a location has no such file or cannot be reached.
NotFound ==
    /\ pc = "fetch" /\ loc \in DOMAIN Locations
    /\ healthy => loc # Len(Locations)
    /\ loc' = loc + 1
    /\ UNCHANGED <<comp, archive, newer, source, pc, trusted, result, healthy, left>>

\* download: the connection breaks when the file has been opened for writing.
ReadFails ==
    /\ ~healthy
    /\ pc = "fetch" /\ loc \in DOMAIN Locations
    /\ archive' = "bad" /\ newer' = TRUE
    /\ loc' = loc + 1
    /\ left' = TRUE
    /\ UNCHANGED <<comp, source, pc, trusted, result, healthy>>

\* main: no location is left, exit 100.  For a repository, git clone and git
\* archive make the file, and userland-fetch is called again to check it.
Exhausted ==
    /\ pc = "fetch" /\ loc > Len(Locations)
    /\ IF comp.scm
       THEN \/ /\ \E c \in Contents : (healthy => c = "good") /\ archive' = c
               /\ newer' = TRUE /\ left' = FALSE
               /\ loc' = 0
               /\ UNCHANGED <<pc, result>>
            \/ ~healthy /\ Fail /\ UNCHANGED <<archive, newer, left>>
       ELSE Fail /\ UNCHANGED <<archive, newer, left>>
    /\ UNCHANGED <<comp, source, trusted, healthy>>

\* signature_validation: without a signature there is nothing to do; it has to
\* be fetched for a trusted location too, and is not looked at then.
SignatureSkipped ==
    /\ pc = "signature"
    /\ ~comp.sig \/ trusted
    /\ pc' = "hash"
    /\ UNCHANGED <<comp, archive, newer, source, loc, trusted, result, healthy, left>>

SignatureValid ==
    /\ pc = "signature"
    /\ comp.sig /\ ~trusted /\ archive = "good"
    /\ pc' = "hash"
    /\ UNCHANGED <<comp, archive, newer, source, loc, trusted, result, healthy, left>>

\* An archive that is not the right one is removed; if that fails it is said,
\* and the file stays.
Discard ==
    \/ archive' = None /\ left' = FALSE
    \/ ~healthy /\ UNCHANGED archive /\ left' = TRUE

\* signature_validation: gpg2 does not confirm the signature, or has no key.
SignatureBad ==
    /\ pc = "signature"
    /\ comp.sig /\ ~trusted /\ (healthy => archive # "good")
    /\ Discard
    /\ Fail
    /\ UNCHANGED <<comp, newer, source, trusted, healthy>>

\* signature_validation: the public key cannot be fetched, which is not caught,
\* or the signature cannot; the archive is not removed.
SignatureUnavailable ==
    /\ pc = "signature" /\ comp.sig /\ ~healthy
    /\ Fail
    /\ left' = TRUE
    /\ UNCHANGED <<comp, archive, newer, source, trusted, healthy>>

\* Planted bug: an archive with another hash is not removed.
Bug_HashBad ==
    /\ pc = "hash" /\ archive # "good"
    /\ Fail
    /\ UNCHANGED <<comp, archive, newer, source, trusted, healthy, left>>

\* hash_validation: neither the hash nor that of the payload is the expected one.
HashBad ==
    /\ pc = "hash" /\ archive # "good"
    /\ Discard
    /\ Fail
    /\ UNCHANGED <<comp, newer, source, trusted, healthy>>

\* hash_validation: the payload cannot be read, as when a file that is named for
\* gzip is not in its format; the archive is not removed.
HashUnreadable ==
    /\ pc = "hash" /\ archive # "good"
    /\ Fail
    /\ left' = TRUE
    /\ UNCHANGED <<comp, archive, newer, source, trusted, healthy>>

\* hash_validation: the hash is right, and the recipe touches the archive.  The
\* recipe for a repository does not.
HashGood ==
    /\ pc = "hash" /\ archive = "good"
    /\ newer' = (newer \/ ~comp.scm)
    /\ pc' = "remove"
    /\ loc' = 0
    /\ left' = FALSE
    /\ UNCHANGED <<comp, archive, source, trusted, result, healthy>>

-----------------------------------------------------------------------------
\* The unpack, patch and prep rules.

\* Planted bug: what is there of the source directory is not removed.
Bug_RemoveSource ==
    /\ At("remove", "unpack")
    /\ UNCHANGED <<comp, archive, newer, source, loc, trusted, result, healthy, left>>

\* unpack-rules: rm -r $(SOURCE_DIR).
RemoveSource ==
    /\ At("remove", "unpack")
    /\ source' = NoSource
    /\ UNCHANGED <<comp, archive, newer, loc, trusted, result, healthy, left>>

\* userland-unpack: the archive is unpacked into a temporary directory, whose
\* contents are then moved here.
Unpack ==
    /\ At("unpack", "patch")
    /\ source = NoSource
    /\ source' = [from |-> archive, patches |-> << >>]
    /\ UNCHANGED <<comp, archive, newer, loc, trusted, result, healthy, left>>

\* patch-rules: the stamps depend on each other, so that patches go in in order.
Patch ==
    /\ pc = "patch" /\ Len(source.patches) < Patches
    /\ source' = [source EXCEPT !.patches = Append(@, Len(@) + 1)]
    /\ UNCHANGED <<comp, archive, newer, pc, loc, trusted, result, healthy, left>>

\* A patch does not apply, and has been applied in part.
PatchFails ==
    /\ pc = "patch" /\ Len(source.patches) < Patches /\ ~healthy
    /\ source' = Torn
    /\ Fail
    /\ UNCHANGED <<comp, archive, newer, trusted, healthy, left>>

\* $(SOURCE_DIR)/.prep: all stamps are there.
Prepared ==
    /\ At("patch", "idle") /\ Len(source.patches) = Patches
    /\ result' = "success"
    /\ UNCHANGED <<comp, archive, newer, source, loc, trusted, healthy, left>>

\* userland-unpack: what is not an archive, or is cut off, does not unpack, and
\* a directory cannot be moved to where there is one.
UnpackFails ==
    /\ pc = "unpack"
    /\ archive = "bad" \/ source # NoSource \/ ~healthy
    /\ Fail
    /\ UNCHANGED <<comp, archive, newer, source, trusted, healthy, left>>

\* gmake and all below it are killed, or the system goes down, while the source
\* directory is worked on.
KillPrep ==
    /\ pc \in {"remove", "unpack", "patch"} /\ ~healthy
    /\ source' \in {source, Torn}
    /\ Fail
    /\ UNCHANGED <<comp, archive, newer, trusted, healthy, left>>

\* The same while the archive is written or checked.
KillFetch ==
    /\ pc \in {"fetch", "signature", "hash"} /\ ~healthy
    /\ \/ UNCHANGED <<archive, newer>>
       \/ pc = "fetch" /\ loc # 0 /\ archive' = "bad" /\ newer' = TRUE
    /\ left' = (archive' # None)
    /\ Fail
    /\ UNCHANGED <<comp, source, trusted, healthy>>

\* The steps of a gmake, and its user, who repeats it.
System ==
    \/ StartPrep
    \/ FileItself \/ Found \/ NotFound \/ ReadFails \/ Exhausted
    \/ SignatureSkipped \/ SignatureValid \/ SignatureBad \/ SignatureUnavailable
    \/ HashBad \/ HashUnreadable \/ HashGood
    \/ RemoveSource \/ Unpack \/ UnpackFails \/ Patch \/ PatchFails \/ Prepared

Next == System \/ EditMakefile \/ Heal \/ KillPrep \/ KillFetch

Spec == Init /\ [][Next]_vars /\ WF_vars(System)

-----------------------------------------------------------------------------
\* Properties.

\* A gmake prep that succeeds leaves the contents of the archive with all
\* patches, each once and in order, whatever an earlier one that failed or was
\* killed has left in the source directory.
SourceComplete ==
    result = "success" =>
        source.from \in Contents /\ source.patches = [i \in 1 .. Patches |-> i]

\* "It will download all verify (hash and signature) sources": what is unpacked
\* has the hash of the Makefile, unless an earlier gmake left an archive behind
\* that it had not checked to the end.
DownloadVerifies == result = "success" => source.from = "good" \/ left

\* The same without the exception.
DownloadAlwaysVerifies == result = "success" => source.from = "good"

\* When the faults are over, repeating gmake prep succeeds: bad archives are out
\* of the way and torn source directories do no harm, with the same exception.
\* An archive that is left behind and cannot be read as a payload is one
\* that later ones may fail on again and again.
Recovers == healthy ~> (result = "success" \/ (left /\ archive = "bad"))

=============================================================================
