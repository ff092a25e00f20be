------------------------------- MODULE Skills -------------------------------
(***************************************************************************)
(* The managed skill packs of a checkout (src/skills/sync.ts) and what the *)
(* dispatch of a worker trusts of them (src/skills/effective-registry.ts). *)
(* A sync copies the allowlisted files of each upstream source to its      *)
(* destination, one by one, and then writes PROVENANCE.json with the       *)
(* hashes it finds there.  Meanwhile, or between two syncs, somebody edits *)
(* the files or the manifest; a sync may be killed, also in the middle of  *)
(* a copy.  A sync may be given a local checkout to copy a source from     *)
(* (sourceDirs; sourceDir or --source-dir, where the manifest has one      *)
(* source only): it is not asked for its revision.                         *)
(*                                                                         *)
(* The content of a file is the upstream revision it was copied from, or   *)
(* "local": what a local checkout has and the pinned revision has not.  A  *)
(* hash is the content it is of.  File 0 is the licence.                   *)
(***************************************************************************)
EXTENDS Naturals, FiniteSetsExt

CONSTANTS
  Source,       \* the upstream sources, in the order of the manifest: 1 .. n
  Revision,     \* the upstream revisions that may be pinned
  Allowed,      \* per revision: the files on its allowlist
  Local,        \* the sources a sync may be given a local checkout for
  MaxEdits,     \* bound: edits of files
  MaxManifests, \* bound: edits of the manifest
  MaxKills      \* bound: syncs cut short

File == UNION {Allowed[v] : v \in Revision}

(* What is assumed of the constants.                                        *)
SkillsAssumption ==
  /\ Source = 1 .. Cardinality(Source) /\ 1 \in Source
  /\ Revision \cap {"edited", "torn", "absent", "none", "local"} = {}
  /\ Allowed \in [Revision -> SUBSET Nat] /\ \A v \in Revision : 0 \in Allowed[v]
  /\ Local \subseteq Source
  /\ {MaxEdits, MaxManifests, MaxKills} \subseteq Nat

VARIABLES
  manifest,  \* the pinned revision of each source
  disk,      \* the content of each file of each destination
  marker,    \* PROVENANCE.json of each destination: the revision, and a hash per managed file
  sync,      \* the running sync: its step, and what it has read
  used,      \* edits, manifest edits and kills so far
  ghost      \* which files were edited during a sync, and which markers tell of a local checkout

vars == <<manifest, disk, marker, sync, used, ghost>>

Content == Revision \cup {"edited", "torn", "absent", "local"}
NoMarker == [revision |-> "none"]
TornMarker == [revision |-> "torn"]
Idle == [at |-> "idle"]

TypeOK ==
  /\ manifest \in [Source -> Revision]
  /\ disk \in [Source -> [File -> Content]]
  /\ \A s \in Source : marker[s].revision \in Revision \cup {"none", "torn"}
  /\ sync.at \in {"idle", "source", "copy", "remove", "mark"}
  /\ ghost.raced \subseteq Source \X File /\ ghost.local \subseteq Source

Init ==
  /\ manifest \in [Source -> Revision]
  /\ disk = [s \in Source |-> [f \in File |-> "absent"]]
  /\ marker = [s \in Source |-> NoMarker]
  /\ sync = Idle
  /\ used = [edits |-> 0, manifests |-> 0, kills |-> 0]
  /\ ghost = [raced |-> {}, local |-> {}]

-----------------------------------------------------------------------------
(* Operators named X_Y are X with a plausible bug; no specification uses    *)
(* them.  They show that the properties below would notice.                 *)

(* Somebody edits or removes a file of a destination, or adds one.          *)
Edit ==
  /\ used.edits < MaxEdits
  /\ \E s \in Source, f \in File :
       /\ \E c \in {"edited", "absent"} \ {disk[s][f]} : disk' = [disk EXCEPT ![s][f] = c]
       /\ ghost' = IF sync = Idle THEN ghost ELSE [ghost EXCEPT !.raced = @ \cup {<<s, f>>}]
  /\ used' = [used EXCEPT !.edits = @ + 1]
  /\ UNCHANGED <<manifest, marker, sync>>

(* Somebody pins another revision, or goes back to an earlier one.          *)
Pin ==
  /\ used.manifests < MaxManifests
  /\ \E s \in Source, v \in Revision : v # manifest[s] /\ manifest' = [manifest EXCEPT ![s] = v]
  /\ used' = [used EXCEPT !.manifests = @ + 1]
  /\ UNCHANGED <<disk, marker, sync, ghost>>

-----------------------------------------------------------------------------
(* A sync that has come to a source.                                        *)
Opening(s, pinned, local) == [at |-> "source", source |-> s, pinned |-> pinned, local |-> local]

(* syncSkillPacks: the manifest is read once.  The caller says which        *)
(* sources are copied from a checkout of its own.                           *)
Start ==
  /\ sync = Idle
  /\ \E l \in SUBSET Local : sync' = Opening(1, manifest, l)
  /\ UNCHANGED <<manifest, disk, marker, used, ghost>>

Managed(m) == DOMAIN m.hash
Marked(m) == m.revision \in Revision

(* assertCleanManagedFiles: no managed file differs from its hash; a        *)
(* missing one will be copied again.                                        *)
Untouched_Unchecked(m, files) == Marked(m)
Untouched(m, files) == Marked(m) /\ \A f \in Managed(m) : files[f] \in {"absent", m.hash[f]}

(* A destination without provenance must be empty.                          *)
Empty(files) == \A f \in File : files[f] = "absent"

(* syncOneSource up to the first copy: the destination is looked at, and    *)
(* upstream is fetched and its revision checked, or the local checkout is   *)
(* taken as it is; the allowlisted files must be there.  A refusal ends the *)
(* whole sync.                                                              *)
Open ==
  /\ sync.at = "source"
  /\ LET s == sync.source
         v == sync.pinned[s]
         fine == IF marker[s] = NoMarker THEN Empty(disk[s]) ELSE Untouched(marker[s], disk[s])
         go == [at |-> "copy", source |-> s, pinned |-> sync.pinned, local |-> sync.local, todo |-> Allowed[v],
                old |-> IF Marked(marker[s]) THEN Managed(marker[s]) \ Allowed[v] ELSE {}]
     IN sync' \in IF fine THEN {go, Idle} ELSE {Idle}
  /\ UNCHANGED <<manifest, disk, marker, used, ghost>>

(* What a file of a source may hold that is copied.                         *)
Copied(s) == {sync.pinned[s]} \cup (IF s \in sync.local THEN {"local"} ELSE {})

(* The next file is copied, the licence first.                              *)
Copy ==
  /\ sync.at = "copy"
  /\ LET s == sync.source
         f == Min(sync.todo)
         left == sync.todo \ {f}
     IN /\ \E c \in Copied(s) : disk' = [disk EXCEPT ![s][f] = c]
        /\ sync' = [sync EXCEPT !.todo = left, !.at = IF left = {} THEN "remove" ELSE "copy"]
  /\ UNCHANGED <<manifest, marker, used, ghost>>

(* What the last sync managed and this one does not is removed.             *)
Remove ==
  /\ sync.at = "remove"
  /\ disk' = [disk EXCEPT ![sync.source] = [f \in File |-> IF f \in sync.old THEN "absent" ELSE @[f]]]
  /\ sync' = [sync EXCEPT !.at = "mark"]
  /\ UNCHANGED <<manifest, marker, used, ghost>>

(* buildProvenance hashes the files of the destination; one that is gone    *)
(* fails the sync.  The next source follows.                                *)
Mark ==
  /\ sync.at = "mark"
  /\ LET s == sync.source
         v == sync.pinned[s]
     IN IF \E f \in Allowed[v] : disk[s][f] = "absent"
        THEN UNCHANGED <<marker, ghost>> /\ sync' = Idle
        ELSE /\ marker' = [marker EXCEPT ![s] = [revision |-> v, hash |-> [f \in Allowed[v] |-> disk[s][f]]]]
             /\ sync' = IF s + 1 \in Source THEN Opening(s + 1, sync.pinned, sync.local) ELSE Idle
             /\ ghost' = [ghost EXCEPT !.local = (@ \ {s}) \cup ({s} \cap sync.local)]
  /\ UNCHANGED <<manifest, disk, used>>

(* A kill, or a failure of a copy, leaves the file or marker that is being  *)
(* written as it was or torn.                                               *)
Cut ==
  /\ sync # Idle /\ used.kills < MaxKills
  /\ sync' = Idle
  /\ used' = [used EXCEPT !.kills = @ + 1]
  /\ \/ UNCHANGED <<disk, marker>>
     \/ /\ sync.at = "copy"
        /\ disk' = [disk EXCEPT ![sync.source][Min(sync.todo)] = "torn"]
        /\ UNCHANGED marker
     \/ /\ sync.at = "mark"
        /\ marker' = [marker EXCEPT ![sync.source] = TornMarker]
        /\ UNCHANGED disk
  /\ UNCHANGED <<manifest, ghost>>

Next == Edit \/ Pin \/ Start \/ Open \/ Copy \/ Remove \/ Mark \/ Cut

Spec == Init /\ [][Next]_vars

-----------------------------------------------------------------------------
(* readSourceProvenanceSync: the registry a worker's skills are taken from  *)
(* goes by the fingerprint and the revision, and hashes nothing.            *)
Loads(s) == marker[s].revision = manifest[s]

(* checkOneSource: every managed file has its hash, and there is no other.  *)
Checks_Trusting(s) == Loads(s)
Checks(s) ==
  /\ Loads(s)
  /\ \A f \in File : disk[s][f] = IF f \in Managed(marker[s]) THEN marker[s].hash[f] ELSE "absent"

Reviewed(s, f) == IF f \in Allowed[manifest[s]] THEN manifest[s] ELSE "absent"

(* docs/SKILLS.md: a destination that skills:check passes holds the files   *)
(* the manifest pins as they were copied, nothing torn, left over or        *)
(* edited, whatever happened before: syncs that were cut short, a manifest  *)
(* set forward and back, a sync from a local checkout before this one.  A   *)
(* file edited while a sync copied is an exception: the sync hashes what it *)
(* then finds.  So is a destination whose last sync was given a local       *)
(* checkout: its files are those of the checkout, and nothing tells.        *)
CheckedIsReviewed ==
  \A s \in Source : Checks(s) =>
    \A f \in File :
      \/ disk[s][f] = Reviewed(s, f)
      \/ <<s, f>> \in ghost.raced
      \/ s \in ghost.local /\ f \in Allowed[manifest[s]] /\ disk[s][f] = "local"

(* docs/SKILLS.md: a sync "refuses to overwrite a destination that has no   *)
(* Pi-next provenance or any drifted managed file".  It never replaces an   *)
(* edit of a file it manages unless the edit was made during a sync.        *)
EditsRespected ==
  [][disk' # disk /\ used' = used =>
       \A s \in Source, f \in File :
         disk[s][f] = "edited" /\ disk'[s][f] # "edited" =>
           <<s, f>> \in ghost.raced \/ (Marked(marker[s]) /\ f \notin Managed(marker[s]))]_vars
=============================================================================
