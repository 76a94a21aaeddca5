--------------------------- MODULE RecoveryBundle ---------------------------
(***************************************************************************)
(* The recovery bundle of the upload volume: scripts/recovery/             *)
(* matched_bundle.py archives a directory and writes a manifest that goes  *)
(* with the archive, restore_upload_bundle.py puts the archive back into   *)
(* an empty directory.                                                     *)
(*                                                                         *)
(* The directory may change while it is archived, the artifacts while they *)
(* are restored, two operators may run at once, and any run may die.  The  *)
(* contents of a file are its version; 0 is no file.                       *)
(***************************************************************************)
EXTENDS Naturals, FiniteSets

CONSTANTS
  Paths,      \* relative paths a file may have
  KeyOf,      \* their collision keys: the normalised form without case
  Archives,   \* paths an operator gives the archive; all give one manifest path
  Operators,  \* runs of either script
  MaxChanges, \* bound: changes to the source, and to the artifacts
  MaxKills    \* bound: runs that die

ASSUME BundleAssumption ==
  KeyOf \in [Paths -> STRING] /\ MaxChanges \in Nat /\ MaxKills \in Nat

VARIABLES
  source,   \* the upload directory
  archive,  \* archives, by path: no or one set of members
  manifest, \* the manifest: none, or the digest and the entries of its archive
  scratch,  \* the directory restored into: files, private stagings, others' files
  run,      \* what each run is in the middle of
  faults    \* changes and kills so far, stagings left, archives a kill left alone

bundleVars == <<source, archive, manifest, scratch, run, faults>>

Resting  == [op |-> "rest"]
Versions == 0 .. MaxChanges + 1
Contents == [Paths -> Versions]
Members(c) == {p \in Paths : c[p] # 0}
Missing  == [p \in Paths |-> 0]

BundleInit ==
  /\ source \in [Paths -> 0 .. 1]
  /\ archive = [a \in Archives |-> {}] /\ manifest = {}
  /\ scratch = [files |-> Missing, staging |-> {}, others |-> {}]
  /\ run = [o \in Operators |-> Resting]
  /\ faults = [changes |-> 0, kills |-> 0, left |-> {}, alone |-> {}]

BundleTypeOK ==
  /\ source \in Contents
  /\ \A a \in Archives : archive[a] \subseteq Contents /\ Cardinality(archive[a]) <= 1
  /\ \A m \in manifest : m \in [of : Archives, digest : Contents, entries : Contents, seen : Contents]
  /\ scratch.files \in Contents /\ scratch.staging \subseteq Operators /\ scratch.others \subseteq Paths
  /\ \A o \in Operators : run[o].op \in {"rest", "walk", "write", "archived", "load", "extract", "publish"}
  /\ faults.changes \in 0 .. MaxChanges /\ faults.kills \in 0 .. MaxKills

At(o, op)     == run[o].op = op
Goes(o, what) == run' = [run EXCEPT ![o] = what]
Fails(o)      == Goes(o, Resting)

-----------------------------------------------------------------------------
(* matched_bundle.py                                                       *)

\* create_bundle(): the outputs must not exist; os.walk() lists the names.
Walk(o, a) ==
  /\ At(o, "rest") /\ archive[a] = {} /\ manifest = {}
  /\ Goes(o, [op |-> "walk", to |-> a, left |-> Members(source), pinned |-> Missing])
  /\ UNCHANGED <<source, archive, manifest, scratch, faults>>

\* _source_files(): a file is opened, and its size and time are kept; one that is gone fails the run.
Pin(o, p) ==
  /\ At(o, "walk") /\ p \in run[o].left
  /\ IF source[p] = 0 THEN Fails(o)
     ELSE Goes(o, [run[o] EXCEPT !.left = @ \ {p}, !.pinned[p] = source[p]])
  /\ UNCHANGED <<source, archive, manifest, scratch, faults>>

Collide(c) == \E p, q \in Members(c) : p # q /\ KeyOf[p] = KeyOf[q]

\* Names that differ in case or form only are refused.
Discovered(o) ==
  /\ At(o, "walk") /\ run[o].left = {}
  /\ IF Collide(run[o].pinned) THEN Fails(o)
     ELSE Goes(o, [op |-> "write", to |-> run[o].to, left |-> Members(run[o].pinned),
                   pinned |-> run[o].pinned, packed |-> Missing, seen |-> source])
  /\ UNCHANGED <<source, archive, manifest, scratch, faults>>

\* Mutant: what was opened and what was read are not compared.
PackAny(o, p) ==
  /\ At(o, "write") /\ p \in run[o].left
  /\ Goes(o, [run[o] EXCEPT !.left = @ \ {p}, !.packed[p] = source[p]])
  /\ UNCHANGED <<source, archive, manifest, scratch, faults>>

\* _write_archive(): a file that changed, moved or went since it was pinned fails the run.
Pack(o, p) ==
  /\ At(o, "write") /\ p \in run[o].left
  /\ IF source[p] # run[o].pinned[p] THEN Fails(o)
     ELSE Goes(o, [run[o] EXCEPT !.left = @ \ {p}, !.packed[p] = source[p]])
  /\ UNCHANGED <<source, archive, manifest, scratch, faults>>

\* _publish_noclobber(), the archive.
PublishArchive(o) ==
  /\ At(o, "write") /\ run[o].left = {}
  /\ IF archive[run[o].to] # {} THEN Fails(o) /\ UNCHANGED archive
     ELSE /\ archive' = [archive EXCEPT ![run[o].to] = {run[o].packed}]
          /\ Goes(o, [run[o] EXCEPT !.op = "archived"])
  /\ UNCHANGED <<source, manifest, scratch, faults>>

Manifest(o) ==
  [of |-> run[o].to, digest |-> run[o].packed, entries |-> run[o].packed, seen |-> run[o].seen]

\* Mutant: a manifest that is there is replaced.
PublishManifestOver(o) ==
  /\ At(o, "archived")
  /\ manifest' = {Manifest(o)}
  /\ Fails(o)
  /\ UNCHANGED <<source, archive, scratch, faults>>

\* The manifest; if it cannot be published, the archive is taken back.
PublishManifest(o) ==
  /\ At(o, "archived")
  /\ \/ manifest = {} /\ manifest' = {Manifest(o)} /\ UNCHANGED archive
     \/ archive' = [archive EXCEPT ![run[o].to] = {}] /\ UNCHANGED manifest
  /\ Fails(o)
  /\ UNCHANGED <<source, scratch, faults>>

-----------------------------------------------------------------------------
(* restore_upload_bundle.py                                                *)

Vacant == scratch.staging = {} /\ scratch.files = Missing /\ scratch.others = {}

\* _validate_scratch(); the private staging is made next.
Validate(o) ==
  /\ At(o, "rest") /\ manifest # {} /\ Vacant
  /\ Goes(o, [op |-> "load", staged |-> Missing])
  /\ UNCHANGED <<source, archive, manifest, scratch, faults>>

OnlyMine(o) == scratch.staging \subseteq {o} /\ scratch.files = Missing /\ scratch.others = {}

\* mkdtemp(). Something else in the directory fails the run, outside the try: its staging stays.
Stage(o) ==
  /\ At(o, "load") /\ o \notin scratch.staging
  /\ scratch' = [scratch EXCEPT !.staging = @ \cup {o}]
  /\ IF OnlyMine(o) THEN UNCHANGED run /\ UNCHANGED faults
     ELSE Fails(o) /\ faults' = [faults EXCEPT !.left = @ \cup {o}]
  /\ UNCHANGED <<source, archive, manifest>>

\* What is done about the staging when a run fails: it goes, unless there is anything beside it.
CleansUp(o) ==
  LET alone == scratch.staging = {o} /\ scratch.others = {} /\ scratch.files = Missing IN
  /\ scratch' = [scratch EXCEPT !.staging = IF alone THEN {} ELSE @]
  /\ faults' = [faults EXCEPT !.left = IF alone THEN @ ELSE @ \cup {o}]
  /\ Fails(o)

\* _preflight_archive(): the archive has the digest of the manifest, and its entries.
Accepted(m) == archive[m.of] = {m.digest} /\ m.digest = m.entries

Load(o) ==
  /\ At(o, "load") /\ o \in scratch.staging
  /\ IF \E m \in manifest : Accepted(m)
     THEN /\ Goes(o, [op |-> "extract", from |-> manifest, staged |-> Missing])
          /\ UNCHANGED <<scratch, faults>>
     ELSE CleansUp(o)
  /\ UNCHANGED <<source, archive, manifest>>

\* Mutant: the restored files are not compared with the manifest, nor the artifacts checked again.
ExtractAny(o) ==
  /\ At(o, "extract")
  /\ \E m \in run[o].from : \E c \in archive[m.of] :
       Goes(o, [op |-> "publish", from |-> {m}, staged |-> c, left |-> Members(c), put |-> {}])
  /\ UNCHANGED <<source, archive, manifest, scratch, faults>>

\* _require_unchanged_regular_file(), of both artifacts.
Unchanged(m) == manifest = {m} /\ archive[m.of] = {m.entries}

\* _extract_to_private_staging()
Extract(o) ==
  /\ At(o, "extract")
  /\ IF \E m \in run[o].from : Unchanged(m)
     THEN /\ \E m \in run[o].from :
               Goes(o, [op |-> "publish", from |-> {m}, staged |-> m.entries, left |-> Members(m.entries), put |-> {}])
          /\ UNCHANGED <<scratch, faults>>
     ELSE CleansUp(o)
  /\ UNCHANGED <<source, archive, manifest>>

\* _publish_staging(): only the staging may be there at first; every name is linked or renamed into place.
Place(o, p) ==
  LET r == run[o] IN
  /\ At(o, "publish") /\ p \in r.left
  /\ r.put = {} => OnlyMine(o)
  /\ p \notin scratch.others /\ scratch.files[p] = 0
  /\ scratch' = [scratch EXCEPT !.files[p] = r.staged[p]]
  /\ Goes(o, [r EXCEPT !.left = @ \ {p}, !.put = @ \cup {p}])
  /\ UNCHANGED <<source, archive, manifest, faults>>

\* Any of them fails: what has been placed goes back, and then the staging goes.
PlaceFails(o) ==
  LET r == run[o]
      back == [p \in Paths |-> IF p \in r.put THEN 0 ELSE scratch.files[p]]
      alone == scratch.staging = {o} /\ scratch.others = {} /\ back = Missing IN
  /\ At(o, "publish")
  /\ scratch' = [scratch EXCEPT !.files = back, !.staging = IF alone THEN {} ELSE @]
  /\ faults' = [faults EXCEPT !.left = IF alone THEN @ ELSE @ \cup {o}]
  /\ Fails(o)
  /\ UNCHANGED <<source, archive, manifest>>

RestoreEnds(o) ==
  /\ At(o, "publish") /\ run[o].left = {}
  /\ scratch' = [scratch EXCEPT !.staging = @ \ {o}]
  /\ Fails(o)
  /\ UNCHANGED <<source, archive, manifest, faults>>

-----------------------------------------------------------------------------
(* What others do meanwhile.                                               *)

Changes == faults.changes < MaxChanges /\ faults' = [faults EXCEPT !.changes = @ + 1]

\* Contents, or a file, that there has not been before.
New == faults.changes + 2

\* The application writes, or removes, an upload.
ChangeSource(p) ==
  /\ Changes
  /\ source' = [source EXCEPT ![p] = New] \/ source' = [source EXCEPT ![p] = 0]
  /\ UNCHANGED <<archive, manifest, scratch, run>>

\* The bytes of an archive are damaged; a file of somebody else's lands in the scratch directory.
Damage(a, p) ==
  /\ Changes
  /\ archive' = [archive EXCEPT ![a] = {[c EXCEPT ![p] = New] : c \in @}]
  /\ UNCHANGED <<source, manifest, scratch, run>>

Intrude(p) ==
  /\ Changes /\ p \notin scratch.others /\ scratch.files[p] = 0
  /\ scratch' = [scratch EXCEPT !.others = @ \cup {p}]
  /\ UNCHANGED <<source, archive, manifest, run>>

Kill(o) ==
  /\ ~ At(o, "rest") /\ faults.kills < MaxKills
  /\ faults' = [faults EXCEPT !.kills = @ + 1,
       !.left = IF o \in scratch.staging THEN @ \cup {o} ELSE @,
       !.alone = IF At(o, "archived") THEN @ \cup {run[o].to} ELSE @]
  /\ Fails(o)
  /\ UNCHANGED <<source, archive, manifest, scratch>>

BundleNext ==
  \/ \E o \in Operators :
       \/ \E a \in Archives : Walk(o, a)
       \/ \E p \in Paths : Pin(o, p) \/ Pack(o, p) \/ Place(o, p)
       \/ Discovered(o) \/ PublishArchive(o) \/ PublishManifest(o)
       \/ Validate(o) \/ Stage(o) \/ Load(o) \/ Extract(o) \/ PlaceFails(o) \/ RestoreEnds(o)
       \/ Kill(o)
  \/ \E p \in Paths : ChangeSource(p) \/ Intrude(p) \/ \E a \in Archives : Damage(a, p)

BundleSpec == BundleInit /\ [][BundleNext]_bundleVars

-----------------------------------------------------------------------------
(* A manifest describes the source as it was at one moment, the end of its *)
(* discovery, whatever was written while it was archived: every entry is   *)
(* what the source then had.                                               *)
ManifestIsASnapshot ==
  \A m \in manifest : /\ \A p \in Members(m.entries) : m.entries[p] = m.seen[p]
                      /\ ~ Collide(m.entries)

(* Nobody's manifest replaces another's, and no archive is left without    *)
(* its manifest but by a run that is at it or was killed at that moment.   *)
ArchivesAreMatched ==
  \A a \in Archives : archive[a] # {} =>
    \/ \E m \in manifest : m.of = a
    \/ \E o \in Operators : At(o, "archived") /\ run[o].to = a
    \/ a \in faults.alone

(* What a restore puts into the directory is what the manifest lists, and  *)
(* a restore that failed leaves nothing of it: a partial set of files is   *)
(* there only beside its private staging.                                  *)
RestoreIsExact ==
  /\ \A p \in Members(scratch.files) : \E m \in manifest : scratch.files[p] = m.entries[p]
  /\ scratch.staging = {} /\ scratch.files # Missing => \E m \in manifest : scratch.files = m.entries

(* A staging that no run is using is one a failure or a kill left.         *)
StagingsAreKnown ==
  \A o \in scratch.staging : o \in faults.left \/ run[o].op \in {"load", "extract", "publish"}

BundlesAreSound ==
  ManifestIsASnapshot /\ ArchivesAreMatched /\ RestoreIsExact /\ StagingsAreKnown
=============================================================================
