----------------------------- MODULE OfficeProofs -----------------------------
(***************************************************************************)
(* Theorems about RecoveryBundle, FrontDesk, Diary, Migrations and Schema, *)
(* for any files, requests, runs, projects, owners, containers and         *)
(* releases, and about the office that the runs check.                     *)
(***************************************************************************)
EXTENDS MCOffice, FiniteSetTheorems, SequenceTheorems, NaturalsInduction, TLAPS

(***************************************************************************)
(* RecoveryBundle                                                          *)
(***************************************************************************)

(* What a run holds, by what it is in the middle of.                       *)
Manifests == [of : Archives, digest : Contents, entries : Contents, seen : Contents]

Rests     == [op : {"rest"}]
Walks     == [op : {"walk"}, to : Archives, left : SUBSET Paths, pinned : Contents]
Writes    == [op : {"write"}, to : Archives, left : SUBSET Paths, pinned : Contents,
              packed : Contents, seen : Contents]
Archiveds == [op : {"archived"}, to : Archives, left : SUBSET Paths, pinned : Contents,
              packed : Contents, seen : Contents]
LoadsB    == [op : {"load"}, staged : {Missing}]
Extracts  == [op : {"extract"}, from : SUBSET Manifests, staged : {Missing}]
Publishes == [op : {"publish"}, from : SUBSET Manifests, staged : Contents,
              left : SUBSET Paths, put : SUBSET Paths]

Runs == Rests \cup Walks \cup Writes \cup Archiveds \cup LoadsB \cup Extracts \cup Publishes

RunsTyped == run \in [Operators -> Runs]

LEMMA RunSorts ==
  ASSUME RunsTyped, NEW o \in Operators
  PROVE  /\ run[o] \in Runs
         /\ run[o].op \in {"rest", "walk", "write", "archived", "load", "extract", "publish"}
         /\ At(o, "rest") => run[o] \in Rests
         /\ At(o, "walk") => run[o] \in Walks
         /\ At(o, "write") => run[o] \in Writes
         /\ At(o, "archived") => run[o] \in Archiveds
         /\ At(o, "load") => run[o] \in LoadsB
         /\ At(o, "extract") => run[o] \in Extracts
         /\ At(o, "publish") => run[o] \in Publishes
BY DEF RunsTyped, Runs, Rests, Walks, Writes, Archiveds, LoadsB, Extracts, Publishes, At

(* One run goes on, the others stay where they are.                        *)
LEMMA RunGoes ==
  ASSUME RunsTyped, NEW o \in Operators, NEW what \in Runs, Goes(o, what)
  PROVE  /\ RunsTyped' /\ run'[o] = what
         /\ \A q \in Operators : q # o => run'[q] = run[q]
BY DEF RunsTyped, Goes

(* The artifacts, the directories and the faults.                          *)
Scratches == [files : Contents, staging : SUBSET Operators, others : SUBSET Paths]
Faults    == [changes : 0 .. MaxChanges, kills : 0 .. MaxKills,
              left : SUBSET Operators, alone : SUBSET Archives]

ArchivesTyped ==
  \A a \in Archives : archive[a] = {} \/ \E c \in Contents : archive[a] = {c}

BundleTyped ==
  /\ source \in Contents
  /\ archive = [a \in Archives |-> archive[a]] /\ ArchivesTyped
  /\ manifest \subseteq Manifests /\ \A m, n \in manifest : m = n
  /\ scratch \in Scratches /\ RunsTyped /\ faults \in Faults

LEMMA Nowhere == Missing \in Contents /\ \A p \in Paths : Missing[p] = 0
<1>1. 0 \in Versions
  BY BundleAssumption DEF BundleAssumption, Versions
<1> QED BY <1>1 DEF Missing, Contents

(* A write at one path.                                                    *)
LEMMA Rewritten ==
  ASSUME NEW c \in Contents, NEW p \in Paths, NEW v \in Versions
  PROVE  /\ [c EXCEPT ![p] = v] \in Contents
         /\ [c EXCEPT ![p] = v][p] = v
         /\ \A q \in Paths : q # p => [c EXCEPT ![p] = v][q] = c[q]
BY DEF Contents

LEMMA NewVersion ==
  ASSUME faults \in Faults, faults.changes < MaxChanges
  PROVE  New \in Versions /\ 0 \in Versions /\ New # 0 /\ New = faults.changes + 2
BY BundleAssumption DEF BundleAssumption, Faults, New, Versions

LEMMA InitBundleTyped ==
  ASSUME BundleInit
  PROVE  BundleTyped
<1>1. source \in Contents
  <2>1. 0 .. 1 \subseteq Versions
    BY BundleAssumption DEF BundleAssumption, Versions
  <2> QED BY <2>1 DEF BundleInit, Contents
<1>2. scratch \in Scratches
  BY Nowhere DEF BundleInit, Scratches
<1>3. RunsTyped
  BY DEF BundleInit, RunsTyped, Resting, Runs, Rests
<1>4. faults \in Faults
  <2>1. 0 \in 0 .. MaxChanges /\ 0 \in 0 .. MaxKills
    BY BundleAssumption DEF BundleAssumption
  <2> QED BY <2>1 DEF BundleInit, Faults
<1> QED BY <1>1, <1>2, <1>3, <1>4 DEF BundleInit, BundleTyped, ArchivesTyped

(* A run that archives touches neither the directories nor the faults.     *)
LEMMA ArchivingTyped ==
  ASSUME BundleTyped, NEW o \in Operators,
         \/ \E a \in Archives : Walk(o, a)
         \/ \E p \in Paths : Pin(o, p) \/ Pack(o, p)
         \/ Discovered(o) \/ PublishArchive(o) \/ PublishManifest(o)
  PROVE  BundleTyped'
<1>0. RunsTyped /\ source \in Contents
  BY DEF BundleTyped
<1>1. Resting \in Runs
  BY DEF Resting, Runs, Rests
<1>2. ASSUME NEW a \in Archives, Walk(o, a)
      PROVE  BundleTyped'
  <2>1. [op |-> "walk", to |-> a, left |-> Members(source), pinned |-> Missing] \in Runs
    BY Nowhere DEF Runs, Walks, Members
  <2>2. RunsTyped'
    BY <1>0, <1>2, <2>1, RunGoes DEF Walk
  <2> QED BY <1>2, <2>2 DEF BundleTyped, ArchivesTyped, Walk
<1>3. ASSUME NEW p \in Paths, Pin(o, p)
      PROVE  BundleTyped'
  <2>1. run[o] \in Walks
    BY <1>0, <1>3, RunSorts DEF Pin
  <2>2. [run[o].pinned EXCEPT ![p] = source[p]] \in Contents
    BY <1>0, <2>1, Rewritten DEF Walks, Contents
  <2>3. [run[o] EXCEPT !.left = @ \ {p}, !.pinned[p] = source[p]] \in Runs
    BY <2>1, <2>2 DEF Walks, Runs
  <2>4. RunsTyped'
    BY <1>0, <1>1, <1>3, <2>3, RunGoes DEF Pin, Fails
  <2> QED BY <1>3, <2>4 DEF BundleTyped, ArchivesTyped, Pin
<1>4. ASSUME NEW p \in Paths, Pack(o, p)
      PROVE  BundleTyped'
  <2>1. run[o] \in Writes
    BY <1>0, <1>4, RunSorts DEF Pack
  <2>2. [run[o].packed EXCEPT ![p] = source[p]] \in Contents
    BY <1>0, <2>1, Rewritten DEF Writes, Contents
  <2>3. [run[o] EXCEPT !.left = @ \ {p}, !.packed[p] = source[p]] \in Runs
    BY <2>1, <2>2 DEF Writes, Runs
  <2>4. RunsTyped'
    BY <1>0, <1>1, <1>4, <2>3, RunGoes DEF Pack, Fails
  <2> QED BY <1>4, <2>4 DEF BundleTyped, ArchivesTyped, Pack
<1>5. CASE Discovered(o)
  <2>1. run[o] \in Walks
    BY <1>0, <1>5, RunSorts DEF Discovered
  <2>2. [op |-> "write", to |-> run[o].to, left |-> Members(run[o].pinned),
         pinned |-> run[o].pinned, packed |-> Missing, seen |-> source] \in Runs
    BY <1>0, <2>1, Nowhere DEF Walks, Writes, Runs, Members
  <2>3. RunsTyped'
    BY <1>0, <1>1, <1>5, <2>2, RunGoes DEF Discovered, Fails
  <2> QED BY <1>5, <2>3 DEF BundleTyped, ArchivesTyped, Discovered
<1>6. CASE PublishArchive(o)
  <2>1. run[o] \in Writes
    BY <1>0, <1>6, RunSorts DEF PublishArchive
  <2>2. [run[o] EXCEPT !.op = "archived"] \in Runs
    BY <2>1 DEF Writes, Archiveds, Runs
  <2>3. RunsTyped'
    BY <1>0, <1>1, <1>6, <2>2, RunGoes DEF PublishArchive, Fails
  <2>4. run[o].packed \in Contents
    BY <2>1 DEF Writes
  <2>5. archive' = [a \in Archives |-> archive'[a]] /\ ArchivesTyped'
    BY <1>6, <2>4 DEF BundleTyped, ArchivesTyped, PublishArchive
  <2> QED BY <1>6, <2>3, <2>5 DEF BundleTyped, PublishArchive
<1>7. CASE PublishManifest(o)
  <2>1. run[o] \in Archiveds
    BY <1>0, <1>7, RunSorts DEF PublishManifest
  <2>2. Manifest(o) \in Manifests
    BY <2>1 DEF Archiveds, Manifests, Manifest
  <2>3. RunsTyped'
    BY <1>0, <1>1, <1>7, RunGoes DEF PublishManifest, Fails
  <2>4. archive' = [a \in Archives |-> archive'[a]] /\ ArchivesTyped'
    BY <1>7 DEF BundleTyped, ArchivesTyped, PublishManifest
  <2>5. manifest' \subseteq Manifests /\ \A m, n \in manifest' : m = n
    BY <1>7, <2>2 DEF BundleTyped, PublishManifest
  <2> QED BY <1>7, <2>3, <2>4, <2>5 DEF BundleTyped, PublishManifest
<1> QED BY <1>2, <1>3, <1>4, <1>5, <1>6, <1>7

(* How a run that fails leaves the directory.                              *)
LEMMA Cleaned ==
  ASSUME BundleTyped, NEW o \in Operators, CleansUp(o)
  PROVE  /\ scratch'.files = scratch.files /\ scratch'.others = scratch.others
         /\ \/ scratch'.staging = {} /\ scratch.files = Missing /\ faults'.left = faults.left
               /\ scratch.staging = {o}
            \/ scratch'.staging = scratch.staging /\ faults'.left = faults.left \cup {o}
         /\ faults'.alone = faults.alone /\ faults'.changes = faults.changes
         /\ scratch' \in Scratches /\ faults' \in Faults
BY DEF BundleTyped, Scratches, Faults, CleansUp

LEMMA RestoringTyped ==
  ASSUME BundleTyped, NEW o \in Operators,
         \/ \E p \in Paths : Place(o, p)
         \/ Validate(o) \/ Stage(o) \/ Load(o) \/ Extract(o) \/ PlaceFails(o) \/ RestoreEnds(o)
         \/ Kill(o)
  PROVE  BundleTyped'
<1>0. RunsTyped /\ scratch \in Scratches /\ faults \in Faults /\ manifest \subseteq Manifests
  BY DEF BundleTyped
<1>1. Resting \in Runs
  BY DEF Resting, Runs, Rests
<1>2. SUFFICES RunsTyped' /\ scratch' \in Scratches /\ faults' \in Faults
  BY DEF BundleTyped, ArchivesTyped, Place, Validate, Stage, Load, Extract, PlaceFails, RestoreEnds, Kill
<1>3. ASSUME NEW p \in Paths, Place(o, p)
      PROVE  RunsTyped' /\ scratch' \in Scratches /\ faults' \in Faults
  <2>1. run[o] \in Publishes
    BY <1>0, <1>3, RunSorts DEF Place
  <2>2. [run[o] EXCEPT !.left = @ \ {p}, !.put = @ \cup {p}] \in Runs
    BY <2>1 DEF Publishes, Runs
  <2>3. RunsTyped'
    BY <1>0, <1>3, <2>2, RunGoes DEF Place
  <2>4. [scratch.files EXCEPT ![p] = run[o].staged[p]] \in Contents
    BY <1>0, <2>1, Rewritten DEF Scratches, Publishes, Contents
  <2> QED BY <1>0, <1>3, <2>3, <2>4 DEF Place, Scratches
<1>4. CASE Validate(o)
  <2>1. [op |-> "load", staged |-> Missing] \in Runs
    BY DEF Runs, LoadsB
  <2> QED BY <1>0, <1>4, <2>1, RunGoes DEF Validate
<1>5. CASE Stage(o)
  <2>1. RunsTyped'
    <3>1. CASE run' = run
      BY <1>0, <3>1 DEF RunsTyped
    <3>2. CASE Goes(o, Resting)
      BY <1>0, <1>1, <3>2, RunGoes
    <3> QED BY <1>5, <3>1, <3>2 DEF Stage, Fails
  <2>2. scratch' \in Scratches /\ faults' \in Faults
    BY <1>0, <1>5 DEF Stage, Scratches, Faults
  <2> QED BY <2>1, <2>2
<1>6. CASE Load(o)
  <2>1. CASE CleansUp(o)
    BY <1>0, <1>1, <2>1, Cleaned, RunGoes DEF CleansUp, Fails
  <2>2. CASE Goes(o, [op |-> "extract", from |-> manifest, staged |-> Missing]) /\ UNCHANGED <<scratch, faults>>
    <3>1. [op |-> "extract", from |-> manifest, staged |-> Missing] \in Runs
      BY <1>0 DEF Runs, Extracts
    <3> QED BY <1>0, <2>2, <3>1, RunGoes
  <2> QED BY <1>6, <2>1, <2>2 DEF Load
<1>7. CASE Extract(o)
  <2>1. CASE CleansUp(o)
    BY <1>0, <1>1, <2>1, Cleaned, RunGoes DEF CleansUp, Fails
  <2>2. CASE UNCHANGED <<scratch, faults>>
    <3>1. run[o] \in Extracts
      BY <1>0, <1>7, RunSorts DEF Extract
    <3>2. CASE \E m \in run[o].from : Unchanged(m)
      <4>1. PICK m \in run[o].from : Goes(o, [op |-> "publish", from |-> {m}, staged |-> m.entries,
                                             left |-> Members(m.entries), put |-> {}])
        BY <1>7, <3>2 DEF Extract
      <4>2. [op |-> "publish", from |-> {m}, staged |-> m.entries,
             left |-> Members(m.entries), put |-> {}] \in Runs
        BY <3>1 DEF Extracts, Manifests, Runs, Publishes, Members
      <4> QED BY <1>0, <2>2, <4>1, <4>2, RunGoes
    <3>3. CASE ~\E m \in run[o].from : Unchanged(m)
      BY <1>7, <2>1, <3>3 DEF Extract
    <3> QED BY <3>2, <3>3
  <2> QED BY <1>7, <2>1, <2>2 DEF Extract
<1>8. CASE PlaceFails(o)
  <2>1. RunsTyped'
    BY <1>0, <1>1, <1>8, RunGoes DEF PlaceFails, Fails
  <2>2. [p \in Paths |-> IF p \in run[o].put THEN 0 ELSE scratch.files[p]] \in Contents
    BY <1>0, Nowhere DEF Scratches, Contents, Missing
  <2> QED BY <1>0, <1>8, <2>1, <2>2 DEF PlaceFails, Scratches, Faults
<1>9. CASE RestoreEnds(o)
  <2>1. RunsTyped'
    BY <1>0, <1>1, <1>9, RunGoes DEF RestoreEnds, Fails
  <2> QED BY <1>0, <1>9, <2>1 DEF RestoreEnds, Scratches
<1>10. CASE Kill(o)
  <2>1. RunsTyped'
    BY <1>0, <1>1, <1>10, RunGoes DEF Kill, Fails
  <2>2. At(o, "archived") => run[o].to \in Archives
    BY <1>0, RunSorts DEF Archiveds
  <2>3. faults.kills + 1 \in 0 .. MaxKills
    BY <1>0, <1>10, BundleAssumption DEF BundleAssumption, Faults, Kill
  <2>4. faults' \in Faults
    BY <1>0, <1>10, <2>2, <2>3 DEF Kill, Faults
  <2> QED BY <1>0, <1>10, <2>1, <2>4 DEF Kill
<1> QED BY <1>3, <1>4, <1>5, <1>6, <1>7, <1>8, <1>9, <1>10

LEMMA OthersTyped ==
  ASSUME BundleTyped, NEW p \in Paths,
         ChangeSource(p) \/ Intrude(p) \/ \E a \in Archives : Damage(a, p)
  PROVE  BundleTyped'
<1>1. faults' \in Faults /\ RunsTyped'
  <2>1. faults \in Faults /\ Changes /\ run' = run /\ RunsTyped
    BY DEF BundleTyped, ChangeSource, Intrude, Damage
  <2>2. faults.changes + 1 \in 0 .. MaxChanges
    BY <2>1, BundleAssumption DEF BundleAssumption, Faults, Changes
  <2> QED BY <2>1, <2>2 DEF Changes, Faults, RunsTyped
<1>2. New \in Versions /\ 0 \in Versions
  BY NewVersion DEF BundleTyped, ChangeSource, Intrude, Damage, Changes
<1>3. CASE ChangeSource(p)
  <2>1. source' \in Contents
    BY <1>2, <1>3, Rewritten DEF BundleTyped, ChangeSource
  <2> QED BY <1>1, <1>3, <2>1 DEF BundleTyped, ArchivesTyped, ChangeSource
<1>4. CASE Intrude(p)
  <2>1. scratch' \in Scratches
    BY <1>4 DEF BundleTyped, Intrude, Scratches
  <2> QED BY <1>1, <1>4, <2>1 DEF BundleTyped, ArchivesTyped, Intrude
<1>5. ASSUME NEW a \in Archives, Damage(a, p)
      PROVE  BundleTyped'
  <2>1. \A c \in Contents : [c EXCEPT ![p] = New] \in Contents
    BY <1>2, Rewritten
  <2>2. /\ archive' = [b \in Archives |-> archive'[b]]
        /\ archive'[a] = {[c EXCEPT ![p] = New] : c \in archive[a]}
        /\ \A b \in Archives : b # a => archive'[b] = archive[b]
    BY <1>5 DEF BundleTyped, Damage
  <2>3. archive'[a] = {} \/ \E c \in Contents : archive'[a] = {c}
    <3>1. CASE archive[a] = {}
      BY <2>2, <3>1
    <3>2. ASSUME NEW c \in Contents, archive[a] = {c}
          PROVE  archive'[a] = {[c EXCEPT ![p] = New]}
      BY <2>2, <3>2
    <3> QED BY <2>1, <3>1, <3>2 DEF BundleTyped, ArchivesTyped
  <2>4. ArchivesTyped'
    BY <2>2, <2>3 DEF BundleTyped, ArchivesTyped
  <2> QED BY <1>1, <1>5, <2>2, <2>4 DEF BundleTyped, Damage
<1> QED BY <1>3, <1>4, <1>5

LEMMA BundleTypedKept ==
  ASSUME BundleTyped, [BundleNext]_bundleVars
  PROVE  BundleTyped'
<1>1. CASE UNCHANGED bundleVars
  BY <1>1 DEF bundleVars, BundleTyped, ArchivesTyped, RunsTyped
<1>2. CASE BundleNext
  BY <1>2, ArchivingTyped, RestoringTyped, OthersTyped DEF BundleNext
<1> QED BY <1>1, <1>2

LEMMA BundleTypesHold == BundleTyped => BundleTypeOK
<1> SUFFICES ASSUME BundleTyped
             PROVE  BundleTypeOK
  OBVIOUS
<1>1. \A a \in Archives : archive[a] \subseteq Contents /\ Cardinality(archive[a]) <= 1
  BY FS_EmptySet, FS_Singleton DEF BundleTyped, ArchivesTyped
<1>2. \A o \in Operators : run[o].op \in {"rest", "walk", "write", "archived", "load", "extract", "publish"}
  BY RunSorts DEF BundleTyped
<1> QED BY <1>1, <1>2 DEF BundleTyped, BundleTypeOK, Manifests, Scratches, Faults

-----------------------------------------------------------------------------
(* No version is older than the changes so far, so a file that still has   *)
(* the version it was pinned with has had no other since.                  *)
PinsAreKnown ==
  /\ \A p \in Paths : source[p] <= faults.changes + 1
  /\ \A o \in Operators : run[o].op \in {"walk", "write"} =>
       \A p \in Paths : run[o].pinned[p] <= faults.changes + 1

(* A file is packed as it was pinned, and as it was when discovery ended.  *)
PacksAreSeen ==
  \A o \in Operators :
    /\ At(o, "write") =>
         /\ ~ Collide(run[o].pinned)
         /\ \A p \in Paths :
              /\ run[o].pinned[p] # 0 /\ run[o].pinned[p] = source[p] => run[o].seen[p] = run[o].pinned[p]
              /\ run[o].packed[p] # 0 => run[o].packed[p] = run[o].pinned[p] /\ run[o].packed[p] = run[o].seen[p]
    /\ At(o, "archived") =>
         /\ ~ Collide(run[o].packed)
         /\ \A p \in Paths : run[o].packed[p] # 0 => run[o].packed[p] = run[o].seen[p]

Snapshots == PinsAreKnown /\ PacksAreSeen /\ ManifestIsASnapshot

LEMMA NoNewCollision ==
  ASSUME NEW c, NEW d, ~ Collide(d), \A p \in Paths : c[p] # 0 => c[p] = d[p]
  PROVE  ~ Collide(c)
BY DEF Collide, Members

LEMMA InitSnapshots ==
  ASSUME BundleInit
  PROVE  Snapshots
<1>1. \A p \in Paths : source[p] <= faults.changes + 1
  BY DEF BundleInit
<1>2. \A o \in Operators : run[o].op = "rest"
  BY DEF BundleInit, Resting
<1> QED BY <1>1, <1>2 DEF BundleInit, Snapshots, PinsAreKnown, PacksAreSeen, ManifestIsASnapshot, At

(* Runs that archive, with the source as it is.                            *)
LEMMA ArchivingSnapshots ==
  ASSUME BundleTyped, Snapshots, NEW o \in Operators,
         \/ \E a \in Archives : Walk(o, a)
         \/ \E p \in Paths : Pin(o, p) \/ Pack(o, p)
         \/ Discovered(o) \/ PublishArchive(o) \/ PublishManifest(o)
  PROVE  Snapshots'
<1>0. RunsTyped /\ source \in Contents /\ faults \in Faults /\ PinsAreKnown /\ PacksAreSeen /\ ManifestIsASnapshot
  BY DEF BundleTyped, Snapshots
<1>1. Resting \in Runs /\ Resting.op = "rest"
  BY DEF Resting, Runs, Rests
<1>u. UNCHANGED <<source, faults>>
  BY DEF Walk, Pin, Pack, Discovered, PublishArchive, PublishManifest
(* It is enough to look at the run itself.                                 *)
<1>2. ASSUME \A q \in Operators : q # o => run'[q] = run[q],
             run'[o].op \in {"walk", "write"} =>
               \A p \in Paths : run'[o].pinned[p] <= faults.changes + 1,
             run'[o].op = "write" =>
               /\ ~ Collide(run'[o].pinned)
               /\ \A p \in Paths :
                    /\ run'[o].pinned[p] # 0 /\ run'[o].pinned[p] = source[p] => run'[o].seen[p] = run'[o].pinned[p]
                    /\ run'[o].packed[p] # 0 => run'[o].packed[p] = run'[o].pinned[p] /\ run'[o].packed[p] = run'[o].seen[p],
             run'[o].op = "archived" =>
               /\ ~ Collide(run'[o].packed)
               /\ \A p \in Paths : run'[o].packed[p] # 0 => run'[o].packed[p] = run'[o].seen[p],
             manifest' = manifest
      PROVE  Snapshots'
  <2>1. PinsAreKnown'
    BY <1>0, <1>u, <1>2 DEF PinsAreKnown
  <2>2. PacksAreSeen'
    BY <1>0, <1>u, <1>2 DEF PacksAreSeen, At, Collide, Members
  <2>3. ManifestIsASnapshot'
    BY <1>0, <1>2 DEF ManifestIsASnapshot, Members, Collide
  <2> QED BY <2>1, <2>2, <2>3 DEF Snapshots
<1>3. CASE Fails(o) /\ manifest' = manifest
  BY <1>0, <1>1, <1>2, <1>3, RunGoes DEF Fails
<1>4. ASSUME NEW a \in Archives, Walk(o, a)
      PROVE  Snapshots'
  <2> DEFINE what == [op |-> "walk", to |-> a, left |-> Members(source), pinned |-> Missing]
  <2>1. what \in Runs /\ what.op = "walk" /\ \A p \in Paths : what.pinned[p] = 0
    BY Nowhere DEF Runs, Walks, Members
  <2>2. Goes(o, what) /\ manifest' = manifest
    BY <1>4 DEF Walk
  <2>3. run'[o] = what /\ \A q \in Operators : q # o => run'[q] = run[q]
    <3> HIDE DEF what
    <3> QED BY <1>0, <2>1, <2>2, RunGoes
  <2>4. 0 <= faults.changes + 1
    BY <1>0, BundleAssumption DEF BundleAssumption, Faults
  <2> HIDE DEF what
  <2> QED BY <1>2, <2>1, <2>2, <2>3, <2>4
<1>5. ASSUME NEW p \in Paths, Pin(o, p)
      PROVE  Snapshots'
  <2> DEFINE what == [run[o] EXCEPT !.left = @ \ {p}, !.pinned[p] = source[p]]
  <2>0. run[o] \in Walks /\ run[o].op = "walk"
    BY <1>0, <1>5, RunSorts DEF Pin, At
  <2>1. /\ what \in Runs /\ what.op = "walk" /\ what.pinned[p] = source[p]
        /\ \A q \in Paths : q # p => what.pinned[q] = run[o].pinned[q]
    <3>1. run[o].pinned \in Contents /\ source[p] \in Versions
      BY <1>0, <2>0 DEF Walks, Contents
    <3>2. what.pinned = [run[o].pinned EXCEPT ![p] = source[p]]
      BY <2>0 DEF Walks
    <3>3. what \in Runs
      BY <2>0, <3>1, <3>2, Rewritten DEF Walks, Runs
    <3>4. what.op = "walk"
      BY <2>0 DEF Walks
    <3> HIDE DEF what
    <3> QED BY <3>1, <3>2, <3>3, <3>4, Rewritten
  <2>2. manifest' = manifest /\ (Fails(o) \/ Goes(o, what))
    BY <1>5 DEF Pin
  <2> HIDE DEF what
  <2>3. CASE Goes(o, what)
    <3>1. run'[o] = what /\ \A q \in Operators : q # o => run'[q] = run[q]
      BY <1>0, <2>1, <2>3, RunGoes
    <3>2. \A q \in Paths : what.pinned[q] <= faults.changes + 1
      BY <1>0, <2>0, <2>1 DEF PinsAreKnown
    <3> QED BY <1>2, <2>1, <2>2, <3>1, <3>2
  <2> QED BY <1>3, <2>2, <2>3
<1>6. ASSUME NEW p \in Paths, Pack(o, p)
      PROVE  Snapshots'
  <2> DEFINE what == [run[o] EXCEPT !.left = @ \ {p}, !.packed[p] = source[p]]
  <2>0. run[o] \in Writes /\ run[o].op = "write" /\ At(o, "write")
    BY <1>0, <1>6, RunSorts DEF Pack, At
  <2>1. /\ what \in Runs /\ what.op = "write" /\ what.pinned = run[o].pinned /\ what.seen = run[o].seen
        /\ what.packed[p] = source[p]
        /\ \A q \in Paths : q # p => what.packed[q] = run[o].packed[q]
    <3>1. run[o].packed \in Contents /\ source[p] \in Versions
      BY <1>0, <2>0 DEF Writes, Contents
    <3>2. what.packed = [run[o].packed EXCEPT ![p] = source[p]]
      BY <2>0 DEF Writes
    <3>3. what \in Runs
      BY <2>0, <3>1, <3>2, Rewritten DEF Writes, Runs
    <3>4. what.op = "write" /\ what.pinned = run[o].pinned /\ what.seen = run[o].seen
      BY <2>0 DEF Writes
    <3> HIDE DEF what
    <3> QED BY <3>1, <3>2, <3>3, <3>4, Rewritten
  <2>2. manifest' = manifest /\ (Fails(o) \/ (Goes(o, what) /\ source[p] = run[o].pinned[p]))
    BY <1>6 DEF Pack
  <2> HIDE DEF what
  <2>3. CASE Goes(o, what) /\ source[p] = run[o].pinned[p]
    <3>1. run'[o] = what /\ \A q \in Operators : q # o => run'[q] = run[q]
      BY <1>0, <2>1, <2>3, RunGoes
    <3>2. \A q \in Paths : what.pinned[q] <= faults.changes + 1
      BY <1>0, <2>0, <2>1 DEF PinsAreKnown
    <3>3. /\ ~ Collide(what.pinned)
          /\ \A q \in Paths :
               /\ what.pinned[q] # 0 /\ what.pinned[q] = source[q] => what.seen[q] = what.pinned[q]
               /\ what.packed[q] # 0 => what.packed[q] = what.pinned[q] /\ what.packed[q] = what.seen[q]
      BY <1>0, <2>0, <2>1, <2>3 DEF PacksAreSeen
    <3> QED BY <1>2, <2>1, <2>2, <3>1, <3>2, <3>3
  <2> QED BY <1>3, <2>2, <2>3
<1>7. CASE Discovered(o)
  <2> DEFINE what == [op |-> "write", to |-> run[o].to, left |-> Members(run[o].pinned),
                      pinned |-> run[o].pinned, packed |-> Missing, seen |-> source]
  <2>0. run[o] \in Walks /\ run[o].op = "walk"
    BY <1>0, <1>7, RunSorts DEF Discovered, At
  <2>1. /\ what \in Runs /\ what.op = "write" /\ what.pinned = run[o].pinned /\ what.seen = source
        /\ \A q \in Paths : what.packed[q] = 0
    BY <1>0, <2>0, Nowhere DEF Walks, Writes, Runs, Members
  <2>2. manifest' = manifest /\ (Fails(o) \/ (Goes(o, what) /\ ~ Collide(run[o].pinned)))
    BY <1>7 DEF Discovered
  <2> HIDE DEF what
  <2>3. CASE Goes(o, what) /\ ~ Collide(run[o].pinned)
    <3>1. run'[o] = what /\ \A q \in Operators : q # o => run'[q] = run[q]
      BY <1>0, <2>1, <2>3, RunGoes
    <3>2. \A q \in Paths : what.pinned[q] <= faults.changes + 1
      BY <1>0, <2>0, <2>1 DEF PinsAreKnown
    <3>3. ~ Collide(what.pinned)
      BY <2>1, <2>3
    <3> QED BY <1>2, <2>1, <2>2, <3>1, <3>2, <3>3
  <2> QED BY <1>3, <2>2, <2>3
<1>8. CASE PublishArchive(o)
  <2> DEFINE what == [run[o] EXCEPT !.op = "archived"]
  <2>0. run[o] \in Writes /\ run[o].op = "write" /\ At(o, "write")
    BY <1>0, <1>8, RunSorts DEF PublishArchive, At
  <2>1. /\ what \in Runs /\ what.op = "archived" /\ what.packed = run[o].packed /\ what.seen = run[o].seen
    BY <2>0 DEF Writes, Archiveds, Runs
  <2>2. manifest' = manifest /\ (Fails(o) \/ Goes(o, what))
    BY <1>8 DEF PublishArchive
  <2> HIDE DEF what
  <2>3. CASE Goes(o, what)
    <3>1. run'[o] = what /\ \A q \in Operators : q # o => run'[q] = run[q]
      BY <1>0, <2>1, <2>3, RunGoes
    <3>2. /\ ~ Collide(run[o].pinned)
          /\ \A q \in Paths : run[o].packed[q] # 0 =>
               run[o].packed[q] = run[o].pinned[q] /\ run[o].packed[q] = run[o].seen[q]
      BY <1>0, <2>0 DEF PacksAreSeen
    <3>3. ~ Collide(run[o].packed)
      BY <3>2, NoNewCollision
    <3> QED BY <1>2, <2>1, <2>2, <3>1, <3>2, <3>3
  <2> QED BY <1>3, <2>2, <2>3
<1>9. CASE PublishManifest(o)
  <2>0. run[o] \in Archiveds /\ At(o, "archived")
    BY <1>0, <1>9, RunSorts DEF PublishManifest
  <2>1. Manifest(o).entries = run[o].packed /\ Manifest(o).seen = run[o].seen
    BY DEF Manifest
  <2>2. /\ ~ Collide(run[o].packed)
        /\ \A p \in Paths : run[o].packed[p] # 0 => run[o].packed[p] = run[o].seen[p]
    BY <1>0, <2>0 DEF PacksAreSeen
  <2>3. ManifestIsASnapshot'
    <3>1. CASE manifest' = manifest
      BY <1>0, <3>1 DEF ManifestIsASnapshot, Members, Collide
    <3>2. CASE manifest' = {Manifest(o)}
      BY <2>1, <2>2, <3>2 DEF ManifestIsASnapshot, Members, Collide
    <3> QED BY <1>9, <3>1, <3>2 DEF PublishManifest
  <2>4. run'[o] = Resting /\ \A q \in Operators : q # o => run'[q] = run[q]
    BY <1>0, <1>1, <1>9, RunGoes DEF PublishManifest, Fails
  <2>5. PinsAreKnown'
    BY <1>0, <1>1, <1>u, <2>4 DEF PinsAreKnown
  <2>6. PacksAreSeen'
    BY <1>0, <1>1, <1>u, <2>4 DEF PacksAreSeen, At, Collide, Members
  <2> QED BY <2>3, <2>5, <2>6 DEF Snapshots
<1> QED BY <1>4, <1>5, <1>6, <1>7, <1>8, <1>9

(* A file that changes gets a version of its own.                          *)
LEMMA ChangingSnapshots ==
  ASSUME BundleTyped, Snapshots, NEW p \in Paths, ChangeSource(p)
  PROVE  Snapshots'
<1>0. /\ source \in Contents /\ faults \in Faults /\ PinsAreKnown /\ PacksAreSeen /\ ManifestIsASnapshot
      /\ RunsTyped /\ faults.changes \in Nat
  BY BundleAssumption DEF BundleAssumption, BundleTyped, Snapshots, Faults
<1>1. run' = run /\ manifest' = manifest /\ faults'.changes = faults.changes + 1
  BY <1>0 DEF ChangeSource, Changes, Faults
<1>2. /\ source'[p] = 0 \/ source'[p] = faults.changes + 2
      /\ \A q \in Paths : q # p => source'[q] = source[q]
  BY <1>0, NewVersion, Rewritten DEF ChangeSource, Changes
<1>3. \A q \in Paths : source[q] \in Nat
  BY <1>0, BundleAssumption DEF BundleAssumption, Contents, Versions
<1>4. \A o \in Operators : run[o].op \in {"walk", "write"} => \A q \in Paths : run[o].pinned[q] \in Nat
  <2> SUFFICES ASSUME NEW o \in Operators, run[o].op \in {"walk", "write"}, NEW q \in Paths
               PROVE  run[o].pinned[q] \in Nat
    OBVIOUS
  <2>1. run[o].pinned \in Contents
    BY <1>0, RunSorts DEF At, Walks, Writes
  <2> QED BY <2>1, BundleAssumption DEF BundleAssumption, Contents, Versions
<1>5. PinsAreKnown'
  BY <1>0, <1>1, <1>2, <1>3, <1>4 DEF PinsAreKnown
<1>6. PacksAreSeen'
  <2> SUFFICES ASSUME NEW o \in Operators, At(o, "write"), NEW q \in Paths,
                      run[o].pinned[q] # 0, run[o].pinned[q] = source'[q]
               PROVE  run[o].seen[q] = run[o].pinned[q]
    BY <1>0, <1>1 DEF PacksAreSeen, At, Collide, Members
  <2>1. run[o].pinned[q] <= faults.changes + 1 /\ run[o].pinned[q] \in Nat
    BY <1>0, <1>4 DEF PinsAreKnown, At
  <2>2. q # p
    BY <1>0, <1>2, <2>1
  <2> QED BY <1>0, <1>2, <2>2 DEF PacksAreSeen
<1>7. ManifestIsASnapshot'
  BY <1>0, <1>1 DEF ManifestIsASnapshot, Members, Collide
<1> QED BY <1>5, <1>6, <1>7 DEF Snapshots

(* All the others leave the source and the archiving runs alone.           *)
LEMMA RestoringSnapshots ==
  ASSUME BundleTyped, Snapshots, UNCHANGED <<source, manifest>>,
         faults'.changes \in {faults.changes, faults.changes + 1},
         \A o \in Operators : run'[o] = run[o] \/ run'[o].op \notin {"walk", "write", "archived"}
  PROVE  Snapshots'
<1>0. PinsAreKnown /\ PacksAreSeen /\ ManifestIsASnapshot /\ faults.changes \in Nat /\ RunsTyped
  BY BundleAssumption DEF BundleAssumption, BundleTyped, Snapshots, Faults
<1>1. /\ \A q \in Paths : source[q] \in Nat
      /\ \A o \in Operators : run[o].op \in {"walk", "write"} => \A q \in Paths : run[o].pinned[q] \in Nat
  <2>1. \A c \in Contents, q \in Paths : c[q] \in Nat
    BY BundleAssumption DEF BundleAssumption, Contents, Versions
  <2>2. \A o \in Operators : run[o].op \in {"walk", "write"} => run[o].pinned \in Contents
    BY <1>0, RunSorts DEF At, Walks, Writes
  <2> QED BY <2>1, <2>2 DEF BundleTyped
<1>2. PinsAreKnown'
  <2>1. \A v, k \in Nat : v <= k + 1 => v <= k + 1 + 1
    OBVIOUS
  <2>2. faults'.changes = faults.changes \/ faults'.changes = faults.changes + 1
    OBVIOUS
  <2> QED BY <1>0, <1>1, <2>1, <2>2 DEF PinsAreKnown
<1>3. PacksAreSeen'
  BY <1>0 DEF PacksAreSeen, At, Collide, Members
<1>4. ManifestIsASnapshot'
  BY <1>0 DEF ManifestIsASnapshot, Members, Collide
<1> QED BY <1>2, <1>3, <1>4 DEF Snapshots

(* What the runs that restore do to each other and to what they share.     *)
LEMMA RestoringGoes ==
  ASSUME BundleTyped, NEW o \in Operators,
         \/ \E p \in Paths : Place(o, p)
         \/ Validate(o) \/ Stage(o) \/ Load(o) \/ Extract(o) \/ PlaceFails(o) \/ RestoreEnds(o)
         \/ Kill(o)
  PROVE  /\ UNCHANGED <<source, archive, manifest>> /\ faults'.changes = faults.changes
         /\ \A q \in Operators : q # o => run'[q] = run[q]
         /\ run'[o] = run[o] \/ run'[o].op \in {"rest", "load", "extract", "publish"}
<1>0. RunsTyped /\ faults \in Faults
  BY DEF BundleTyped
<1>1. UNCHANGED <<source, archive, manifest>>
  BY DEF Place, Validate, Stage, Load, Extract, PlaceFails, RestoreEnds, Kill
<1>2. faults'.changes = faults.changes
  <2>1. CASE CleansUp(o)
    BY <2>1, Cleaned
  <2>2. CASE ~ CleansUp(o)
    BY <1>0, <2>2 DEF Place, Validate, Stage, Load, Extract, PlaceFails, RestoreEnds, Kill, Faults
  <2> QED BY <2>1, <2>2
<1>3. \/ UNCHANGED run \/ Goes(o, Resting)
      \/ Goes(o, [op |-> "load", staged |-> Missing])
      \/ Goes(o, [op |-> "extract", from |-> manifest, staged |-> Missing])
      \/ \E m \in run[o].from : Goes(o, [op |-> "publish", from |-> {m}, staged |-> m.entries,
                                         left |-> Members(m.entries), put |-> {}])
      \/ At(o, "publish") /\ \E p \in Paths : Goes(o, [run[o] EXCEPT !.left = @ \ {p}, !.put = @ \cup {p}])
  BY DEF Place, Validate, Stage, Load, Extract, PlaceFails, RestoreEnds, Kill, CleansUp, Fails
<1>4. \E what : run' = [run EXCEPT ![o] = what] \/ run' = run
  BY <1>3 DEF Goes
<1>5. \A q \in Operators : q # o => run'[q] = run[q]
  BY <1>0, <1>4 DEF RunsTyped
<1>6. run'[o] = run[o] \/ run'[o].op \in {"rest", "load", "extract", "publish"}
  <2>1. \A what : Goes(o, what) => run'[o] = what
    BY <1>0 DEF Goes, RunsTyped
  <2>2. CASE At(o, "publish") /\ \E p \in Paths : Goes(o, [run[o] EXCEPT !.left = @ \ {p}, !.put = @ \cup {p}])
    <3>1. PICK p \in Paths : Goes(o, [run[o] EXCEPT !.left = @ \ {p}, !.put = @ \cup {p}])
      BY <2>2
    <3>2. run[o] \in Publishes
      BY <1>0, <2>2, RunSorts
    <3>3. [run[o] EXCEPT !.left = @ \ {p}, !.put = @ \cup {p}].op = "publish"
      BY <3>2 DEF Publishes
    <3> QED BY <2>1, <3>1, <3>3
  <2>3. CASE Goes(o, Resting)
    BY <2>1, <2>3 DEF Resting
  <2>4. CASE Goes(o, [op |-> "load", staged |-> Missing])
    BY <2>1, <2>4
  <2>5. CASE Goes(o, [op |-> "extract", from |-> manifest, staged |-> Missing])
    BY <2>1, <2>5
  <2>6. ASSUME NEW m \in run[o].from, Goes(o, [op |-> "publish", from |-> {m}, staged |-> m.entries,
                                              left |-> Members(m.entries), put |-> {}])
        PROVE  run'[o].op = "publish"
    BY <2>1, <2>6
  <2> QED BY <1>3, <2>2, <2>3, <2>4, <2>5, <2>6
<1> QED BY <1>1, <1>2, <1>5, <1>6

LEMMA SnapshotsKept ==
  ASSUME BundleTyped, Snapshots, [BundleNext]_bundleVars
  PROVE  Snapshots'
<1>1. CASE UNCHANGED bundleVars
  BY <1>1, RestoringSnapshots DEF bundleVars
<1>2. ASSUME NEW o \in Operators,
             \/ \E p \in Paths : Place(o, p)
             \/ Validate(o) \/ Stage(o) \/ Load(o) \/ Extract(o) \/ PlaceFails(o) \/ RestoreEnds(o)
             \/ Kill(o)
      PROVE  Snapshots'
  <2>1. /\ UNCHANGED <<source, archive, manifest>> /\ faults'.changes = faults.changes
        /\ \A q \in Operators : q # o => run'[q] = run[q]
        /\ run'[o] = run[o] \/ run'[o].op \in {"rest", "load", "extract", "publish"}
    BY <1>2, RestoringGoes
  <2> QED BY <2>1, RestoringSnapshots
<1>3. ASSUME NEW p \in Paths, Intrude(p) \/ \E a \in Archives : Damage(a, p)
      PROVE  Snapshots'
  <2>1. UNCHANGED <<source, manifest, run>> /\ faults'.changes = faults.changes + 1
    BY <1>3 DEF Intrude, Damage, Changes, BundleTyped, Faults
  <2> QED BY <2>1, RestoringSnapshots
<1> QED BY <1>1, <1>2, <1>3, ArchivingSnapshots, ChangingSnapshots DEF BundleNext

-----------------------------------------------------------------------------
(* Archives and their manifest.                                            *)
LEMMA MatchedKept ==
  ASSUME BundleTyped, ArchivesAreMatched, [BundleNext]_bundleVars
  PROVE  ArchivesAreMatched'
<1>0. RunsTyped /\ faults \in Faults /\ archive = [a \in Archives |-> archive[a]]
  BY DEF BundleTyped
<1>1. Resting.op = "rest" /\ Resting \in Runs
  BY DEF Resting, Runs, Rests
(* Archives that were there, and what excused them.                        *)
<1>2. ASSUME \A a \in Archives : archive'[a] # {} => archive[a] # {},
             manifest' = manifest, faults.alone \subseteq faults'.alone,
             \A o \in Operators : At(o, "archived") =>
               run'[o] = run[o] \/ run[o].to \in faults'.alone
      PROVE  ArchivesAreMatched'
  BY <1>2 DEF ArchivesAreMatched, At
<1>3. CASE UNCHANGED bundleVars
  BY <1>2, <1>3 DEF bundleVars
<1>4. ASSUME NEW o \in Operators, Discovered(o) \/ \E p \in Paths : Pin(o, p) \/ Pack(o, p)
      PROVE  ArchivesAreMatched'
  <2>1. UNCHANGED <<archive, manifest, faults>> /\ ~ At(o, "archived") /\ \E what : Goes(o, what)
    BY <1>4 DEF Pin, Pack, Discovered, At, Fails
  <2>2. \A q \in Operators : q # o => run'[q] = run[q]
    BY <1>0, <2>1 DEF RunsTyped, Goes
  <2> QED BY <1>2, <2>1, <2>2
<1>5. ASSUME NEW o \in Operators, NEW a \in Archives, Walk(o, a)
      PROVE  ArchivesAreMatched'
  <2>1. UNCHANGED <<archive, manifest, faults>> /\ ~ At(o, "archived") /\ \E what : Goes(o, what)
    BY <1>5 DEF Walk, At
  <2>2. \A q \in Operators : q # o => run'[q] = run[q]
    BY <1>0, <2>1 DEF RunsTyped, Goes
  <2> QED BY <1>2, <2>1, <2>2
<1>6. ASSUME NEW o \in Operators, PublishArchive(o)
      PROVE  ArchivesAreMatched'
  <2>1. run[o] \in Writes /\ ~ At(o, "archived")
    BY <1>0, <1>6, RunSorts DEF PublishArchive, At
  <2>2. CASE Fails(o) /\ UNCHANGED archive
    <3>1. \A q \in Operators : q # o => run'[q] = run[q]
      BY <1>0, <2>2 DEF RunsTyped, Fails, Goes
    <3> QED BY <1>2, <1>6, <2>1, <2>2, <3>1 DEF PublishArchive
  <2>3. CASE archive' = [archive EXCEPT ![run[o].to] = {run[o].packed}] /\ Goes(o, [run[o] EXCEPT !.op = "archived"])
    <3> DEFINE what == [run[o] EXCEPT !.op = "archived"]
    <3>1. what \in Runs /\ what.op = "archived" /\ what.to = run[o].to
      BY <2>1 DEF Writes, Archiveds, Runs
    <3>2. Goes(o, what)
      BY <2>3
    <3> HIDE DEF what
    <3>3. run'[o] = what /\ \A q \in Operators : q # o => run'[q] = run[q]
      BY <1>0, <3>1, <3>2, RunGoes
    <3>4. \A a \in Archives : a # run[o].to => archive'[a] = archive[a]
      BY <1>0, <2>3
    <3>5. UNCHANGED <<manifest, faults>>
      BY <1>6 DEF PublishArchive
    <3> QED BY <2>1, <3>1, <3>3, <3>4, <3>5 DEF ArchivesAreMatched, At
  <2> QED BY <1>6, <2>2, <2>3 DEF PublishArchive
<1>7. ASSUME NEW o \in Operators, PublishManifest(o)
      PROVE  ArchivesAreMatched'
  <2>1. run'[o] = Resting /\ \A q \in Operators : q # o => run'[q] = run[q]
    BY <1>0, <1>1, <1>7, RunGoes DEF PublishManifest, Fails
  <2>2. run[o].to \in Archives
    BY <1>0, <1>7, RunSorts DEF PublishManifest, Archiveds
  <2>3. CASE manifest = {} /\ manifest' = {Manifest(o)} /\ UNCHANGED archive
    <3>1. Manifest(o).of = run[o].to
      BY DEF Manifest
    <3>2. UNCHANGED faults
      BY <1>7 DEF PublishManifest
    <3> QED BY <2>1, <2>3, <3>1, <3>2 DEF ArchivesAreMatched, At
  <2>4. CASE archive' = [archive EXCEPT ![run[o].to] = {}] /\ UNCHANGED manifest
    <3>1. archive'[run[o].to] = {} /\ \A a \in Archives : a # run[o].to => archive'[a] = archive[a]
      BY <1>0, <2>2, <2>4
    <3>2. UNCHANGED faults
      BY <1>7 DEF PublishManifest
    <3> QED BY <2>1, <2>4, <3>1, <3>2 DEF ArchivesAreMatched, At
  <2> QED BY <1>7, <2>3, <2>4 DEF PublishManifest
<1>8. ASSUME NEW o \in Operators,
             \/ \E p \in Paths : Place(o, p)
             \/ Validate(o) \/ Stage(o) \/ Load(o) \/ Extract(o) \/ PlaceFails(o) \/ RestoreEnds(o)
             \/ Kill(o)
      PROVE  ArchivesAreMatched'
  <2>1. /\ UNCHANGED <<source, archive, manifest>>
        /\ \A q \in Operators : q # o => run'[q] = run[q]
    BY <1>8, RestoringGoes
  <2>2. CASE Kill(o)
    <3>1. faults'.alone = IF At(o, "archived") THEN faults.alone \cup {run[o].to} ELSE faults.alone
      BY <1>0, <2>2 DEF Kill, Faults
    <3> QED BY <1>2, <2>1, <3>1
  <2>3. CASE ~ Kill(o)
    <3>1. ~ At(o, "archived")
      BY <1>8, <2>3 DEF Place, Validate, Stage, Load, Extract, PlaceFails, RestoreEnds, At
    <3>2. faults'.alone = faults.alone
      <4>1. CASE CleansUp(o)
        BY <4>1, Cleaned
      <4>2. CASE ~ CleansUp(o)
        BY <1>0, <1>8, <2>3, <4>2 DEF Place, Validate, Stage, Load, Extract, PlaceFails, RestoreEnds, Faults
      <4> QED BY <4>1, <4>2
    <3> QED BY <1>2, <2>1, <3>1, <3>2
  <2> QED BY <2>2, <2>3
<1>9. ASSUME NEW p \in Paths, ChangeSource(p) \/ Intrude(p)
      PROVE  ArchivesAreMatched'
  <2>1. UNCHANGED <<archive, manifest, run>> /\ faults'.alone = faults.alone
    BY <1>0, <1>9 DEF ChangeSource, Intrude, Changes, Faults
  <2> QED BY <1>2, <2>1
<1>10. ASSUME NEW p \in Paths, NEW a \in Archives, Damage(a, p)
       PROVE  ArchivesAreMatched'
  <2>1. UNCHANGED <<manifest, run>> /\ faults'.alone = faults.alone
    BY <1>0, <1>10 DEF Damage, Changes, Faults
  <2>2. \A b \in Archives : archive'[b] # {} => archive[b] # {}
    BY <1>0, <1>10 DEF Damage
  <2> QED BY <1>2, <2>1, <2>2
<1> QED BY <1>3, <1>4, <1>5, <1>6, <1>7, <1>8, <1>9, <1>10 DEF BundleNext

-----------------------------------------------------------------------------
(* A run that has the scratch directory to itself.                         *)
Works(o) == (At(o, "load") /\ o \in scratch.staging) \/ run[o].op \in {"extract", "publish"}

(* One run at most has it, with its staging in it, and there is in it only *)
(* what that run has placed.                                               *)
OneRestores ==
  \A o \in Operators : Works(o) =>
    /\ o \in scratch.staging
    /\ \A q \in Operators : Works(q) => q = o
    /\ run[o].op \in {"load", "extract"} => scratch.files = Missing
    /\ At(o, "extract") => manifest # {} /\ run[o].from = manifest
    /\ At(o, "publish") =>
         /\ \E m \in manifest : run[o].staged = m.entries
         /\ run[o].left \subseteq Members(run[o].staged)
         /\ run[o].put = Members(run[o].staged) \ run[o].left
         /\ \A p \in Paths : scratch.files[p] = IF p \in run[o].put THEN run[o].staged[p] ELSE 0

BundleInv == BundleTyped /\ Snapshots /\ ArchivesAreMatched /\ OneRestores /\ RestoreIsExact /\ StagingsAreKnown

LEMMA InitBundle ==
  ASSUME BundleInit
  PROVE  BundleInv
<1>1. \A o \in Operators : run[o].op = "rest"
  BY DEF BundleInit, Resting
<1>2. scratch.files = Missing /\ scratch.staging = {} /\ \A a \in Archives : archive[a] = {}
  BY DEF BundleInit
<1>3. OneRestores /\ StagingsAreKnown /\ ArchivesAreMatched
  BY <1>1, <1>2 DEF OneRestores, StagingsAreKnown, ArchivesAreMatched, Works, At
<1>4. RestoreIsExact
  BY <1>2 DEF RestoreIsExact, Members, Missing
<1> QED BY <1>3, <1>4, InitBundleTyped, InitSnapshots DEF BundleInv

(* Nobody else: what a step leaves alone of those who restore.             *)
LEMMA OthersRestore ==
  ASSUME BundleTyped, OneRestores, RestoreIsExact, StagingsAreKnown,
         scratch' = scratch \/ (scratch'.files = scratch.files /\ scratch'.staging = scratch.staging),
         manifest # {} => manifest' = manifest, faults.left \subseteq faults'.left,
         \A q \in Operators : run'[q] = run[q]
           \/ /\ run'[q].op \notin {"load", "extract", "publish"}
              /\ run[q].op \notin {"load", "extract", "publish"} \/ q \notin scratch.staging \/ q \in faults'.left
  PROVE  OneRestores' /\ RestoreIsExact' /\ StagingsAreKnown'
<1>1. scratch'.files = scratch.files /\ scratch'.staging = scratch.staging /\ manifest \subseteq manifest'
  OBVIOUS
<1>2. \A q \in Operators : Works(q)' => Works(q) /\ run'[q] = run[q]
  BY <1>1 DEF Works, At
<1>3. OneRestores'
  <2> SUFFICES ASSUME NEW o \in Operators, Works(o)'
               PROVE  /\ o \in scratch.staging
                      /\ \A q \in Operators : Works(q)' => q = o
                      /\ run[o].op \in {"load", "extract"} => scratch.files = Missing
                      /\ At(o, "extract") => manifest' # {} /\ run[o].from = manifest'
                      /\ At(o, "publish") =>
                           /\ \E m \in manifest' : run[o].staged = m.entries
                           /\ run[o].left \subseteq Members(run[o].staged)
                           /\ run[o].put = Members(run[o].staged) \ run[o].left
                           /\ \A p \in Paths : scratch.files[p] = IF p \in run[o].put THEN run[o].staged[p] ELSE 0
    BY <1>1, <1>2 DEF OneRestores, At, Members
  <2> QED BY <1>1, <1>2 DEF OneRestores
<1>4. RestoreIsExact'
  BY <1>1 DEF RestoreIsExact, Members, Missing
<1>5. StagingsAreKnown'
  <2>1. \A q \in Operators : run[q].op \in {"load", "extract", "publish"} \/ q \notin scratch.staging \/ q \in faults.left
    BY DEF StagingsAreKnown
  <2>2. scratch.staging \subseteq Operators
    BY DEF BundleTyped, Scratches
  <2> QED BY <1>1, <2>1, <2>2 DEF StagingsAreKnown
<1> QED BY <1>3, <1>4, <1>5

(* The run at work lets go of the directory, or the directory of it.       *)
LEMMA RestoreStops ==
  ASSUME BundleTyped, OneRestores, StagingsAreKnown, NEW o \in Operators, Works(o),
         manifest' = manifest, run'[o] = Resting, \A q \in Operators : q # o => run'[q] = run[q],
         scratch'.staging \subseteq scratch.staging, faults.left \subseteq faults'.left,
         o \in scratch'.staging => o \in faults'.left
  PROVE  OneRestores' /\ StagingsAreKnown'
<1>1. Resting.op = "rest" /\ scratch.staging \subseteq Operators
  BY DEF Resting, BundleTyped, Scratches
<1>2. \A q \in Operators : ~ Works(q)'
  <2> SUFFICES ASSUME NEW q \in Operators, Works(q)'
               PROVE  FALSE
    OBVIOUS
  <2>1. q # o
    BY <1>1 DEF Works, At
  <2>2. Works(q)
    BY <2>1 DEF Works, At
  <2> QED BY <2>1, <2>2 DEF OneRestores
<1>3. OneRestores'
  BY <1>2 DEF OneRestores
<1>4. StagingsAreKnown'
  BY <1>1 DEF StagingsAreKnown
<1> QED BY <1>3, <1>4

LEMMA RestoresKept ==
  ASSUME BundleTyped, OneRestores, RestoreIsExact, StagingsAreKnown, [BundleNext]_bundleVars
  PROVE  OneRestores' /\ RestoreIsExact' /\ StagingsAreKnown'
<1>0. /\ RunsTyped /\ faults \in Faults /\ scratch \in Scratches /\ scratch.staging \subseteq Operators
      /\ \A m, n \in manifest : m = n
  BY DEF BundleTyped, Scratches
<1>1. Resting.op = "rest" /\ Resting \in Runs
  BY DEF Resting, Runs, Rests
<1>2. CASE UNCHANGED bundleVars
  BY <1>2, OthersRestore DEF bundleVars
<1>3. ASSUME NEW p \in Paths, ChangeSource(p) \/ Intrude(p) \/ \E a \in Archives : Damage(a, p)
      PROVE  OneRestores' /\ RestoreIsExact' /\ StagingsAreKnown'
  <2>1. UNCHANGED <<manifest, run>> /\ faults'.left = faults.left
    BY <1>0, <1>3 DEF ChangeSource, Intrude, Damage, Changes, Faults
  <2>2. scratch' = scratch \/ (scratch'.files = scratch.files /\ scratch'.staging = scratch.staging)
    BY <1>0, <1>3 DEF ChangeSource, Intrude, Damage, Scratches
  <2> QED BY <2>1, <2>2, OthersRestore
<1>4. ASSUME NEW o \in Operators,
             \/ \E a \in Archives : Walk(o, a)
             \/ \E p \in Paths : Pin(o, p) \/ Pack(o, p)
             \/ Discovered(o) \/ PublishArchive(o) \/ PublishManifest(o)
      PROVE  OneRestores' /\ RestoreIsExact' /\ StagingsAreKnown'
  <2>1. UNCHANGED <<scratch, faults>> /\ run[o].op \notin {"load", "extract", "publish"}
        /\ (manifest # {} => manifest' = manifest)
    BY <1>4 DEF Walk, Pin, Pack, Discovered, PublishArchive, PublishManifest, At
  <2>2. \E what : Goes(o, what) /\ what.op \notin {"load", "extract", "publish"}
    <3>1. CASE Fails(o)
      BY <1>1, <3>1 DEF Fails
    <3>2. ASSUME NEW a \in Archives, Walk(o, a)
          PROVE  \E what : Goes(o, what) /\ what.op \notin {"load", "extract", "publish"}
      BY <3>2 DEF Walk
    <3>3. ASSUME NEW p \in Paths, Pin(o, p), ~ Fails(o)
          PROVE  \E what : Goes(o, what) /\ what.op \notin {"load", "extract", "publish"}
      <4>1. run[o] \in Walks /\ Goes(o, [run[o] EXCEPT !.left = @ \ {p}, !.pinned[p] = source[p]])
        BY <1>0, <3>3, RunSorts DEF Pin
      <4>2. [run[o] EXCEPT !.left = @ \ {p}, !.pinned[p] = source[p]].op = "walk"
        BY <4>1 DEF Walks
      <4> QED BY <4>1, <4>2
    <3>4. ASSUME NEW p \in Paths, Pack(o, p), ~ Fails(o)
          PROVE  \E what : Goes(o, what) /\ what.op \notin {"load", "extract", "publish"}
      <4>1. run[o] \in Writes /\ Goes(o, [run[o] EXCEPT !.left = @ \ {p}, !.packed[p] = source[p]])
        BY <1>0, <3>4, RunSorts DEF Pack
      <4>2. [run[o] EXCEPT !.left = @ \ {p}, !.packed[p] = source[p]].op = "write"
        BY <4>1 DEF Writes
      <4> QED BY <4>1, <4>2
    <3>5. CASE Discovered(o) /\ ~ Fails(o)
      BY <3>5 DEF Discovered
    <3>6. CASE PublishArchive(o) /\ ~ Fails(o)
      <4>1. run[o] \in Writes /\ Goes(o, [run[o] EXCEPT !.op = "archived"])
        BY <1>0, <3>6, RunSorts DEF PublishArchive
      <4>2. [run[o] EXCEPT !.op = "archived"].op = "archived"
        BY <4>1 DEF Writes
      <4> QED BY <4>1, <4>2
    <3> QED BY <1>4, <3>1, <3>2, <3>3, <3>4, <3>5, <3>6 DEF PublishManifest
  <2>3. run'[o].op \notin {"load", "extract", "publish"} /\ \A q \in Operators : q # o => run'[q] = run[q]
    BY <1>0, <2>2 DEF RunsTyped, Goes
  <2> QED BY <2>1, <2>3, OthersRestore
<1>5. ASSUME NEW o \in Operators, Kill(o)
      PROVE  OneRestores' /\ RestoreIsExact' /\ StagingsAreKnown'
  <2>1. /\ UNCHANGED <<scratch, manifest>> /\ run'[o] = Resting
        /\ \A q \in Operators : q # o => run'[q] = run[q]
    BY <1>0, <1>1, <1>5, RunGoes DEF Kill, Fails
  <2>2. faults'.left = IF o \in scratch.staging THEN faults.left \cup {o} ELSE faults.left
    BY <1>0, <1>5 DEF Kill, Faults
  <2> QED BY <1>1, <2>1, <2>2, OthersRestore
<1>6. ASSUME NEW o \in Operators, Validate(o)
      PROVE  OneRestores' /\ RestoreIsExact' /\ StagingsAreKnown'
  <2>1. /\ UNCHANGED <<scratch, manifest, faults>> /\ scratch.staging = {}
        /\ Goes(o, [op |-> "load", staged |-> Missing])
    BY <1>6 DEF Validate, Vacant
  <2>2. run'[o].op = "load" /\ \A q \in Operators : q # o => run'[q] = run[q]
    BY <1>0, <2>1 DEF RunsTyped, Goes
  <2>3. \A q \in Operators : ~ Works(q)'
    BY <2>1, <2>2 DEF OneRestores, Works, At
  <2>4. OneRestores'
    BY <2>3 DEF OneRestores
  <2>5. RestoreIsExact' /\ StagingsAreKnown'
    BY <2>1 DEF RestoreIsExact, StagingsAreKnown, Members, Missing
  <2> QED BY <2>4, <2>5
<1>7. ASSUME NEW o \in Operators, Stage(o)
      PROVE  OneRestores' /\ RestoreIsExact' /\ StagingsAreKnown'
  <2>1. /\ At(o, "load") /\ o \notin scratch.staging /\ manifest' = manifest
        /\ scratch'.staging = scratch.staging \cup {o} /\ scratch'.files = scratch.files
    BY <1>0, <1>7 DEF Stage, Scratches
  <2>2. RestoreIsExact'
    BY <2>1 DEF RestoreIsExact, Members, Missing
  <2>3. CASE OnlyMine(o)
    <3>1. UNCHANGED <<run, faults>> /\ scratch.staging = {} /\ scratch.files = Missing
      BY <1>7, <2>1, <2>3 DEF Stage, OnlyMine
    <3>2. \A q \in Operators : ~ Works(q)
      BY <3>1 DEF OneRestores
    <3>3. \A q \in Operators : Works(q)' => q = o
      BY <2>1, <3>1, <3>2 DEF Works, At
    <3>4. OneRestores'
      BY <2>1, <3>1, <3>3 DEF OneRestores, At
    <3>5. StagingsAreKnown'
      BY <2>1, <3>1 DEF StagingsAreKnown, At
    <3> QED BY <2>2, <3>4, <3>5
  <2>4. CASE ~ OnlyMine(o)
    <3>1. /\ run'[o] = Resting /\ \A q \in Operators : q # o => run'[q] = run[q]
          /\ faults'.left = faults.left \cup {o}
      BY <1>0, <1>1, <1>7, <2>4, RunGoes DEF Stage, Fails, Faults
    <3>2. \A q \in Operators : Works(q)' => Works(q) /\ run'[q] = run[q]
      BY <1>1, <2>1, <3>1 DEF Works, At
    <3>3. OneRestores'
      <4> SUFFICES ASSUME NEW q \in Operators, Works(q)'
                   PROVE  /\ q \in scratch'.staging
                          /\ \A r \in Operators : Works(r)' => r = q
                          /\ run[q].op \in {"load", "extract"} => scratch.files = Missing
                          /\ At(q, "extract") => manifest # {} /\ run[q].from = manifest
                          /\ At(q, "publish") =>
                               /\ \E m \in manifest : run[q].staged = m.entries
                               /\ run[q].left \subseteq Members(run[q].staged)
                               /\ run[q].put = Members(run[q].staged) \ run[q].left
                               /\ \A p \in Paths : scratch.files[p] = IF p \in run[q].put THEN run[q].staged[p] ELSE 0
        BY <2>1, <3>2 DEF OneRestores, At, Members
      <4> QED BY <2>1, <3>2 DEF OneRestores
    <3>4. StagingsAreKnown'
      BY <1>0, <2>1, <3>1 DEF StagingsAreKnown
    <3> QED BY <2>2, <3>3, <3>4
  <2> QED BY <2>3, <2>4
<1>8. ASSUME NEW o \in Operators, CleansUp(o), Works(o), manifest' = manifest
      PROVE  OneRestores' /\ RestoreIsExact' /\ StagingsAreKnown'
  <2>1. /\ scratch'.files = scratch.files
        /\ \/ scratch'.staging = {} /\ scratch.files = Missing /\ faults'.left = faults.left
           \/ scratch'.staging = scratch.staging /\ faults'.left = faults.left \cup {o}
    BY <1>8, Cleaned
  <2>2. run'[o] = Resting /\ \A q \in Operators : q # o => run'[q] = run[q]
    BY <1>0, <1>1, <1>8, RunGoes DEF CleansUp, Fails
  <2>3. OneRestores' /\ StagingsAreKnown'
    BY <1>8, <2>1, <2>2, RestoreStops
  <2>4. RestoreIsExact'
    BY <1>8, <2>1 DEF RestoreIsExact, Members, Missing
  <2> QED BY <2>3, <2>4
<1>9. ASSUME NEW o \in Operators, Load(o)
      PROVE  OneRestores' /\ RestoreIsExact' /\ StagingsAreKnown'
  <2>1. Works(o) /\ manifest' = manifest /\ At(o, "load")
    BY <1>9 DEF Load, Works
  <2>2. CASE \E m \in manifest : Accepted(m)
    <3>1. /\ Goes(o, [op |-> "extract", from |-> manifest, staged |-> Missing])
          /\ UNCHANGED <<scratch, faults>> /\ manifest # {}
      BY <1>9, <2>2 DEF Load
    <3>2. /\ run'[o].op = "extract" /\ run'[o].from = manifest
          /\ \A q \in Operators : q # o => run'[q] = run[q]
      BY <1>0, <3>1 DEF RunsTyped, Goes
    <3>3. /\ \A q \in Operators : Works(q)' => q = o
          /\ o \in scratch.staging /\ scratch.files = Missing
      BY <2>1, <3>1, <3>2 DEF OneRestores, Works, At
    <3>4. OneRestores'
      BY <2>1, <3>1, <3>2, <3>3 DEF OneRestores, At
    <3>5. RestoreIsExact'
      BY <2>1, <3>1 DEF RestoreIsExact, Members, Missing
    <3>6. StagingsAreKnown'
      BY <1>0, <2>1, <3>1, <3>2 DEF StagingsAreKnown
    <3> QED BY <3>4, <3>5, <3>6
  <2> QED BY <1>8, <1>9, <2>1, <2>2 DEF Load
<1>10. ASSUME NEW o \in Operators, Extract(o)
       PROVE  OneRestores' /\ RestoreIsExact' /\ StagingsAreKnown'
  <2>1. Works(o) /\ manifest' = manifest /\ At(o, "extract")
    BY <1>10 DEF Extract, Works, At
  <2>2. CASE \E m \in run[o].from : Unchanged(m)
    <3>1. PICK m \in run[o].from : Goes(o, [op |-> "publish", from |-> {m}, staged |-> m.entries,
                                           left |-> Members(m.entries), put |-> {}])
      BY <1>10, <2>2 DEF Extract
    <3>2. UNCHANGED <<scratch, faults>>
      BY <1>10, <2>2 DEF Extract
    <3>3. /\ run'[o].op = "publish" /\ run'[o].staged = m.entries /\ run'[o].left = Members(m.entries)
          /\ run'[o].put = {} /\ \A q \in Operators : q # o => run'[q] = run[q]
      BY <1>0, <3>1 DEF RunsTyped, Goes
    <3>4. /\ \A q \in Operators : Works(q)' => q = o
          /\ o \in scratch.staging /\ scratch.files = Missing /\ m \in manifest
      BY <2>1, <3>2, <3>3 DEF OneRestores, Works, At
    <3>5. \A p \in Paths : scratch.files[p] = 0
      BY <3>4, Nowhere
    <3>6. OneRestores'
      BY <2>1, <3>2, <3>3, <3>4, <3>5 DEF OneRestores, At, Members
    <3>7. RestoreIsExact'
      BY <2>1, <3>2 DEF RestoreIsExact, Members, Missing
    <3>8. StagingsAreKnown'
      BY <1>0, <2>1, <3>2, <3>3 DEF StagingsAreKnown
    <3> QED BY <3>6, <3>7, <3>8
  <2> QED BY <1>8, <1>10, <2>1, <2>2 DEF Extract
<1>11. ASSUME NEW o \in Operators, NEW p \in Paths, Place(o, p)
       PROVE  OneRestores' /\ RestoreIsExact' /\ StagingsAreKnown'
  <2>1. /\ Works(o) /\ UNCHANGED <<manifest, faults>> /\ At(o, "publish") /\ p \in run[o].left
        /\ run[o] \in Publishes /\ o \in scratch.staging
    BY <1>0, <1>11, RunSorts DEF Place, Works, At, OneRestores
  <2>2. PICK m \in manifest : run[o].staged = m.entries
    BY <2>1 DEF OneRestores
  <2>3. /\ run[o].left \subseteq Members(run[o].staged)
        /\ run[o].put = Members(run[o].staged) \ run[o].left
        /\ \A q \in Paths : scratch.files[q] = IF q \in run[o].put THEN run[o].staged[q] ELSE 0
    BY <2>1 DEF OneRestores
  <2>4. /\ scratch'.files[p] = run[o].staged[p] /\ \A q \in Paths : q # p => scratch'.files[q] = scratch.files[q]
        /\ scratch'.staging = scratch.staging
    <3>1. scratch'.files = [scratch.files EXCEPT ![p] = run[o].staged[p]] /\ scratch'.staging = scratch.staging
      BY <1>0, <1>11 DEF Place, Scratches
    <3>2. scratch.files \in Contents /\ run[o].staged[p] \in Versions
      BY <1>0, <2>1 DEF Scratches, Publishes, Contents
    <3> QED BY <3>1, <3>2, Rewritten
  <2>5. /\ run'[o].op = "publish" /\ run'[o].staged = run[o].staged /\ run'[o].left = run[o].left \ {p}
        /\ run'[o].put = run[o].put \cup {p} /\ \A q \in Operators : q # o => run'[q] = run[q]
    <3> DEFINE what == [run[o] EXCEPT !.left = @ \ {p}, !.put = @ \cup {p}]
    <3>1. /\ what.op = "publish" /\ what.staged = run[o].staged /\ what.left = run[o].left \ {p}
          /\ what.put = run[o].put \cup {p}
      BY <2>1 DEF Publishes
    <3>2. run' = [run EXCEPT ![o] = what]
      BY <1>11 DEF Place, Goes
    <3> HIDE DEF what
    <3> QED BY <1>0, <3>1, <3>2 DEF RunsTyped
  <2>6. \A q \in Operators : Works(q)' => q = o
    BY <2>1, <2>4, <2>5 DEF OneRestores, Works, At
  <2>7. OneRestores'
    <3>1. /\ run'[o].left \subseteq Members(run[o].staged)
          /\ run'[o].put = Members(run[o].staged) \ run'[o].left
          /\ \A q \in Paths : scratch'.files[q] = IF q \in run'[o].put THEN run[o].staged[q] ELSE 0
      BY <2>1, <2>3, <2>4, <2>5
    <3> QED BY <2>1, <2>2, <2>4, <2>5, <2>6, <3>1 DEF OneRestores, At, Members
  <2>8. RestoreIsExact'
    BY <2>1, <2>2, <2>4 DEF RestoreIsExact, Members
  <2>9. StagingsAreKnown'
    BY <1>0, <2>1, <2>4, <2>5 DEF StagingsAreKnown
  <2> QED BY <2>7, <2>8, <2>9
<1>12. ASSUME NEW o \in Operators, PlaceFails(o)
       PROVE  OneRestores' /\ RestoreIsExact' /\ StagingsAreKnown'
  <2> DEFINE back == [p \in Paths |-> IF p \in run[o].put THEN 0 ELSE scratch.files[p]]
  <2>1. /\ Works(o) /\ manifest' = manifest /\ o \in scratch.staging
    BY <1>12 DEF PlaceFails, Works, At, OneRestores
  <2>2. /\ scratch'.files = back
        /\ \/ scratch'.staging = {} /\ back = Missing /\ faults'.left = faults.left
           \/ scratch'.staging = scratch.staging /\ faults'.left = faults.left \cup {o}
    BY <1>0, <1>12 DEF PlaceFails, Scratches, Faults
  <2>3. run'[o] = Resting /\ \A q \in Operators : q # o => run'[q] = run[q]
    BY <1>0, <1>1, <1>12, RunGoes DEF PlaceFails, Fails
  <2>4. OneRestores' /\ StagingsAreKnown'
    BY <2>1, <2>2, <2>3, RestoreStops
  <2>5. RestoreIsExact'
    BY <2>1, <2>2 DEF RestoreIsExact, Members, Missing
  <2> QED BY <2>4, <2>5
<1>13. ASSUME NEW o \in Operators, RestoreEnds(o)
       PROVE  OneRestores' /\ RestoreIsExact' /\ StagingsAreKnown'
  <2>1. /\ Works(o) /\ UNCHANGED <<manifest, faults>> /\ At(o, "publish") /\ run[o].left = {}
        /\ run[o] \in Publishes
    BY <1>0, <1>13, RunSorts DEF RestoreEnds, Works, At
  <2>2. scratch'.files = scratch.files /\ scratch'.staging = scratch.staging \ {o}
    BY <1>0, <1>13 DEF RestoreEnds, Scratches
  <2>3. run'[o] = Resting /\ \A q \in Operators : q # o => run'[q] = run[q]
    BY <1>0, <1>1, <1>13, RunGoes DEF RestoreEnds, Fails
  <2>4. OneRestores' /\ StagingsAreKnown'
    BY <2>1, <2>2, <2>3, RestoreStops
  <2>5. \E m \in manifest : scratch.files = m.entries
    <3>1. PICK m \in manifest : run[o].staged = m.entries
      BY <2>1 DEF OneRestores
    <3>2. \A p \in Paths : scratch.files[p] = run[o].staged[p]
      BY <2>1 DEF OneRestores, Members
    <3>3. scratch.files \in Contents /\ run[o].staged \in Contents
      BY <1>0, <2>1 DEF Scratches, Publishes
    <3>4. scratch.files = run[o].staged
      BY <3>2, <3>3 DEF Contents
    <3> QED BY <3>1, <3>4
  <2>6. RestoreIsExact'
    BY <2>1, <2>2, <2>5 DEF RestoreIsExact, Members
  <2> QED BY <2>4, <2>6
<1> QED BY <1>2, <1>3, <1>4, <1>5, <1>6, <1>7, <1>9, <1>10, <1>11, <1>12, <1>13 DEF BundleNext

LEMMA BundleKept ==
  ASSUME BundleInv, [BundleNext]_bundleVars
  PROVE  BundleInv'
BY BundleTypedKept, SnapshotsKept, MatchedKept, RestoresKept DEF BundleInv

LEMMA BundleSound == BundleInv => BundleTypeOK /\ BundlesAreSound
BY BundleTypesHold DEF BundleInv, BundlesAreSound, Snapshots

(***************************************************************************)
(* FrontDesk                                                               *)
(***************************************************************************)

(* What a request has read and has still to do.                            *)
Desks ==
  [op : {"idle", "export"}]
  \cup [op : {"upload", "logo"}, file : Files]
  \cup [op : {"delete"}, file : Files, gone : SUBSET Files]
  \cup [op : {"swap"}, file : Files \cup {None}, previous : Files \cup {None}]
  \cup [op : {"clear"}, previous : Files \cup {None}]
  \cup [op : {"purge"}, left : SUBSET Files, gone : SUBSET Files]
  \cup [op : {"post"}, step : {"checked", "posted", "logged"}]

HandsTyped == hand \in [Requests -> Desks]

(* The names a request holds: of a file it has written, of the logo it has *)
(* read, of documents it has read, and of those it has removed.            *)
OwnOf(held)  == IF held.op \in {"upload", "logo", "swap"} THEN {held.file} \ {None} ELSE {}
PrevOf(held) == IF held.op \in {"swap", "clear"} THEN {held.previous} \ {None} ELSE {}
DocsOf(held) == IF held.op = "delete" THEN {held.file}
                ELSE IF held.op = "purge" THEN held.left \cup held.gone ELSE {}
GoneOf(held) == IF held.op \in {"delete", "purge"} THEN held.gone ELSE {}

LEMMA HandSorts ==
  ASSUME HandsTyped, NEW r \in Requests
  PROVE  /\ hand[r] \in Desks
         /\ hand[r].op \in {"idle", "export", "upload", "logo", "delete", "swap", "clear", "purge", "post"}
         /\ hand[r].op \in {"upload", "logo"} => hand[r].file \in Files
         /\ Holds(r, "delete") => hand[r] \in [op : {"delete"}, file : Files, gone : SUBSET Files]
         /\ Holds(r, "swap") =>
              hand[r].file \in Files \cup {None} /\ hand[r].previous \in Files \cup {None}
         /\ Holds(r, "clear") => hand[r].previous \in Files \cup {None}
         /\ Holds(r, "purge") => hand[r] \in [op : {"purge"}, left : SUBSET Files, gone : SUBSET Files]
         /\ Holds(r, "post") => hand[r] \in [op : {"post"}, step : {"checked", "posted", "logged"}]
<1>1. hand[r] \in Desks
  BY DEF HandsTyped
<1> QED BY <1>1 DEF Desks, Holds

LEMMA NamesAre ==
  ASSUME HandsTyped, NEW r \in Requests
  PROVE  /\ NamedBy(r) = OwnOf(hand[r]) \cup PrevOf(hand[r]) \cup DocsOf(hand[r])
         /\ Removed(r) = GoneOf(hand[r]) \cap docs
         /\ Strays(r) = OwnOf(hand[r]) \cup (IF Holds(r, "clear") THEN PrevOf(hand[r]) \ {logo} ELSE {})
         /\ OwnOf(hand[r]) \subseteq Files /\ PrevOf(hand[r]) \subseteq Files
         /\ DocsOf(hand[r]) \subseteq Files /\ GoneOf(hand[r]) \subseteq Files
         /\ None \notin Files
<1>0. None \notin Files
  BY DeskAssumption DEF DeskAssumption, None
<1>1. CASE hand[r].op \in {"upload", "logo"}
  BY <1>0, <1>1, HandSorts DEF NamedBy, Removed, Strays, OwnOf, PrevOf, DocsOf, GoneOf, Holds
<1>2. CASE hand[r].op = "delete"
  BY <1>0, <1>2, HandSorts DEF NamedBy, Removed, Strays, OwnOf, PrevOf, DocsOf, GoneOf, Holds
<1>3. CASE hand[r].op = "swap"
  BY <1>0, <1>3, HandSorts DEF NamedBy, Removed, Strays, OwnOf, PrevOf, DocsOf, GoneOf, Holds
<1>4. CASE hand[r].op = "clear"
  BY <1>0, <1>4, HandSorts DEF NamedBy, Removed, Strays, OwnOf, PrevOf, DocsOf, GoneOf, Holds
<1>5. CASE hand[r].op = "purge"
  BY <1>0, <1>5, HandSorts DEF NamedBy, Removed, Strays, OwnOf, PrevOf, DocsOf, GoneOf, Holds
<1>6. CASE hand[r].op \in {"idle", "export", "post"}
  BY <1>0, <1>6, HandSorts DEF NamedBy, Removed, Strays, OwnOf, PrevOf, DocsOf, GoneOf, Holds
<1> QED BY <1>1, <1>2, <1>3, <1>4, <1>5, <1>6, HandSorts

(* One request goes on.                                                    *)
LEMMA Taken ==
  ASSUME HandsTyped, NEW r \in Requests, NEW what \in Desks, Take(r, what)
  PROVE  /\ HandsTyped' /\ hand'[r] = what
         /\ \A s \in Requests : s # r => hand'[s] = hand[s]
BY DEF HandsTyped, Take

LEMMA NothingHeld ==
  /\ Idle \in Desks /\ Idle.op = "idle"
  /\ \A d : d.op \in {"idle", "export", "post"} =>
       OwnOf(d) = {} /\ PrevOf(d) = {} /\ DocsOf(d) = {} /\ GoneOf(d) = {}
<1>1. Idle \in Desks /\ Idle.op = "idle"
  BY DEF Idle, Desks
<1>2. ASSUME NEW d, d.op \in {"idle", "export", "post"}
      PROVE  OwnOf(d) = {} /\ PrevOf(d) = {} /\ DocsOf(d) = {} /\ GoneOf(d) = {}
  BY <1>2 DEF OwnOf, PrevOf, DocsOf, GoneOf
<1> QED BY <1>1, <1>2

Tolls == [stray : SUBSET Files, lost : SUBSET Files, late : SUBSET Files, untold : Nat, deaths : 0 .. MaxDeaths]

DeskTyped ==
  /\ files \subseteq Files /\ docs \subseteq Files /\ logo \in Files \cup {None}
  /\ link \in {None, "active", "expired", "revoked"}
  /\ thread \in [posted : 0 .. MaxMessages, logged : Nat, told : Nat]
  /\ purge \in {"kept", "eligible", "purged"}
  /\ export \in [asked : BOOLEAN, marked : BOOLEAN, copies : Nat]
  /\ HandsTyped /\ toll \in Tolls

(* What the requests that post and those that export still add.            *)
Posted == {r \in Requests : Holds(r, "post") /\ hand[r].step # "checked"}
Unlogged == {r \in Requests : Holds(r, "post") /\ hand[r].step = "posted"}
Exporting == {r \in Requests : Holds(r, "export")}

(* No message is logged before it is posted, and a copy is handed out to a *)
(* request that asked before any was.                                      *)
DeskCounts ==
  /\ MessagesAreTold
  /\ thread.logged + Cardinality(Unlogged) <= thread.posted
  /\ export.copies + Cardinality(Exporting) <= Cardinality(Requests)
  /\ ~ export.marked => export.copies = 0

LEMMA TellingIs ==
  MessagesAreTold <=> thread.posted = thread.told + toll.untold + Cardinality(Posted)
BY DEF MessagesAreTold, Posted

LEMMA InitDesk ==
  ASSUME DeskInit
  PROVE  DeskTyped /\ DeskCounts
<1>0. None \notin Files /\ IsFiniteSet(Requests) /\ 0 \in 0 .. MaxMessages /\ 0 \in 0 .. MaxDeaths
  BY DeskAssumption DEF DeskAssumption, None
<1>1. HandsTyped /\ \A r \in Requests : hand[r] = Idle /\ hand[r].op = "idle"
  BY NothingHeld DEF DeskInit, HandsTyped
<1>2. DeskTyped
  BY <1>0, <1>1 DEF DeskInit, DeskTyped, Tolls, None
<1>3. Posted = {} /\ Unlogged = {} /\ Exporting = {}
  BY <1>1 DEF Posted, Unlogged, Exporting, Holds
<1>4. Cardinality({}) = 0 /\ Cardinality(Requests) \in Nat
  BY <1>0, FS_EmptySet, FS_CardinalityType
<1>5. thread.posted = 0 /\ thread.told = 0 /\ thread.logged = 0 /\ toll.untold = 0
      /\ export.copies = 0
  BY DEF DeskInit
<1>6. DeskCounts
  BY <1>3, <1>4, <1>5, TellingIs DEF DeskCounts
<1> QED BY <1>2, <1>6

(* What each handler leaves the request with.                              *)
LEMMA DeskTypedKept ==
  ASSUME DeskTyped, [DeskNext]_deskVars
  PROVE  DeskTyped'
<1>0. /\ HandsTyped /\ Idle \in Desks /\ None \notin Files /\ MaxMessages \in Nat /\ MaxDeaths \in Nat
      /\ docs \subseteq Files /\ logo \in Files \cup {None}
  BY NothingHeld, DeskAssumption DEF DeskTyped, DeskAssumption, None
<1>1. CASE UNCHANGED deskVars
  BY <1>1 DEF deskVars, DeskTyped, HandsTyped
<1>2. ASSUME NEW r \in Requests, NEW n \in Files, UploadFile(r, n) \/ LogoFile(r, n) \/ DeleteRead(r, n)
      PROVE  DeskTyped'
  <2>1. /\ [op |-> "upload", file |-> n] \in Desks /\ [op |-> "logo", file |-> n] \in Desks
        /\ [op |-> "delete", file |-> n, gone |-> {}] \in Desks
    BY DEF Desks
  <2>2. HandsTyped'
    BY <1>0, <1>2, <2>1, Taken DEF UploadFile, LogoFile, DeleteRead
  <2> QED BY <1>2, <2>2 DEF DeskTyped, UploadFile, LogoFile, DeleteRead
<1>3. ASSUME NEW r \in Requests,
             \/ UploadTooLarge(r) \/ UploadRow(r) \/ DeleteRefused(r) \/ DeleteRow(r) \/ LogoRemove(r)
             \/ PostTell(r) \/ ExportSend(r) \/ PurgeRefused(r) \/ PurgeCommit(r) \/ Die(r)
      PROVE  DeskTyped'
  <2>1. HandsTyped'
    BY <1>0, <1>3, Taken DEF UploadTooLarge, UploadRow, DeleteRefused, DeleteRow, LogoRemove,
       PostTell, ExportSend, PurgeRefused, PurgeCommit, Die
  <2>2. CASE UploadTooLarge(r) \/ DeleteRefused(r) \/ DeleteRow(r) \/ LogoRemove(r) \/ PurgeCommit(r)
    BY <2>1, <2>2 DEF DeskTyped, UploadTooLarge, DeleteRefused, DeleteRow, LogoRemove, PurgeCommit
  <2>3. CASE UploadRow(r)
    <3>1. hand[r].file \in Files
      BY <1>0, <2>3, HandSorts DEF UploadRow, Holds
    <3>2. toll' \in Tolls
      BY <2>3, <3>1 DEF DeskTyped, UploadRow, Tolls
    <3> QED BY <2>1, <2>3, <3>1, <3>2 DEF DeskTyped, UploadRow
  <2>4. CASE PostTell(r)
    <3>1. thread' \in [posted : 0 .. MaxMessages, logged : Nat, told : Nat]
      BY <2>4 DEF DeskTyped, PostTell
    <3> QED BY <2>1, <2>4, <3>1 DEF DeskTyped, PostTell
  <2>5. CASE ExportSend(r)
    <3>1. PICK n \in Nat : n = export.copies + 1
      BY DEF DeskTyped
    <3>2. n \in Nat /\ export' = [export EXCEPT !.marked = TRUE, !.copies = n]
      BY <2>5, <3>1 DEF ExportSend
    <3>3. export' \in [asked : BOOLEAN, marked : BOOLEAN, copies : Nat]
      <4> HIDE <3>1
      <4> QED BY <3>2 DEF DeskTyped
    <3> QED BY <2>1, <2>5, <3>3 DEF DeskTyped, ExportSend
  <2>6. CASE PurgeRefused(r)
    <3>1. toll' \in Tolls
      BY <1>0, <2>6 DEF DeskTyped, PurgeRefused, Tolls
    <3> QED BY <2>1, <2>6, <3>1 DEF DeskTyped, PurgeRefused
  <2>7. CASE Die(r)
    <3>1. Strays(r) \subseteq Files /\ Removed(r) \subseteq Files
      BY <1>0, NamesAre
    <3>2. toll.deaths + 1 \in 0 .. MaxDeaths
      BY <1>0, <2>7 DEF DeskTyped, Tolls, Die
    <3>3. PICK n \in 0 .. 1 : n = IF Holds(r, "post") /\ hand[r].step # "checked" THEN 1 ELSE 0
      OBVIOUS
    <3>4. /\ n \in Nat
          /\ toll' = [toll EXCEPT !.deaths = @ + 1, !.stray = @ \cup Strays(r), !.lost = @ \cup Removed(r),
                                  !.untold = @ + n]
      BY <2>7, <3>3 DEF Die
    <3>5. toll' \in Tolls
      <4> HIDE <3>3
      <4>1. toll.stray \cup Strays(r) \in SUBSET Files /\ toll.lost \cup Removed(r) \in SUBSET Files
            /\ toll.untold + n \in Nat /\ toll \in Tolls
        BY <3>1, <3>4 DEF DeskTyped, Tolls
      <4> QED BY <3>2, <3>4, <4>1 DEF Tolls
    <3> QED BY <2>1, <2>7, <3>5 DEF DeskTyped, Die
  <2> QED BY <1>3, <2>2, <2>3, <2>4, <2>5, <2>6, <2>7
<1>4. ASSUME NEW r \in Requests, DeleteFile(r) \/ PurgeFile(r)
      PROVE  DeskTyped'
  <2>1. HandsTyped'
    <3>1. CASE DeleteFile(r)
      <4>1. hand[r] \in [op : {"delete"}, file : Files, gone : SUBSET Files]
        BY <1>0, <3>1, HandSorts DEF DeleteFile
      <4>2. [hand[r] EXCEPT !.gone = {hand[r].file}] \in Desks
        BY <4>1 DEF Desks
      <4> QED BY <1>0, <3>1, <4>2, Taken DEF DeleteFile
    <3>2. CASE PurgeFile(r)
      <4>1. hand[r] \in [op : {"purge"}, left : SUBSET Files, gone : SUBSET Files]
        BY <1>0, <3>2, HandSorts DEF PurgeFile
      <4>2. PICK n \in hand[r].left : Take(r, [hand[r] EXCEPT !.left = @ \ {n}, !.gone = @ \cup {n}])
        BY <3>2 DEF PurgeFile
      <4>3. [hand[r] EXCEPT !.left = @ \ {n}, !.gone = @ \cup {n}] \in Desks
        BY <4>1 DEF Desks
      <4> QED BY <1>0, <4>2, <4>3, Taken
    <3> QED BY <1>4, <3>1, <3>2
  <2> QED BY <1>4, <2>1 DEF DeskTyped, DeleteFile, PurgeFile
<1>5. ASSUME NEW r \in Requests, LogoRead(r) \/ LogoClear(r) \/ LogoSet(r)
      PROVE  DeskTyped'
  <2>1. CASE LogoRead(r) \/ LogoClear(r)
    <3>1. Holds(r, "logo") => [op |-> "swap", file |-> hand[r].file, previous |-> logo] \in Desks
      BY <1>0, HandSorts DEF Desks, Holds
    <3>2. [op |-> "swap", file |-> None, previous |-> logo] \in Desks
      BY <1>0 DEF Desks
    <3>3. HandsTyped'
      BY <1>0, <2>1, <3>1, <3>2, Taken DEF LogoRead, LogoClear
    <3> QED BY <2>1, <3>3 DEF DeskTyped, LogoRead, LogoClear
  <2>2. CASE LogoSet(r)
    <3>1. hand[r].file \in Files \cup {None} /\ hand[r].previous \in Files \cup {None}
      BY <1>0, <2>2, HandSorts DEF LogoSet
    <3>2. [op |-> "clear", previous |-> hand[r].previous] \in Desks
      BY <3>1 DEF Desks
    <3>3. HandsTyped'
      BY <1>0, <2>2, <3>2, Taken DEF LogoSet
    <3>4. toll' \in Tolls /\ logo' \in Files \cup {None}
      BY <1>0, <2>2, <3>1 DEF DeskTyped, LogoSet, Tolls
    <3> QED BY <2>2, <3>3, <3>4 DEF DeskTyped, LogoSet
  <2> QED BY <1>5, <2>1, <2>2
<1>6. ASSUME NEW r \in Requests, PostCheck(r) \/ PostMessage(r) \/ PostLog(r)
      PROVE  DeskTyped'
  <2>1. thread' \in [posted : 0 .. MaxMessages, logged : Nat, told : Nat]
    BY <1>0, <1>6 DEF DeskTyped, PostCheck, PostMessage, PostLog
  <2>2. HandsTyped'
    <3>1. [op |-> "post", step |-> "checked"] \in Desks
      BY DEF Desks
    <3>2. Holds(r, "post") => /\ [hand[r] EXCEPT !.step = "posted"] \in Desks
                              /\ [hand[r] EXCEPT !.step = "logged"] \in Desks
      <4> SUFFICES ASSUME Holds(r, "post")
                   PROVE  /\ [hand[r] EXCEPT !.step = "posted"] \in Desks
                          /\ [hand[r] EXCEPT !.step = "logged"] \in Desks
        OBVIOUS
      <4>1. hand[r] \in [op : {"post"}, step : {"checked", "posted", "logged"}]
        BY <1>0, HandSorts
      <4> QED BY <4>1 DEF Desks
    <3> QED BY <1>0, <1>6, <3>1, <3>2, Taken DEF PostCheck, PostMessage, PostLog
  <2> QED BY <1>6, <2>1, <2>2 DEF DeskTyped, PostCheck, PostMessage, PostLog
<1>7. ASSUME NEW r \in Requests, LinkCreate(r) \/ LinkRevoke(r) \/ ExportAsk(r)
      PROVE  DeskTyped'
  <2>1. export' \in [asked : BOOLEAN, marked : BOOLEAN, copies : Nat]
    BY <1>7 DEF DeskTyped, LinkCreate, LinkRevoke, ExportAsk
  <2> QED BY <1>7, <2>1 DEF DeskTyped, HandsTyped, LinkCreate, LinkRevoke, ExportAsk
<1>8. ASSUME NEW r \in Requests, ExportRead(r) \/ PurgeRead(r)
      PROVE  DeskTyped'
  <2>1. [op |-> "export"] \in Desks /\ [op |-> "purge", left |-> docs, gone |-> {}] \in Desks
    BY <1>0 DEF Desks
  <2>2. HandsTyped'
    BY <1>0, <1>8, <2>1, Taken DEF ExportRead, PurgeRead
  <2> QED BY <1>8, <2>2 DEF DeskTyped, ExportRead, PurgeRead
<1>9. CASE LinkExpires \/ PurgeDue
  BY <1>9 DEF DeskTyped, HandsTyped, LinkExpires, PurgeDue
<1> QED BY <1>1, <1>2, <1>3, <1>4, <1>5, <1>6, <1>7, <1>8, <1>9
     DEF DeskNext, DocumentsNext, LogoNext, PortalNext, Purge

-----------------------------------------------------------------------------
(* What the requests that restore counts do: one joins or leaves.          *)
LEMMA OneMore ==
  ASSUME NEW S, NEW T, NEW r, IsFiniteSet(S), T = S \cup {r}, r \notin S
  PROVE  IsFiniteSet(T) /\ Cardinality(T) = Cardinality(S) + 1
BY FS_AddElement

LEMMA OneLess ==
  ASSUME NEW S, NEW T, NEW r, IsFiniteSet(S), T = S \ {r}, r \in S
  PROVE  IsFiniteSet(T) /\ Cardinality(T) = Cardinality(S) - 1
BY FS_RemoveElement

LEMMA DeskCountsKept ==
  ASSUME DeskTyped, DeskCounts, [DeskNext]_deskVars
  PROVE  DeskCounts'
<1>0. /\ HandsTyped /\ Idle \in Desks /\ Idle.op = "idle"
      /\ thread \in [posted : 0 .. MaxMessages, logged : Nat, told : Nat] /\ toll \in Tolls
      /\ export \in [asked : BOOLEAN, marked : BOOLEAN, copies : Nat] /\ MaxMessages \in Nat
      /\ IsFiniteSet(Requests)
  BY NothingHeld, DeskAssumption DEF DeskTyped, DeskAssumption
<1>1. /\ IsFiniteSet(Posted) /\ IsFiniteSet(Unlogged) /\ IsFiniteSet(Exporting)
      /\ Cardinality(Posted) \in Nat /\ Cardinality(Unlogged) \in Nat /\ Cardinality(Exporting) \in Nat
      /\ Cardinality(Requests) \in Nat
  <2>1. Posted \subseteq Requests /\ Unlogged \subseteq Requests /\ Exporting \subseteq Requests
    BY DEF Posted, Unlogged, Exporting
  <2> QED BY <1>0, <2>1, FS_Subset, FS_CardinalityType
<1>2. /\ thread.posted = thread.told + toll.untold + Cardinality(Posted)
      /\ thread.logged + Cardinality(Unlogged) <= thread.posted
      /\ export.copies + Cardinality(Exporting) <= Cardinality(Requests)
      /\ ~ export.marked => export.copies = 0
      /\ thread.posted \in Nat /\ thread.told \in Nat /\ thread.logged \in Nat /\ toll.untold \in Nat
      /\ export.copies \in Nat
  BY <1>0, TellingIs DEF DeskCounts, Tolls
<1>t. MessagesAreTold' <=> thread'.posted = thread'.told + toll'.untold + Cardinality(Posted')
  BY DEF MessagesAreTold, Posted
(* Neither thread nor export is touched by what does not post or export.   *)
<1>3. ASSUME \A r \in Requests : hand'[r] = hand[r] \/ ({hand[r].op, hand'[r].op} \cap {"post", "export"} = {}),
             UNCHANGED thread, export'.copies = export.copies, export'.marked = export.marked,
             toll'.untold = toll.untold
      PROVE  DeskCounts'
  <2>1. Posted' = Posted /\ Unlogged' = Unlogged /\ Exporting' = Exporting
    BY <1>3 DEF Posted, Unlogged, Exporting, Holds
  <2> QED BY <1>2, <1>3, <1>t, <2>1 DEF DeskCounts
<1>4. CASE UNCHANGED deskVars
  BY <1>3, <1>4 DEF deskVars
<1>5. ASSUME NEW r \in Requests, NEW what \in Desks, Take(r, what), what.op \notin {"post", "export"},
             hand[r].op \notin {"post", "export"}, UNCHANGED <<thread, export>>, toll'.untold = toll.untold
      PROVE  DeskCounts'
  <2>1. hand'[r] = what /\ \A s \in Requests : s # r => hand'[s] = hand[s]
    BY <1>0, <1>5, Taken
  <2> QED BY <1>3, <1>5, <2>1
<1>6. ASSUME NEW r \in Requests, NEW n \in Files, UploadFile(r, n) \/ LogoFile(r, n) \/ DeleteRead(r, n)
      PROVE  DeskCounts'
  <2>1. \/ Take(r, [op |-> "upload", file |-> n]) \/ Take(r, [op |-> "logo", file |-> n])
        \/ Take(r, [op |-> "delete", file |-> n, gone |-> {}])
    BY <1>6 DEF UploadFile, LogoFile, DeleteRead
  <2>2. /\ [op |-> "upload", file |-> n] \in Desks /\ [op |-> "logo", file |-> n] \in Desks
        /\ [op |-> "delete", file |-> n, gone |-> {}] \in Desks
    BY DEF Desks
  <2>3. UNCHANGED <<thread, export, toll>> /\ hand[r].op = "idle"
    BY <1>6 DEF UploadFile, LogoFile, DeleteRead, SignedIn, Holds
  <2> QED BY <1>5, <2>1, <2>2, <2>3
<1>7. ASSUME NEW r \in Requests,
             \/ UploadTooLarge(r) \/ UploadRow(r) \/ DeleteRefused(r) \/ DeleteRow(r) \/ LogoRemove(r)
             \/ PurgeRefused(r) \/ PurgeCommit(r)
      PROVE  DeskCounts'
  <2>1. /\ Take(r, Idle) /\ UNCHANGED <<thread, export>> /\ toll'.untold = toll.untold
        /\ hand[r].op \notin {"post", "export"}
    BY <1>0, <1>7 DEF UploadTooLarge, UploadRow, DeleteRefused, DeleteRow, LogoRemove, PurgeRefused, PurgeCommit,
       Holds, Tolls
  <2> QED BY <1>0, <1>5, <2>1
<1>8. ASSUME NEW r \in Requests,
             DeleteFile(r) \/ PurgeFile(r) \/ PurgeRead(r) \/ LogoRead(r) \/ LogoClear(r) \/ LogoSet(r)
      PROVE  DeskCounts'
  <2>1. /\ UNCHANGED <<thread, export>> /\ toll'.untold = toll.untold
        /\ hand[r].op \notin {"post", "export"}
    BY <1>0, <1>8 DEF DeleteFile, PurgeFile, PurgeRead, LogoRead, LogoClear, LogoSet, SignedIn, Holds, Tolls
  <2>2. \E what : Take(r, what) /\ what.op \notin {"post", "export"}
    <3>1. CASE DeleteFile(r)
      <4>1. hand[r] \in [op : {"delete"}, file : Files, gone : SUBSET Files]
        BY <1>0, <3>1, HandSorts DEF DeleteFile
      <4>2. [hand[r] EXCEPT !.gone = {hand[r].file}].op = "delete"
        BY <4>1
      <4> QED BY <3>1, <4>2 DEF DeleteFile
    <3>2. CASE PurgeFile(r)
      <4>1. hand[r] \in [op : {"purge"}, left : SUBSET Files, gone : SUBSET Files]
        BY <1>0, <3>2, HandSorts DEF PurgeFile
      <4>2. PICK n \in hand[r].left : Take(r, [hand[r] EXCEPT !.left = @ \ {n}, !.gone = @ \cup {n}])
        BY <3>2 DEF PurgeFile
      <4>3. [hand[r] EXCEPT !.left = @ \ {n}, !.gone = @ \cup {n}].op = "purge"
        BY <4>1
      <4> QED BY <4>2, <4>3
    <3>3. CASE PurgeRead(r)
      BY <3>3 DEF PurgeRead
    <3>4. CASE LogoRead(r)
      BY <3>4 DEF LogoRead
    <3>5. CASE LogoClear(r)
      BY <3>5 DEF LogoClear
    <3>6. CASE LogoSet(r)
      BY <3>6 DEF LogoSet
    <3> QED BY <1>8, <3>1, <3>2, <3>3, <3>4, <3>5, <3>6
  <2>3. \A s \in Requests : hand'[s] = hand[s] \/ ({hand[s].op, hand'[s].op} \cap {"post", "export"} = {})
    BY <1>0, <2>1, <2>2 DEF HandsTyped, Take
  <2> QED BY <1>3, <2>1, <2>3
<1>9. ASSUME NEW r \in Requests, LinkCreate(r) \/ LinkRevoke(r) \/ ExportAsk(r)
      PROVE  DeskCounts'
  <2>1. UNCHANGED <<hand, thread, toll>> /\ export'.copies = export.copies /\ export'.marked = export.marked
    BY <1>0, <1>9 DEF LinkCreate, LinkRevoke, ExportAsk
  <2> QED BY <1>3, <2>1
<1>10. CASE LinkExpires \/ PurgeDue
  <2>1. UNCHANGED <<hand, thread, toll, export>>
    BY <1>10 DEF LinkExpires, PurgeDue
  <2> QED BY <1>3, <2>1
(* The four steps of a message.                                            *)
<1>11. ASSUME NEW r \in Requests, PostCheck(r)
       PROVE  DeskCounts'
  <2>1. [op |-> "post", step |-> "checked"] \in Desks
    BY DEF Desks
  <2>2. /\ hand'[r] = [op |-> "post", step |-> "checked"] /\ \A s \in Requests : s # r => hand'[s] = hand[s]
        /\ hand[r].op = "idle" /\ UNCHANGED <<thread, export, toll>>
    BY <1>0, <1>11, <2>1, Taken DEF PostCheck, Holds
  <2>3. Posted' = Posted /\ Unlogged' = Unlogged /\ Exporting' = Exporting
    BY <2>2 DEF Posted, Unlogged, Exporting, Holds
  <2> QED BY <1>2, <1>t, <2>2, <2>3 DEF DeskCounts
<1>12. ASSUME NEW r \in Requests, NEW step \in {"posted", "logged"}, Holds(r, "post"),
              Take(r, [hand[r] EXCEPT !.step = step])
       PROVE  /\ hand'[r].op = "post" /\ hand'[r].step = step
              /\ \A s \in Requests : s # r => hand'[s] = hand[s]
  <2>1. hand[r] \in [op : {"post"}, step : {"checked", "posted", "logged"}]
    BY <1>0, <1>12, HandSorts
  <2>2. [hand[r] EXCEPT !.step = step].op = "post" /\ [hand[r] EXCEPT !.step = step].step = step
    BY <2>1
  <2>3. [hand[r] EXCEPT !.step = step] \in Desks
    BY <2>1 DEF Desks
  <2> QED BY ZenonT(40), <1>0, <1>12, <2>2, <2>3, Taken
<1>13. ASSUME NEW r \in Requests, PostMessage(r)
       PROVE  DeskCounts'
  <2>1. /\ hand'[r].op = "post" /\ hand'[r].step = "posted" /\ \A s \in Requests : s # r => hand'[s] = hand[s]
        /\ hand[r].op = "post" /\ hand[r].step = "checked" /\ UNCHANGED <<export, toll>>
    BY <1>12, <1>13 DEF PostMessage, Holds
  <2>2. thread'.posted = thread.posted + 1 /\ thread'.logged = thread.logged /\ thread'.told = thread.told
    BY <1>0, <1>13 DEF PostMessage
  <2>3. /\ Posted' = Posted \cup {r} /\ r \notin Posted /\ Unlogged' = Unlogged \cup {r} /\ r \notin Unlogged
        /\ Exporting' = Exporting
    BY <2>1 DEF Posted, Unlogged, Exporting, Holds
  <2>4. Cardinality(Posted') = Cardinality(Posted) + 1 /\ Cardinality(Unlogged') = Cardinality(Unlogged) + 1
    BY <1>1, <2>3, OneMore
  <2> QED BY <1>1, <1>2, <1>t, <2>1, <2>2, <2>3, <2>4 DEF DeskCounts
<1>14. ASSUME NEW r \in Requests, PostLog(r)
       PROVE  DeskCounts'
  <2>1. /\ hand'[r].op = "post" /\ hand'[r].step = "logged" /\ \A s \in Requests : s # r => hand'[s] = hand[s]
        /\ hand[r].op = "post" /\ hand[r].step = "posted" /\ UNCHANGED <<export, toll>>
    BY <1>12, <1>14 DEF PostLog, Holds
  <2>2. thread'.posted = thread.posted /\ thread'.logged = thread.logged + 1 /\ thread'.told = thread.told
    BY <1>0, <1>14 DEF PostLog
  <2>3. Posted' = Posted /\ Unlogged' = Unlogged \ {r} /\ r \in Unlogged /\ Exporting' = Exporting
    BY <2>1 DEF Posted, Unlogged, Exporting, Holds
  <2>4. Cardinality(Unlogged') = Cardinality(Unlogged) - 1
    BY <1>1, <2>3, OneLess
  <2> QED BY <1>1, <1>2, <1>t, <2>1, <2>2, <2>3, <2>4 DEF DeskCounts
<1>15. ASSUME NEW r \in Requests, PostTell(r)
       PROVE  DeskCounts'
  <2>1. /\ hand'[r] = Idle /\ \A s \in Requests : s # r => hand'[s] = hand[s]
        /\ hand[r].op = "post" /\ hand[r].step = "logged" /\ UNCHANGED <<export, toll>>
    BY <1>0, <1>15, Taken DEF PostTell, Holds
  <2>2. thread'.posted = thread.posted /\ thread'.logged = thread.logged /\ thread'.told = thread.told + 1
    BY <1>0, <1>15 DEF PostTell
  <2>3. Posted' = Posted \ {r} /\ r \in Posted /\ Unlogged' = Unlogged /\ Exporting' = Exporting
    BY <1>0, <2>1 DEF Posted, Unlogged, Exporting, Holds
  <2>4. Cardinality(Posted') = Cardinality(Posted) - 1
    BY <1>1, <2>3, OneLess
  <2> QED BY <1>1, <1>2, <1>t, <2>1, <2>2, <2>3, <2>4 DEF DeskCounts
<1>16. ASSUME NEW r \in Requests, ExportRead(r)
       PROVE  DeskCounts'
  <2>1. [op |-> "export"] \in Desks
    BY DEF Desks
  <2>2. /\ hand'[r] = [op |-> "export"] /\ \A s \in Requests : s # r => hand'[s] = hand[s]
        /\ hand[r].op = "idle" /\ UNCHANGED <<thread, export, toll>> /\ ~ export.marked
    BY <1>0, <1>16, <2>1, Taken DEF ExportRead, SignedIn, Holds
  <2>3. Posted' = Posted /\ Unlogged' = Unlogged /\ Exporting' = Exporting \cup {r}
    BY <2>2 DEF Posted, Unlogged, Exporting, Holds
  <2>4. Cardinality(Exporting') <= Cardinality(Requests)
    <3>1. Exporting' \subseteq Requests
      BY DEF Exporting
    <3> QED BY <1>0, <3>1, FS_Subset
  <2>5. Cardinality(Exporting') \in Nat
    <3>1. Exporting' \subseteq Requests
      BY DEF Exporting
    <3> QED BY <1>0, <3>1, FS_Subset, FS_CardinalityType
  <2> QED BY <1>1, <1>2, <1>t, <2>2, <2>3, <2>4, <2>5 DEF DeskCounts
<1>17. ASSUME NEW r \in Requests, ExportSend(r)
       PROVE  DeskCounts'
  <2>1. /\ hand'[r] = Idle /\ \A s \in Requests : s # r => hand'[s] = hand[s]
        /\ hand[r].op = "export" /\ UNCHANGED <<thread, toll>>
    BY <1>0, <1>17, Taken DEF ExportSend, Holds
  <2>2. export'.copies = export.copies + 1 /\ export'.marked
    BY <1>0, <1>17 DEF ExportSend
  <2>3. Posted' = Posted /\ Unlogged' = Unlogged /\ Exporting' = Exporting \ {r} /\ r \in Exporting
    BY <1>0, <2>1 DEF Posted, Unlogged, Exporting, Holds
  <2>4. Cardinality(Exporting') = Cardinality(Exporting) - 1
    BY <1>1, <2>3, OneLess
  <2> QED BY <1>1, <1>2, <1>t, <2>1, <2>2, <2>3, <2>4 DEF DeskCounts
<1>18. ASSUME NEW r \in Requests, Die(r)
       PROVE  DeskCounts'
  <2>1. /\ hand'[r] = Idle /\ \A s \in Requests : s # r => hand'[s] = hand[s]
        /\ UNCHANGED <<thread, export>>
    BY <1>0, <1>18, Taken DEF Die
  <2>2. toll'.untold = toll.untold + (IF r \in Posted THEN 1 ELSE 0)
    BY <1>0, <1>18 DEF Die, Tolls, Posted
  <2>3. Posted' = Posted \ {r} /\ Unlogged' = Unlogged \ {r} /\ Exporting' = Exporting \ {r}
    BY <1>0, <2>1 DEF Posted, Unlogged, Exporting, Holds
  <2>4. /\ Cardinality(Posted') = Cardinality(Posted) - (IF r \in Posted THEN 1 ELSE 0)
        /\ Cardinality(Unlogged') <= Cardinality(Unlogged) /\ Cardinality(Unlogged') \in Nat
        /\ Cardinality(Exporting') <= Cardinality(Exporting) /\ Cardinality(Exporting') \in Nat
    <3>1. CASE r \in Posted
      BY <1>1, <2>3, <3>1, FS_RemoveElement, FS_Subset, FS_CardinalityType
    <3>2. CASE r \notin Posted
      <4>1. Posted' = Posted
        BY <2>3, <3>2
      <4> QED BY <1>1, <2>3, <3>2, <4>1, FS_Subset, FS_CardinalityType
    <3> QED BY <3>1, <3>2
  <2> QED BY <1>1, <1>2, <1>t, <2>1, <2>2, <2>4 DEF DeskCounts
<1> QED BY <1>4, <1>6, <1>7, <1>8, <1>9, <1>10, <1>11, <1>13, <1>14, <1>15, <1>16, <1>17, <1>18
     DEF DeskNext, DocumentsNext, LogoNext, PortalNext, Purge

LEMMA DeskTypesHold == DeskTyped /\ DeskCounts => DeskTypeOK
<1> SUFFICES ASSUME DeskTyped, DeskCounts
             PROVE  DeskTypeOK
  OBVIOUS
<1>1. /\ Posted \subseteq Requests /\ Unlogged \subseteq Requests /\ Exporting \subseteq Requests
      /\ IsFiniteSet(Requests) /\ MaxMessages \in Nat
  BY DeskAssumption DEF DeskAssumption, Posted, Unlogged, Exporting
<1>2. /\ Cardinality(Posted) \in Nat /\ Cardinality(Unlogged) \in Nat /\ Cardinality(Exporting) \in Nat
      /\ Cardinality(Requests) \in Nat
  BY <1>1, FS_Subset, FS_CardinalityType
<1>3. thread.told <= MaxMessages /\ thread.logged <= MaxMessages /\ export.copies <= Cardinality(Requests)
  BY <1>1, <1>2, TellingIs DEF DeskTyped, DeskCounts, Tolls
<1>4. \A r \in Requests : hand[r].op \in
        {"idle", "upload", "delete", "logo", "swap", "clear", "purge", "post", "export"}
  BY HandSorts DEF DeskTyped
<1> QED BY <1>1, <1>2, <1>3, <1>4 DEF DeskTyped, DeskTypeOK

-----------------------------------------------------------------------------
(* A file a request has written and not yet named in a row is nobody       *)
(* else's; the files of documents and those of logos are apart.            *)
OwnIsOwn ==
  \A r \in Requests : \A n \in OwnOf(hand[r]) :
    /\ n \in files /\ n \notin docs /\ n # logo
    /\ \A s \in Requests : /\ n \notin PrevOf(hand[s]) /\ n \notin DocsOf(hand[s])
                           /\ s # r => n \notin OwnOf(hand[s])

LogosApart ==
  \A n \in Files : n = logo \/ (\E r \in Requests : n \in PrevOf(hand[r])) =>
    n \notin docs /\ \A s \in Requests : n \notin DocsOf(hand[s])

(* What a request is about to delete is no longer the logo.                *)
ClearedIsOld == \A r \in Requests : Holds(r, "clear") => logo \notin PrevOf(hand[r])

(* What has been removed stays removed, and what has not been still has    *)
(* its row.                                                                *)
GoneIsGone ==
  \A r \in Requests :
    /\ GoneOf(hand[r]) \cap files = {} /\ GoneOf(hand[r]) \subseteq DocsOf(hand[r])
    /\ DocsOf(hand[r]) \cap files \subseteq docs

(* A logo that was replaced since a request read it has somebody who       *)
(* deletes it, or nobody will.                                             *)
ReplacedIsKnown ==
  \A r \in Requests : \A n \in PrevOf(hand[r]) :
    Holds(r, "swap") /\ n \in files =>
      n = logo \/ n \in toll.stray \/ \E s \in Requests : Holds(s, "clear") /\ n \in PrevOf(hand[s])

(* A purge has read the documents there are but for those that came since. *)
PurgeReadsAll == \A r \in Requests : Holds(r, "purge") => docs \subseteq toll.late \cup DocsOf(hand[r])

(* DocumentsHaveBytes and NothingIsStray, by the names that are held.      *)
BytesAreHeld ==
  \A n \in docs : n \in files \/ n \in toll.lost \/ \E r \in Requests : n \in GoneOf(hand[r])

FilesAreHeld ==
  \A n \in files : n \in docs \/ n = logo \/ n \in toll.stray
    \/ \E r \in Requests : n \in OwnOf(hand[r]) \cup PrevOf(hand[r]) \cup DocsOf(hand[r])

VolumeInv ==
  /\ OwnIsOwn /\ LogosApart /\ ClearedIsOld /\ GoneIsGone /\ ReplacedIsKnown /\ PurgeReadsAll
  /\ LogoIsThere /\ BytesAreHeld /\ FilesAreHeld /\ PurgeIsComplete

LEMMA BytesAre ==
  ASSUME HandsTyped, BytesAreHeld, FilesAreHeld
  PROVE  DocumentsHaveBytes /\ NothingIsStray
<1>1. \A r \in Requests : /\ NamedBy(r) = OwnOf(hand[r]) \cup PrevOf(hand[r]) \cup DocsOf(hand[r])
                          /\ Removed(r) = GoneOf(hand[r]) \cap docs
  BY NamesAre
<1>2. DocumentsHaveBytes
  BY <1>1 DEF DocumentsHaveBytes, BytesAreHeld
<1>3. NothingIsStray
  BY <1>1 DEF NothingIsStray, FilesAreHeld
<1> QED BY <1>2, <1>3

LEMMA InitVolume ==
  ASSUME DeskInit
  PROVE  VolumeInv
<1>1. \A r \in Requests : /\ hand[r].op = "idle" /\ OwnOf(hand[r]) = {} /\ PrevOf(hand[r]) = {}
                          /\ DocsOf(hand[r]) = {} /\ GoneOf(hand[r]) = {}
  BY NothingHeld DEF DeskInit
<1>2. files = {} /\ docs = {} /\ logo = None /\ purge = "kept" /\ None \notin Files /\ HandsTyped
  BY DeskAssumption, InitDesk DEF DeskInit, DeskAssumption, None, DeskTyped
<1>3. OwnIsOwn /\ LogosApart /\ ClearedIsOld /\ GoneIsGone /\ ReplacedIsKnown /\ PurgeReadsAll
  BY <1>1, <1>2 DEF OwnIsOwn, LogosApart, ClearedIsOld, GoneIsGone, ReplacedIsKnown, PurgeReadsAll, Holds
<1>4. LogoIsThere /\ PurgeIsComplete
  BY <1>2 DEF LogoIsThere, PurgeIsComplete
<1>5. BytesAreHeld /\ FilesAreHeld
  BY <1>2 DEF BytesAreHeld, FilesAreHeld
<1> QED BY <1>3, <1>4, <1>5 DEF VolumeInv

(* A new file has a name nobody has.                                       *)
LEMMA FreshIs ==
  ASSUME HandsTyped, NEW n \in Fresh
  PROVE  /\ n \in Files /\ n \notin files /\ n \notin docs
         /\ \A r \in Requests : n \notin OwnOf(hand[r]) \cup PrevOf(hand[r]) \cup DocsOf(hand[r])
<1>1. \A r \in Requests : NamedBy(r) = OwnOf(hand[r]) \cup PrevOf(hand[r]) \cup DocsOf(hand[r])
  BY NamesAre
<1> QED BY <1>1 DEF Fresh

(* Requests come to hold the same names, or none, and nothing is moved.    *)
LEMMA VolumeStays ==
  ASSUME DeskTyped, VolumeInv,
         UNCHANGED <<files, docs, logo>>, toll'.stray = toll.stray, toll'.lost = toll.lost, toll'.late = toll.late,
         purge' = purge \/ purge' = "eligible",
         \A r \in Requests :
           \/ hand'[r] = hand[r]
           \/ {hand[r].op, hand'[r].op} \subseteq {"idle", "export", "post"}
  PROVE  VolumeInv'
<1>1. \A r \in Requests :
        /\ OwnOf(hand'[r]) = OwnOf(hand[r]) /\ PrevOf(hand'[r]) = PrevOf(hand[r])
        /\ DocsOf(hand'[r]) = DocsOf(hand[r]) /\ GoneOf(hand'[r]) = GoneOf(hand[r])
        /\ hand[r].op \in {"swap", "clear", "purge"} \/ hand'[r].op \in {"swap", "clear", "purge"} =>
             hand'[r].op = hand[r].op
  <2> SUFFICES ASSUME NEW r \in Requests
               PROVE  /\ OwnOf(hand'[r]) = OwnOf(hand[r]) /\ PrevOf(hand'[r]) = PrevOf(hand[r])
                      /\ DocsOf(hand'[r]) = DocsOf(hand[r]) /\ GoneOf(hand'[r]) = GoneOf(hand[r])
                      /\ hand[r].op \in {"swap", "clear", "purge"} \/ hand'[r].op \in {"swap", "clear", "purge"} =>
                           hand'[r].op = hand[r].op
    OBVIOUS
  <2>1. CASE hand'[r] = hand[r]
    BY <2>1
  <2>2. CASE {hand[r].op, hand'[r].op} \subseteq {"idle", "export", "post"}
    <3>1. hand[r].op \in {"idle", "export", "post"} /\ hand'[r].op \in {"idle", "export", "post"}
      BY <2>2
    <3>2. OwnOf(hand[r]) = {} /\ PrevOf(hand[r]) = {} /\ DocsOf(hand[r]) = {} /\ GoneOf(hand[r]) = {}
      BY <3>1, NothingHeld
    <3>3. OwnOf(hand'[r]) = {} /\ PrevOf(hand'[r]) = {} /\ DocsOf(hand'[r]) = {} /\ GoneOf(hand'[r]) = {}
      BY <3>1, NothingHeld
    <3> QED BY <3>1, <3>2, <3>3
  <2> QED BY <2>1, <2>2
<1>2. OwnIsOwn' /\ LogosApart' /\ GoneIsGone'
  BY <1>1 DEF VolumeInv, OwnIsOwn, LogosApart, GoneIsGone
<1>3. ClearedIsOld' /\ PurgeReadsAll'
  BY <1>1 DEF VolumeInv, ClearedIsOld, PurgeReadsAll, Holds
<1>4. ReplacedIsKnown'
  BY <1>1 DEF VolumeInv, ReplacedIsKnown, Holds
<1>5. LogoIsThere' /\ PurgeIsComplete'
  BY DEF VolumeInv, LogoIsThere, PurgeIsComplete
<1>6. BytesAreHeld' /\ FilesAreHeld'
  BY <1>1 DEF VolumeInv, BytesAreHeld, FilesAreHeld
<1> QED BY <1>2, <1>3, <1>4, <1>5, <1>6 DEF VolumeInv

-----------------------------------------------------------------------------
(* A request writes a file nobody has.                                     *)
LEMMA FileAdded ==
  ASSUME DeskTyped, VolumeInv, NEW r \in Requests, NEW n \in Files, UploadFile(r, n) \/ LogoFile(r, n)
  PROVE  VolumeInv'
<1>0. HandsTyped /\ docs \subseteq Files /\ files \subseteq Files /\ logo \in Files \cup {None} /\ None \notin Files
  BY DeskAssumption DEF DeskTyped, DeskAssumption, None
<1>1. /\ n \notin files /\ n \notin docs /\ n # None
      /\ \A s \in Requests : n \notin OwnOf(hand[s]) /\ n \notin PrevOf(hand[s]) /\ n \notin DocsOf(hand[s])
  BY <1>0, FreshIs DEF UploadFile, LogoFile
<1>2. n # logo
  BY <1>0, <1>1 DEF VolumeInv, LogoIsThere
<1>3. /\ hand'[r].op \in {"upload", "logo"} /\ hand[r].op = "idle"
      /\ \A s \in Requests : s # r => hand'[s] = hand[s]
      /\ OwnOf(hand'[r]) = {n} /\ PrevOf(hand'[r]) = {} /\ DocsOf(hand'[r]) = {} /\ GoneOf(hand'[r]) = {}
  <2>1. [op |-> "upload", file |-> n] \in Desks /\ [op |-> "logo", file |-> n] \in Desks
    BY DEF Desks
  <2>2. /\ hand'[r] = [op |-> "upload", file |-> n] \/ hand'[r] = [op |-> "logo", file |-> n]
        /\ \A s \in Requests : s # r => hand'[s] = hand[s]
    BY <1>0, <2>1, Taken DEF UploadFile, LogoFile
  <2>3. hand'[r].op \in {"upload", "logo"} /\ hand'[r].file = n
    BY <2>2
  <2> QED BY <1>1, <2>2, <2>3 DEF OwnOf, PrevOf, DocsOf, GoneOf, UploadFile, LogoFile, SignedIn, Holds
<1>4. OwnOf(hand[r]) = {} /\ PrevOf(hand[r]) = {} /\ DocsOf(hand[r]) = {} /\ GoneOf(hand[r]) = {}
  BY <1>3, NothingHeld
<1>5. files' = files \cup {n} /\ UNCHANGED <<docs, logo, purge, toll>>
  BY DEF UploadFile, LogoFile
<1>v0. OwnIsOwn'
  BY <1>0, <1>1, <1>2, <1>3, <1>4, <1>5 DEF VolumeInv, OwnIsOwn
<1>v1. LogosApart'
  BY <1>0, <1>1, <1>2, <1>3, <1>4, <1>5 DEF VolumeInv, LogosApart
<1>v2. ClearedIsOld'
  BY <1>0, <1>1, <1>2, <1>3, <1>4, <1>5 DEF VolumeInv, ClearedIsOld, Holds
<1>v3. GoneIsGone'
  BY <1>0, <1>1, <1>2, <1>3, <1>4, <1>5 DEF VolumeInv, GoneIsGone
<1>v4. ReplacedIsKnown'
  BY <1>0, <1>1, <1>2, <1>3, <1>4, <1>5 DEF VolumeInv, ReplacedIsKnown, Holds
<1>v5. PurgeReadsAll'
  BY <1>0, <1>1, <1>2, <1>3, <1>4, <1>5 DEF VolumeInv, PurgeReadsAll, Holds
<1>v6. LogoIsThere'
  BY <1>0, <1>1, <1>2, <1>3, <1>4, <1>5 DEF VolumeInv, LogoIsThere
<1>v7. BytesAreHeld'
  BY <1>0, <1>1, <1>2, <1>3, <1>4, <1>5 DEF VolumeInv, BytesAreHeld
<1>v8. FilesAreHeld'
  BY <1>0, <1>1, <1>2, <1>3, <1>4, <1>5 DEF VolumeInv, FilesAreHeld
<1>v9. PurgeIsComplete'
  BY <1>0, <1>1, <1>2, <1>3, <1>4, <1>5 DEF VolumeInv, PurgeIsComplete
<1> QED BY <1>v0, <1>v1, <1>v2, <1>v3, <1>v4, <1>v5, <1>v6, <1>v7, <1>v8, <1>v9 DEF VolumeInv

(* Its file goes again: it was too large.                                  *)
LEMMA FileTooLarge ==
  ASSUME DeskTyped, VolumeInv, NEW r \in Requests, UploadTooLarge(r)
  PROVE  VolumeInv'
<1>0. HandsTyped /\ docs \subseteq Files /\ files \subseteq Files /\ logo \in Files \cup {None} /\ None \notin Files
  BY DeskAssumption DEF DeskTyped, DeskAssumption, None
<1>1. /\ hand'[r].op = "idle" /\ \A s \in Requests : s # r => hand'[s] = hand[s]
      /\ OwnOf(hand'[r]) = {} /\ PrevOf(hand'[r]) = {} /\ DocsOf(hand'[r]) = {} /\ GoneOf(hand'[r]) = {}
  <2>1. hand'[r] = Idle /\ \A s \in Requests : s # r => hand'[s] = hand[s]
    BY <1>0, NothingHeld, Taken DEF UploadTooLarge
  <2> QED BY <2>1, NothingHeld
<1>2. PICK n \in OwnOf(hand[r]) : files' = files \ {n}
  BY <1>0, HandSorts DEF UploadTooLarge, OwnOf, Holds
<1>3. /\ OwnOf(hand[r]) = {n} /\ PrevOf(hand[r]) = {} /\ DocsOf(hand[r]) = {} /\ GoneOf(hand[r]) = {}
      /\ hand[r].op = "upload" /\ UNCHANGED <<docs, logo, purge, toll>>
  BY <1>2 DEF UploadTooLarge, OwnOf, PrevOf, DocsOf, GoneOf, Holds
<1>v0. OwnIsOwn'
  BY <1>0, <1>1, <1>2, <1>3 DEF VolumeInv, OwnIsOwn
<1>v1. LogosApart'
  BY <1>0, <1>1, <1>2, <1>3 DEF VolumeInv, LogosApart
<1>v2. ClearedIsOld'
  BY <1>0, <1>1, <1>2, <1>3 DEF VolumeInv, ClearedIsOld, Holds
<1>v3. GoneIsGone'
  BY <1>0, <1>1, <1>2, <1>3 DEF VolumeInv, GoneIsGone
<1>v4. ReplacedIsKnown'
  BY <1>0, <1>1, <1>2, <1>3 DEF VolumeInv, ReplacedIsKnown, Holds
<1>v5. PurgeReadsAll'
  BY <1>0, <1>1, <1>2, <1>3 DEF VolumeInv, PurgeReadsAll, Holds
<1>v6. LogoIsThere'
  BY <1>0, <1>1, <1>2, <1>3 DEF VolumeInv, LogoIsThere, OwnIsOwn
<1>v7. BytesAreHeld'
  BY <1>0, <1>1, <1>2, <1>3 DEF VolumeInv, BytesAreHeld, OwnIsOwn
<1>v8. FilesAreHeld'
  BY <1>0, <1>1, <1>2, <1>3 DEF VolumeInv, FilesAreHeld
<1>v9. PurgeIsComplete'
  BY <1>0, <1>1, <1>2, <1>3 DEF VolumeInv, PurgeIsComplete
<1> QED BY <1>v0, <1>v1, <1>v2, <1>v3, <1>v4, <1>v5, <1>v6, <1>v7, <1>v8, <1>v9 DEF VolumeInv

(* The row of an upload.                                                   *)
LEMMA FileNamed ==
  ASSUME DeskTyped, VolumeInv, NEW r \in Requests, UploadRow(r)
  PROVE  VolumeInv'
<1>0. HandsTyped /\ docs \subseteq Files /\ files \subseteq Files /\ logo \in Files \cup {None} /\ None \notin Files
  BY DeskAssumption DEF DeskTyped, DeskAssumption, None
<1>1. /\ hand'[r].op = "idle" /\ \A s \in Requests : s # r => hand'[s] = hand[s]
      /\ OwnOf(hand'[r]) = {} /\ PrevOf(hand'[r]) = {} /\ DocsOf(hand'[r]) = {} /\ GoneOf(hand'[r]) = {}
  <2>1. hand'[r] = Idle /\ \A s \in Requests : s # r => hand'[s] = hand[s]
    BY <1>0, NothingHeld, Taken DEF UploadRow
  <2> QED BY <2>1, NothingHeld
<1>2. PICK n \in OwnOf(hand[r]) : docs' = docs \cup {n} /\ n = hand[r].file
  BY <1>0, HandSorts DEF UploadRow, OwnOf, Holds
<1>3. /\ OwnOf(hand[r]) = {n} /\ PrevOf(hand[r]) = {} /\ DocsOf(hand[r]) = {} /\ GoneOf(hand[r]) = {}
      /\ hand[r].op = "upload" /\ UNCHANGED <<files, logo, purge>>
  BY <1>2 DEF UploadRow, OwnOf, PrevOf, DocsOf, GoneOf, Holds
<1>4. /\ toll'.stray = toll.stray /\ toll'.lost = toll.lost
      /\ toll'.late = IF purge = "purged" \/ \E s \in Requests : Holds(s, "purge")
                      THEN toll.late \cup {n} ELSE toll.late
  BY <1>2 DEF UploadRow, DeskTyped, Tolls
<1>v0. OwnIsOwn'
  BY <1>0, <1>1, <1>2, <1>3, <1>4 DEF VolumeInv, OwnIsOwn
<1>v1. LogosApart'
  BY <1>0, <1>1, <1>2, <1>3, <1>4 DEF VolumeInv, LogosApart, OwnIsOwn
<1>v2. ClearedIsOld'
  BY <1>0, <1>1, <1>2, <1>3, <1>4 DEF VolumeInv, ClearedIsOld, Holds
<1>v3. GoneIsGone'
  BY <1>0, <1>1, <1>2, <1>3, <1>4 DEF VolumeInv, GoneIsGone
<1>v4. ReplacedIsKnown'
  BY <1>0, <1>1, <1>2, <1>3, <1>4 DEF VolumeInv, ReplacedIsKnown, Holds
<1>v5. PurgeReadsAll'
  BY <1>0, <1>1, <1>2, <1>3, <1>4 DEF VolumeInv, PurgeReadsAll, Holds
<1>v6. LogoIsThere'
  BY <1>0, <1>1, <1>2, <1>3, <1>4 DEF VolumeInv, LogoIsThere
<1>v7. BytesAreHeld'
  BY <1>0, <1>1, <1>2, <1>3, <1>4 DEF VolumeInv, BytesAreHeld, OwnIsOwn
<1>v8. FilesAreHeld'
  BY <1>0, <1>1, <1>2, <1>3, <1>4 DEF VolumeInv, FilesAreHeld
<1>v9. PurgeIsComplete'
  BY <1>0, <1>1, <1>2, <1>3, <1>4 DEF VolumeInv, PurgeIsComplete
<1> QED BY <1>v0, <1>v1, <1>v2, <1>v3, <1>v4, <1>v5, <1>v6, <1>v7, <1>v8, <1>v9 DEF VolumeInv

(* A document is read, to be deleted.                                      *)
LEMMA DocumentRead ==
  ASSUME DeskTyped, VolumeInv, NEW r \in Requests, NEW n \in Files, DeleteRead(r, n)
  PROVE  VolumeInv'
<1>0. HandsTyped /\ docs \subseteq Files /\ files \subseteq Files /\ logo \in Files \cup {None} /\ None \notin Files
  BY DeskAssumption DEF DeskTyped, DeskAssumption, None
<1>1. /\ hand'[r].op = "delete" /\ hand[r].op = "idle"
      /\ \A s \in Requests : s # r => hand'[s] = hand[s]
      /\ OwnOf(hand'[r]) = {} /\ PrevOf(hand'[r]) = {} /\ DocsOf(hand'[r]) = {n} /\ GoneOf(hand'[r]) = {}
  <2>1. [op |-> "delete", file |-> n, gone |-> {}] \in Desks
    BY DEF Desks
  <2>2. /\ hand'[r] = [op |-> "delete", file |-> n, gone |-> {}]
        /\ \A s \in Requests : s # r => hand'[s] = hand[s]
    BY <1>0, <2>1, Taken DEF DeleteRead
  <2> QED BY <2>2 DEF OwnOf, PrevOf, DocsOf, GoneOf, DeleteRead, SignedIn, Holds
<1>2. OwnOf(hand[r]) = {} /\ PrevOf(hand[r]) = {} /\ DocsOf(hand[r]) = {} /\ GoneOf(hand[r]) = {}
  BY <1>1, NothingHeld
<1>3. n \in docs /\ UNCHANGED <<files, docs, logo, purge, toll>>
  BY DEF DeleteRead
<1>v0. OwnIsOwn'
  BY <1>0, <1>1, <1>2, <1>3 DEF VolumeInv, OwnIsOwn
<1>v1. LogosApart'
  BY <1>0, <1>1, <1>2, <1>3 DEF VolumeInv, LogosApart
<1>v2. ClearedIsOld'
  BY <1>0, <1>1, <1>2, <1>3 DEF VolumeInv, ClearedIsOld, Holds
<1>v3. GoneIsGone'
  BY <1>0, <1>1, <1>2, <1>3 DEF VolumeInv, GoneIsGone
<1>v4. ReplacedIsKnown'
  BY <1>0, <1>1, <1>2, <1>3 DEF VolumeInv, ReplacedIsKnown, Holds
<1>v5. PurgeReadsAll'
  BY <1>0, <1>1, <1>2, <1>3 DEF VolumeInv, PurgeReadsAll, Holds
<1>v6. LogoIsThere'
  BY <1>0, <1>1, <1>2, <1>3 DEF VolumeInv, LogoIsThere
<1>v7. BytesAreHeld'
  BY <1>0, <1>1, <1>2, <1>3 DEF VolumeInv, BytesAreHeld
<1>v8. FilesAreHeld'
  BY <1>0, <1>1, <1>2, <1>3 DEF VolumeInv, FilesAreHeld
<1>v9. PurgeIsComplete'
  BY <1>0, <1>1, <1>2, <1>3 DEF VolumeInv, PurgeIsComplete
<1> QED BY <1>v0, <1>v1, <1>v2, <1>v3, <1>v4, <1>v5, <1>v6, <1>v7, <1>v8, <1>v9 DEF VolumeInv

(* Its bytes go.                                                           *)
LEMMA BytesRemoved ==
  ASSUME DeskTyped, VolumeInv, NEW r \in Requests, DeleteFile(r)
  PROVE  VolumeInv'
<1>0. HandsTyped /\ docs \subseteq Files /\ files \subseteq Files /\ logo \in Files \cup {None} /\ None \notin Files
  BY DeskAssumption DEF DeskTyped, DeskAssumption, None
<1>1. hand[r] \in [op : {"delete"}, file : Files, gone : SUBSET Files] /\ hand[r].gone = {}
  BY <1>0, HandSorts DEF DeleteFile
<1>2. PICK n \in Files : n = hand[r].file
  BY <1>1
<1>3. /\ OwnOf(hand[r]) = {} /\ PrevOf(hand[r]) = {} /\ DocsOf(hand[r]) = {n} /\ GoneOf(hand[r]) = {}
      /\ hand[r].op = "delete" /\ files' = files \ {n} /\ UNCHANGED <<docs, logo, purge, toll>>
  BY <1>1, <1>2 DEF DeleteFile, OwnOf, PrevOf, DocsOf, GoneOf
<1>4. /\ hand'[r].op = "delete" /\ \A s \in Requests : s # r => hand'[s] = hand[s]
      /\ OwnOf(hand'[r]) = {} /\ PrevOf(hand'[r]) = {} /\ DocsOf(hand'[r]) = {n} /\ GoneOf(hand'[r]) = {n}
  <2> DEFINE what == [hand[r] EXCEPT !.gone = {hand[r].file}]
  <2>1. what \in Desks /\ what.op = "delete" /\ what.file = n /\ what.gone = {n}
    BY <1>1, <1>2 DEF Desks
  <2>2. Take(r, what)
    BY DEF DeleteFile
  <2> HIDE DEF what
  <2>3. hand'[r] = what /\ \A s \in Requests : s # r => hand'[s] = hand[s]
    BY <1>0, <2>1, <2>2, Taken
  <2> QED BY <2>1, <2>3 DEF OwnOf, PrevOf, DocsOf, GoneOf
<1>v0. OwnIsOwn'
  BY <1>0, <1>2, <1>3, <1>4 DEF VolumeInv, OwnIsOwn
<1>v1. LogosApart'
  BY <1>0, <1>2, <1>3, <1>4 DEF VolumeInv, LogosApart
<1>v2. ClearedIsOld'
  BY <1>0, <1>2, <1>3, <1>4 DEF VolumeInv, ClearedIsOld, Holds
<1>v3. GoneIsGone'
  BY <1>0, <1>2, <1>3, <1>4 DEF VolumeInv, GoneIsGone
<1>v4. ReplacedIsKnown'
  BY <1>0, <1>2, <1>3, <1>4 DEF VolumeInv, ReplacedIsKnown, Holds
<1>v5. PurgeReadsAll'
  BY <1>0, <1>2, <1>3, <1>4 DEF VolumeInv, PurgeReadsAll, Holds
<1>v6. LogoIsThere'
  BY <1>0, <1>2, <1>3, <1>4 DEF VolumeInv, LogoIsThere, LogosApart
<1>v7. BytesAreHeld'
  BY <1>0, <1>2, <1>3, <1>4 DEF VolumeInv, BytesAreHeld
<1>v8. FilesAreHeld'
  BY <1>0, <1>2, <1>3, <1>4 DEF VolumeInv, FilesAreHeld
<1>v9. PurgeIsComplete'
  BY <1>0, <1>2, <1>3, <1>4 DEF VolumeInv, PurgeIsComplete
<1> QED BY <1>v0, <1>v1, <1>v2, <1>v3, <1>v4, <1>v5, <1>v6, <1>v7, <1>v8, <1>v9 DEF VolumeInv

(* Deleting is refused.                                                    *)
LEMMA DocumentKept ==
  ASSUME DeskTyped, VolumeInv, NEW r \in Requests, DeleteRefused(r)
  PROVE  VolumeInv'
<1>0. HandsTyped /\ docs \subseteq Files /\ files \subseteq Files /\ logo \in Files \cup {None} /\ None \notin Files
  BY DeskAssumption DEF DeskTyped, DeskAssumption, None
<1>1. /\ hand'[r].op = "idle" /\ \A s \in Requests : s # r => hand'[s] = hand[s]
      /\ OwnOf(hand'[r]) = {} /\ PrevOf(hand'[r]) = {} /\ DocsOf(hand'[r]) = {} /\ GoneOf(hand'[r]) = {}
  <2>1. hand'[r] = Idle /\ \A s \in Requests : s # r => hand'[s] = hand[s]
    BY <1>0, NothingHeld, Taken DEF DeleteRefused
  <2> QED BY <2>1, NothingHeld
<1>2. /\ OwnOf(hand[r]) = {} /\ PrevOf(hand[r]) = {} /\ GoneOf(hand[r]) = {}
      /\ hand[r].op = "delete" /\ UNCHANGED <<files, docs, logo, purge, toll>>
  BY <1>0, HandSorts DEF DeleteRefused, OwnOf, PrevOf, DocsOf, GoneOf, Holds
<1>v0. OwnIsOwn'
  BY <1>0, <1>1, <1>2 DEF VolumeInv, OwnIsOwn
<1>v1. LogosApart'
  BY <1>0, <1>1, <1>2 DEF VolumeInv, LogosApart
<1>v2. ClearedIsOld'
  BY <1>0, <1>1, <1>2 DEF VolumeInv, ClearedIsOld, Holds
<1>v3. GoneIsGone'
  BY <1>0, <1>1, <1>2 DEF VolumeInv, GoneIsGone
<1>v4. ReplacedIsKnown'
  BY <1>0, <1>1, <1>2 DEF VolumeInv, ReplacedIsKnown, Holds
<1>v5. PurgeReadsAll'
  BY <1>0, <1>1, <1>2 DEF VolumeInv, PurgeReadsAll, Holds
<1>v6. LogoIsThere'
  BY <1>0, <1>1, <1>2 DEF VolumeInv, LogoIsThere
<1>v7. BytesAreHeld'
  BY <1>0, <1>1, <1>2 DEF VolumeInv, BytesAreHeld
<1>v8. FilesAreHeld'
  BY <1>0, <1>1, <1>2 DEF VolumeInv, FilesAreHeld, GoneIsGone
<1>v9. PurgeIsComplete'
  BY <1>0, <1>1, <1>2 DEF VolumeInv, PurgeIsComplete
<1> QED BY <1>v0, <1>v1, <1>v2, <1>v3, <1>v4, <1>v5, <1>v6, <1>v7, <1>v8, <1>v9 DEF VolumeInv

(* The row goes after the bytes.                                           *)
LEMMA RowRemoved ==
  ASSUME DeskTyped, VolumeInv, NEW r \in Requests, DeleteRow(r)
  PROVE  VolumeInv'
<1>0. HandsTyped /\ docs \subseteq Files /\ files \subseteq Files /\ logo \in Files \cup {None} /\ None \notin Files
  BY DeskAssumption DEF DeskTyped, DeskAssumption, None
<1>r. hand[r] \in [op : {"delete"}, file : Files, gone : SUBSET Files] /\ hand[r].gone # {}
  BY <1>0, HandSorts DEF DeleteRow
<1>1. /\ hand'[r].op = "idle" /\ \A s \in Requests : s # r => hand'[s] = hand[s]
      /\ OwnOf(hand'[r]) = {} /\ PrevOf(hand'[r]) = {} /\ DocsOf(hand'[r]) = {} /\ GoneOf(hand'[r]) = {}
  <2>1. hand'[r] = Idle /\ \A s \in Requests : s # r => hand'[s] = hand[s]
    BY <1>0, NothingHeld, Taken DEF DeleteRow
  <2> QED BY <2>1, NothingHeld
<1>2. PICK n \in Files : n = hand[r].file
  BY <1>r
<1>3. /\ OwnOf(hand[r]) = {} /\ PrevOf(hand[r]) = {} /\ DocsOf(hand[r]) = {n}
      /\ hand[r].op = "delete" /\ docs' = docs \ {n} /\ UNCHANGED <<files, logo, purge, toll>>
  BY <1>r, <1>2 DEF DeleteRow, OwnOf, PrevOf, DocsOf
<1>4. GoneOf(hand[r]) = {n}
  <2>1. GoneOf(hand[r]) # {}
    BY <1>r DEF GoneOf
  <2> QED BY <1>3, <2>1 DEF VolumeInv, GoneIsGone
<1>5. n \notin files
  BY <1>4 DEF VolumeInv, GoneIsGone
<1>v0. OwnIsOwn'
  BY <1>0, <1>1, <1>2, <1>3, <1>4, <1>5 DEF VolumeInv, OwnIsOwn
<1>v1. LogosApart'
  BY <1>0, <1>1, <1>2, <1>3, <1>4, <1>5 DEF VolumeInv, LogosApart
<1>v2. ClearedIsOld'
  BY <1>0, <1>1, <1>2, <1>3, <1>4, <1>5 DEF VolumeInv, ClearedIsOld, Holds
<1>v3. GoneIsGone'
  BY <1>0, <1>1, <1>2, <1>3, <1>4, <1>5 DEF VolumeInv, GoneIsGone
<1>v4. ReplacedIsKnown'
  BY <1>0, <1>1, <1>2, <1>3, <1>4, <1>5 DEF VolumeInv, ReplacedIsKnown, Holds
<1>v5. PurgeReadsAll'
  BY <1>0, <1>1, <1>2, <1>3, <1>4, <1>5 DEF VolumeInv, PurgeReadsAll, Holds
<1>v6. LogoIsThere'
  BY <1>0, <1>1, <1>2, <1>3, <1>4, <1>5 DEF VolumeInv, LogoIsThere
<1>v7. BytesAreHeld'
  BY <1>0, <1>1, <1>2, <1>3, <1>4, <1>5 DEF VolumeInv, BytesAreHeld
<1>v8. FilesAreHeld'
  BY <1>0, <1>1, <1>2, <1>3, <1>4, <1>5 DEF VolumeInv, FilesAreHeld
<1>v9. PurgeIsComplete'
  BY <1>0, <1>1, <1>2, <1>3, <1>4, <1>5 DEF VolumeInv, PurgeIsComplete
<1> QED BY <1>v0, <1>v1, <1>v2, <1>v3, <1>v4, <1>v5, <1>v6, <1>v7, <1>v8, <1>v9 DEF VolumeInv

(* The logo is read, to be replaced or removed.                            *)
LEMMA LogoTaken ==
  ASSUME DeskTyped, VolumeInv, NEW r \in Requests, LogoRead(r) \/ LogoClear(r)
  PROVE  VolumeInv'
<1>0. HandsTyped /\ docs \subseteq Files /\ files \subseteq Files /\ logo \in Files \cup {None} /\ None \notin Files
  BY DeskAssumption DEF DeskTyped, DeskAssumption, None
<1>1. /\ hand'[r].op = "swap" /\ hand[r].op \in {"logo", "idle"} /\ \A s \in Requests : s # r => hand'[s] = hand[s]
      /\ OwnOf(hand'[r]) = OwnOf(hand[r]) /\ PrevOf(hand'[r]) = {logo} \ {None}
      /\ DocsOf(hand'[r]) = {} /\ GoneOf(hand'[r]) = {}
  <2>1. CASE LogoRead(r)
    <3>1. hand[r].file \in Files /\ hand[r].op = "logo"
      BY <1>0, <2>1, HandSorts DEF LogoRead, Holds
    <3>2. [op |-> "swap", file |-> hand[r].file, previous |-> logo] \in Desks
      BY <1>0, <3>1 DEF Desks
    <3>3. /\ hand'[r] = [op |-> "swap", file |-> hand[r].file, previous |-> logo]
          /\ \A s \in Requests : s # r => hand'[s] = hand[s]
      BY <1>0, <2>1, <3>2, Taken DEF LogoRead
    <3> QED BY <3>1, <3>3 DEF OwnOf, PrevOf, DocsOf, GoneOf
  <2>2. CASE LogoClear(r)
    <3>1. [op |-> "swap", file |-> None, previous |-> logo] \in Desks
      BY <1>0 DEF Desks
    <3>2. /\ hand'[r] = [op |-> "swap", file |-> None, previous |-> logo]
          /\ \A s \in Requests : s # r => hand'[s] = hand[s] /\ hand[r].op = "idle"
      BY <1>0, <2>2, <3>1, Taken DEF LogoClear, SignedIn, Holds
    <3> QED BY <2>2, <3>2 DEF OwnOf, PrevOf, DocsOf, GoneOf, LogoClear, SignedIn, Holds
  <2> QED BY <2>1, <2>2
<1>2. /\ PrevOf(hand[r]) = {} /\ DocsOf(hand[r]) = {} /\ GoneOf(hand[r]) = {}
      /\ UNCHANGED <<files, docs, logo, purge, toll>>
  BY <1>1 DEF LogoRead, LogoClear, PrevOf, DocsOf, GoneOf
<1>v0. OwnIsOwn'
  BY <1>0, <1>1, <1>2 DEF VolumeInv, OwnIsOwn
<1>v1. LogosApart'
  BY <1>0, <1>1, <1>2 DEF VolumeInv, LogosApart
<1>v2. ClearedIsOld'
  BY <1>0, <1>1, <1>2 DEF VolumeInv, ClearedIsOld, Holds
<1>v3. GoneIsGone'
  BY <1>0, <1>1, <1>2 DEF VolumeInv, GoneIsGone
<1>v4. ReplacedIsKnown'
  BY <1>0, <1>1, <1>2 DEF VolumeInv, ReplacedIsKnown, Holds
<1>v5. PurgeReadsAll'
  BY <1>0, <1>1, <1>2 DEF VolumeInv, PurgeReadsAll, Holds
<1>v6. LogoIsThere'
  BY <1>0, <1>1, <1>2 DEF VolumeInv, LogoIsThere
<1>v7. BytesAreHeld'
  BY <1>0, <1>1, <1>2 DEF VolumeInv, BytesAreHeld
<1>v8. FilesAreHeld'
  BY <1>0, <1>1, <1>2 DEF VolumeInv, FilesAreHeld
<1>v9. PurgeIsComplete'
  BY <1>0, <1>1, <1>2 DEF VolumeInv, PurgeIsComplete
<1> QED BY <1>v0, <1>v1, <1>v2, <1>v3, <1>v4, <1>v5, <1>v6, <1>v7, <1>v8, <1>v9 DEF VolumeInv

(* The row names the new logo, or none.                                    *)
LEMMA LogoNamed ==
  ASSUME DeskTyped, VolumeInv, NEW r \in Requests, LogoSet(r)
  PROVE  VolumeInv'
<1>0. HandsTyped /\ docs \subseteq Files /\ files \subseteq Files /\ logo \in Files \cup {None} /\ None \notin Files
  BY DeskAssumption DEF DeskTyped, DeskAssumption, None
<1>1. hand[r].op = "swap" /\ hand[r].file \in Files \cup {None} /\ hand[r].previous \in Files \cup {None}
  BY <1>0, HandSorts DEF LogoSet, Holds
<1>2. PICK new \in Files \cup {None}, old \in Files \cup {None} : new = hand[r].file /\ old = hand[r].previous
  BY <1>1
<1>3. /\ OwnOf(hand[r]) = {new} \ {None} /\ PrevOf(hand[r]) = {old} \ {None}
      /\ DocsOf(hand[r]) = {} /\ GoneOf(hand[r]) = {}
  BY <1>1, <1>2 DEF OwnOf, PrevOf, DocsOf, GoneOf
<1>4. /\ hand'[r].op = "clear" /\ \A s \in Requests : s # r => hand'[s] = hand[s]
      /\ OwnOf(hand'[r]) = {} /\ PrevOf(hand'[r]) = {old} \ {None} /\ DocsOf(hand'[r]) = {} /\ GoneOf(hand'[r]) = {}
  <2>1. [op |-> "clear", previous |-> old] \in Desks
    BY DEF Desks
  <2>2. hand'[r] = [op |-> "clear", previous |-> old] /\ \A s \in Requests : s # r => hand'[s] = hand[s]
    BY <1>0, <1>2, <2>1, Taken DEF LogoSet
  <2> QED BY <2>2 DEF OwnOf, PrevOf, DocsOf, GoneOf
<1>5. new = old => new = None
  BY <1>3 DEF VolumeInv, OwnIsOwn
<1>6. /\ logo' = IF new = old THEN logo ELSE new
      /\ toll'.stray = IF new # old /\ logo # old THEN toll.stray \cup ({logo} \ {None}) ELSE toll.stray
      /\ toll'.lost = toll.lost /\ toll'.late = toll.late /\ UNCHANGED <<files, docs, purge>>
  BY <1>2 DEF LogoSet, DeskTyped, Tolls
<1>7. \A s \in Requests : None \notin PrevOf(hand[s])
  BY <1>0, NamesAre
<1>v0. OwnIsOwn'
  BY <1>0, <1>1, <1>3, <1>4, <1>5, <1>6, <1>7 DEF VolumeInv, OwnIsOwn
<1>v1. LogosApart'
  BY <1>0, <1>1, <1>3, <1>4, <1>5, <1>6, <1>7 DEF VolumeInv, LogosApart, OwnIsOwn
<1>v2. ClearedIsOld'
  BY <1>0, <1>1, <1>3, <1>4, <1>5, <1>6, <1>7 DEF VolumeInv, ClearedIsOld, Holds, OwnIsOwn
<1>v3. GoneIsGone'
  BY <1>0, <1>1, <1>3, <1>4, <1>5, <1>6, <1>7 DEF VolumeInv, GoneIsGone
<1>v4. ReplacedIsKnown'
  BY <1>0, <1>1, <1>3, <1>4, <1>5, <1>6, <1>7 DEF VolumeInv, ReplacedIsKnown, Holds
<1>v5. PurgeReadsAll'
  BY <1>0, <1>1, <1>3, <1>4, <1>5, <1>6, <1>7 DEF VolumeInv, PurgeReadsAll, Holds
<1>v6. LogoIsThere'
  BY <1>0, <1>1, <1>3, <1>4, <1>5, <1>6, <1>7 DEF VolumeInv, LogoIsThere, OwnIsOwn
<1>v7. BytesAreHeld'
  BY <1>0, <1>1, <1>3, <1>4, <1>5, <1>6, <1>7 DEF VolumeInv, BytesAreHeld
<1>v8. FilesAreHeld'
  BY <1>0, <1>1, <1>3, <1>4, <1>5, <1>6, <1>7 DEF VolumeInv, FilesAreHeld
<1>v9. PurgeIsComplete'
  BY <1>0, <1>1, <1>3, <1>4, <1>5, <1>6, <1>7 DEF VolumeInv, PurgeIsComplete
<1> QED BY <1>v0, <1>v1, <1>v2, <1>v3, <1>v4, <1>v5, <1>v6, <1>v7, <1>v8, <1>v9 DEF VolumeInv

(* The file of the logo that was replaced goes.                            *)
LEMMA LogoRemoved ==
  ASSUME DeskTyped, VolumeInv, NEW r \in Requests, LogoRemove(r)
  PROVE  VolumeInv'
<1>0. HandsTyped /\ docs \subseteq Files /\ files \subseteq Files /\ logo \in Files \cup {None} /\ None \notin Files
  BY DeskAssumption DEF DeskTyped, DeskAssumption, None
<1>1. /\ hand'[r].op = "idle" /\ \A s \in Requests : s # r => hand'[s] = hand[s]
      /\ OwnOf(hand'[r]) = {} /\ PrevOf(hand'[r]) = {} /\ DocsOf(hand'[r]) = {} /\ GoneOf(hand'[r]) = {}
  <2>1. hand'[r] = Idle /\ \A s \in Requests : s # r => hand'[s] = hand[s]
    BY <1>0, NothingHeld, Taken DEF LogoRemove
  <2> QED BY <2>1, NothingHeld
<1>2. hand[r].op = "clear" /\ hand[r].previous \in Files \cup {None}
  BY <1>0, HandSorts DEF LogoRemove, Holds
<1>3. PICK old \in Files \cup {None} : old = hand[r].previous
  BY <1>2
<1>4. /\ OwnOf(hand[r]) = {} /\ PrevOf(hand[r]) = {old} \ {None} /\ DocsOf(hand[r]) = {} /\ GoneOf(hand[r]) = {}
      /\ files' = files \ {old} /\ UNCHANGED <<docs, logo, purge, toll>>
  BY <1>2, <1>3 DEF LogoRemove, OwnOf, PrevOf, DocsOf, GoneOf
<1>v0. OwnIsOwn'
  BY <1>0, <1>1, <1>2, <1>4 DEF VolumeInv, OwnIsOwn
<1>v1. LogosApart'
  BY <1>0, <1>1, <1>2, <1>4 DEF VolumeInv, LogosApart
<1>v2. ClearedIsOld'
  BY <1>0, <1>1, <1>2, <1>4 DEF VolumeInv, ClearedIsOld, Holds
<1>v3. GoneIsGone'
  BY <1>0, <1>1, <1>2, <1>4 DEF VolumeInv, GoneIsGone
<1>v4. ReplacedIsKnown'
  BY <1>0, <1>1, <1>2, <1>4 DEF VolumeInv, ReplacedIsKnown, Holds
<1>v5. PurgeReadsAll'
  BY <1>0, <1>1, <1>2, <1>4 DEF VolumeInv, PurgeReadsAll, Holds
<1>v6. LogoIsThere'
  BY <1>0, <1>1, <1>2, <1>4 DEF VolumeInv, LogoIsThere, ClearedIsOld, Holds
<1>v7. BytesAreHeld'
  BY <1>0, <1>1, <1>2, <1>4 DEF VolumeInv, BytesAreHeld, LogosApart
<1>v8. FilesAreHeld'
  BY <1>0, <1>1, <1>2, <1>4 DEF VolumeInv, FilesAreHeld
<1>v9. PurgeIsComplete'
  BY <1>0, <1>1, <1>2, <1>4 DEF VolumeInv, PurgeIsComplete
<1> QED BY <1>v0, <1>v1, <1>v2, <1>v3, <1>v4, <1>v5, <1>v6, <1>v7, <1>v8, <1>v9 DEF VolumeInv

(* The purge reads the documents there are.                                *)
LEMMA PurgeBegins ==
  ASSUME DeskTyped, VolumeInv, NEW r \in Requests, PurgeRead(r)
  PROVE  VolumeInv'
<1>0. HandsTyped /\ docs \subseteq Files /\ files \subseteq Files /\ logo \in Files \cup {None} /\ None \notin Files
  BY DeskAssumption DEF DeskTyped, DeskAssumption, None
<1>1. /\ hand'[r].op = "purge" /\ hand[r].op = "idle" /\ \A s \in Requests : s # r => hand'[s] = hand[s]
      /\ OwnOf(hand'[r]) = {} /\ PrevOf(hand'[r]) = {} /\ DocsOf(hand'[r]) = docs /\ GoneOf(hand'[r]) = {}
  <2>1. [op |-> "purge", left |-> docs, gone |-> {}] \in Desks
    BY <1>0 DEF Desks
  <2>2. /\ hand'[r] = [op |-> "purge", left |-> docs, gone |-> {}] /\ \A s \in Requests : s # r => hand'[s] = hand[s]
    BY <1>0, <2>1, Taken DEF PurgeRead
  <2> QED BY <2>2 DEF OwnOf, PrevOf, DocsOf, GoneOf, PurgeRead, Holds
<1>2. OwnOf(hand[r]) = {} /\ PrevOf(hand[r]) = {} /\ DocsOf(hand[r]) = {} /\ GoneOf(hand[r]) = {}
  BY <1>1, NothingHeld
<1>3. UNCHANGED <<files, docs, logo, purge, toll>>
  BY DEF PurgeRead
<1>v0. OwnIsOwn'
  BY <1>0, <1>1, <1>2, <1>3 DEF VolumeInv, OwnIsOwn
<1>v1. LogosApart'
  BY <1>0, <1>1, <1>2, <1>3 DEF VolumeInv, LogosApart
<1>v2. ClearedIsOld'
  BY <1>0, <1>1, <1>2, <1>3 DEF VolumeInv, ClearedIsOld, Holds
<1>v3. GoneIsGone'
  BY <1>0, <1>1, <1>2, <1>3 DEF VolumeInv, GoneIsGone
<1>v4. ReplacedIsKnown'
  BY <1>0, <1>1, <1>2, <1>3 DEF VolumeInv, ReplacedIsKnown, Holds
<1>v5. PurgeReadsAll'
  BY <1>0, <1>1, <1>2, <1>3 DEF VolumeInv, PurgeReadsAll, Holds
<1>v6. LogoIsThere'
  BY <1>0, <1>1, <1>2, <1>3 DEF VolumeInv, LogoIsThere
<1>v7. BytesAreHeld'
  BY <1>0, <1>1, <1>2, <1>3 DEF VolumeInv, BytesAreHeld
<1>v8. FilesAreHeld'
  BY <1>0, <1>1, <1>2, <1>3 DEF VolumeInv, FilesAreHeld
<1>v9. PurgeIsComplete'
  BY <1>0, <1>1, <1>2, <1>3 DEF VolumeInv, PurgeIsComplete
<1> QED BY <1>v0, <1>v1, <1>v2, <1>v3, <1>v4, <1>v5, <1>v6, <1>v7, <1>v8, <1>v9 DEF VolumeInv

(* One file of the purge goes.                                             *)
LEMMA PurgeRemoves ==
  ASSUME DeskTyped, VolumeInv, NEW r \in Requests, PurgeFile(r)
  PROVE  VolumeInv'
<1>0. HandsTyped /\ docs \subseteq Files /\ files \subseteq Files /\ logo \in Files \cup {None} /\ None \notin Files
  BY DeskAssumption DEF DeskTyped, DeskAssumption, None
<1>1. hand[r] \in [op : {"purge"}, left : SUBSET Files, gone : SUBSET Files]
  BY <1>0, HandSorts DEF PurgeFile
<1>2. PICK n \in hand[r].left : /\ files' = files \ {n}
                               /\ Take(r, [hand[r] EXCEPT !.left = @ \ {n}, !.gone = @ \cup {n}])
  BY DEF PurgeFile
<1>3. /\ OwnOf(hand[r]) = {} /\ PrevOf(hand[r]) = {} /\ n \in DocsOf(hand[r]) /\ n \in Files
      /\ hand[r].op = "purge" /\ UNCHANGED <<docs, logo, purge, toll>>
  BY <1>1, <1>2 DEF PurgeFile, OwnOf, PrevOf, DocsOf
<1>4. /\ hand'[r].op = "purge" /\ \A s \in Requests : s # r => hand'[s] = hand[s]
      /\ OwnOf(hand'[r]) = {} /\ PrevOf(hand'[r]) = {} /\ DocsOf(hand'[r]) = DocsOf(hand[r])
      /\ GoneOf(hand'[r]) = GoneOf(hand[r]) \cup {n}
  <2> DEFINE what == [hand[r] EXCEPT !.left = @ \ {n}, !.gone = @ \cup {n}]
  <2>1. /\ what \in Desks /\ what.op = "purge" /\ what.left = hand[r].left \ {n}
        /\ what.gone = hand[r].gone \cup {n}
    BY <1>1, <1>2 DEF Desks
  <2>2. Take(r, what)
    BY <1>2
  <2> HIDE DEF what
  <2>3. hand'[r] = what /\ \A s \in Requests : s # r => hand'[s] = hand[s]
    BY <1>0, <2>1, <2>2, Taken
  <2> QED BY SMTT(30), <1>1, <1>2, <2>1, <2>3 DEF OwnOf, PrevOf, DocsOf, GoneOf
<1>5. files' = files \ {n}
  BY <1>2
<1>v0. OwnIsOwn'
  BY <1>0, <1>3, <1>4, <1>5 DEF VolumeInv, OwnIsOwn
<1>v1. LogosApart'
  BY <1>0, <1>3, <1>4, <1>5 DEF VolumeInv, LogosApart
<1>v2. ClearedIsOld'
  BY <1>0, <1>3, <1>4, <1>5 DEF VolumeInv, ClearedIsOld, Holds
<1>v3. GoneIsGone'
  BY <1>0, <1>3, <1>4, <1>5 DEF VolumeInv, GoneIsGone
<1>v4. ReplacedIsKnown'
  BY <1>0, <1>3, <1>4, <1>5 DEF VolumeInv, ReplacedIsKnown, Holds
<1>v5. PurgeReadsAll'
  BY <1>0, <1>3, <1>4, <1>5 DEF VolumeInv, PurgeReadsAll, Holds
<1>v6. LogoIsThere'
  BY <1>0, <1>3, <1>4, <1>5 DEF VolumeInv, LogoIsThere, LogosApart
<1>v7. BytesAreHeld'
  BY <1>0, <1>3, <1>4, <1>5 DEF VolumeInv, BytesAreHeld
<1>v8. FilesAreHeld'
  BY <1>0, <1>3, <1>4, <1>5 DEF VolumeInv, FilesAreHeld
<1>v9. PurgeIsComplete'
  BY <1>0, <1>3, <1>4, <1>5 DEF VolumeInv, PurgeIsComplete
<1> QED BY <1>v0, <1>v1, <1>v2, <1>v3, <1>v4, <1>v5, <1>v6, <1>v7, <1>v8, <1>v9 DEF VolumeInv

(* The purge is refused: what it has removed is lost.                      *)
LEMMA PurgeFails ==
  ASSUME DeskTyped, VolumeInv, NEW r \in Requests, PurgeRefused(r)
  PROVE  VolumeInv'
<1>0. HandsTyped /\ docs \subseteq Files /\ files \subseteq Files /\ logo \in Files \cup {None} /\ None \notin Files
  BY DeskAssumption DEF DeskTyped, DeskAssumption, None
<1>1. /\ hand'[r].op = "idle" /\ \A s \in Requests : s # r => hand'[s] = hand[s]
      /\ OwnOf(hand'[r]) = {} /\ PrevOf(hand'[r]) = {} /\ DocsOf(hand'[r]) = {} /\ GoneOf(hand'[r]) = {}
  <2>1. hand'[r] = Idle /\ \A s \in Requests : s # r => hand'[s] = hand[s]
    BY <1>0, NothingHeld, Taken DEF PurgeRefused
  <2> QED BY <2>1, NothingHeld
<1>2. /\ OwnOf(hand[r]) = {} /\ PrevOf(hand[r]) = {} /\ hand[r].op = "purge"
      /\ GoneOf(hand[r]) = hand[r].gone /\ UNCHANGED <<files, docs, logo, purge>>
  BY DEF PurgeRefused, OwnOf, PrevOf, GoneOf, Holds
<1>3. /\ toll'.stray = toll.stray /\ toll'.late = toll.late
      /\ toll'.lost = toll.lost \cup (GoneOf(hand[r]) \cap docs)
  BY <1>2 DEF PurgeRefused, DeskTyped, Tolls
<1>v0. OwnIsOwn'
  BY <1>0, <1>1, <1>2, <1>3 DEF VolumeInv, OwnIsOwn
<1>v1. LogosApart'
  BY <1>0, <1>1, <1>2, <1>3 DEF VolumeInv, LogosApart
<1>v2. ClearedIsOld'
  BY <1>0, <1>1, <1>2, <1>3 DEF VolumeInv, ClearedIsOld, Holds
<1>v3. GoneIsGone'
  BY <1>0, <1>1, <1>2, <1>3 DEF VolumeInv, GoneIsGone
<1>v4. ReplacedIsKnown'
  BY <1>0, <1>1, <1>2, <1>3 DEF VolumeInv, ReplacedIsKnown, Holds
<1>v5. PurgeReadsAll'
  BY <1>0, <1>1, <1>2, <1>3 DEF VolumeInv, PurgeReadsAll, Holds
<1>v6. LogoIsThere'
  BY <1>0, <1>1, <1>2, <1>3 DEF VolumeInv, LogoIsThere
<1>v7. BytesAreHeld'
  BY <1>0, <1>1, <1>2, <1>3 DEF VolumeInv, BytesAreHeld
<1>v8. FilesAreHeld'
  BY <1>0, <1>1, <1>2, <1>3 DEF VolumeInv, FilesAreHeld, GoneIsGone
<1>v9. PurgeIsComplete'
  BY <1>0, <1>1, <1>2, <1>3 DEF VolumeInv, PurgeIsComplete
<1> QED BY <1>v0, <1>v1, <1>v2, <1>v3, <1>v4, <1>v5, <1>v6, <1>v7, <1>v8, <1>v9 DEF VolumeInv

(* The purge commits, with every file it read removed.                     *)
LEMMA PurgeEnds ==
  ASSUME DeskTyped, VolumeInv, NEW r \in Requests, PurgeCommit(r)
  PROVE  VolumeInv'
<1>0. HandsTyped /\ docs \subseteq Files /\ files \subseteq Files /\ logo \in Files \cup {None} /\ None \notin Files
  BY DeskAssumption DEF DeskTyped, DeskAssumption, None
<1>1. /\ hand'[r].op = "idle" /\ \A s \in Requests : s # r => hand'[s] = hand[s]
      /\ OwnOf(hand'[r]) = {} /\ PrevOf(hand'[r]) = {} /\ DocsOf(hand'[r]) = {} /\ GoneOf(hand'[r]) = {}
  <2>1. hand'[r] = Idle /\ \A s \in Requests : s # r => hand'[s] = hand[s]
    BY <1>0, NothingHeld, Taken DEF PurgeCommit
  <2> QED BY <2>1, NothingHeld
<1>2. /\ OwnOf(hand[r]) = {} /\ PrevOf(hand[r]) = {} /\ hand[r].op = "purge"
      /\ DocsOf(hand[r]) = GoneOf(hand[r]) /\ docs' = docs \ GoneOf(hand[r]) /\ purge' = "purged"
      /\ UNCHANGED <<files, logo, toll>>
  BY DEF PurgeCommit, OwnOf, PrevOf, DocsOf, GoneOf, Holds
<1>3. GoneOf(hand[r]) \cap files = {}
  BY DEF VolumeInv, GoneIsGone
<1>v0. OwnIsOwn'
  BY <1>0, <1>1, <1>2, <1>3 DEF VolumeInv, OwnIsOwn
<1>v1. LogosApart'
  BY <1>0, <1>1, <1>2, <1>3 DEF VolumeInv, LogosApart
<1>v2. ClearedIsOld'
  BY <1>0, <1>1, <1>2, <1>3 DEF VolumeInv, ClearedIsOld, Holds
<1>v3. GoneIsGone'
  BY <1>0, <1>1, <1>2, <1>3 DEF VolumeInv, GoneIsGone
<1>v4. ReplacedIsKnown'
  BY <1>0, <1>1, <1>2, <1>3 DEF VolumeInv, ReplacedIsKnown, Holds
<1>v5. PurgeReadsAll'
  BY <1>0, <1>1, <1>2, <1>3 DEF VolumeInv, PurgeReadsAll, Holds
<1>v6. LogoIsThere'
  BY <1>0, <1>1, <1>2, <1>3 DEF VolumeInv, LogoIsThere
<1>v7. BytesAreHeld'
  BY <1>0, <1>1, <1>2, <1>3 DEF VolumeInv, BytesAreHeld
<1>v8. FilesAreHeld'
  BY <1>0, <1>1, <1>2, <1>3 DEF VolumeInv, FilesAreHeld, GoneIsGone
<1>v9. PurgeIsComplete'
  BY <1>0, <1>1, <1>2, <1>3 DEF VolumeInv, PurgeIsComplete, PurgeReadsAll, Holds
<1> QED BY <1>v0, <1>v1, <1>v2, <1>v3, <1>v4, <1>v5, <1>v6, <1>v7, <1>v8, <1>v9 DEF VolumeInv

(* A request dies.                                                         *)
LEMMA RequestDies ==
  ASSUME DeskTyped, VolumeInv, NEW r \in Requests, Die(r)
  PROVE  VolumeInv'
<1>0. HandsTyped /\ docs \subseteq Files /\ files \subseteq Files /\ logo \in Files \cup {None} /\ None \notin Files
  BY DeskAssumption DEF DeskTyped, DeskAssumption, None
<1>1. /\ hand'[r].op = "idle" /\ \A s \in Requests : s # r => hand'[s] = hand[s]
      /\ OwnOf(hand'[r]) = {} /\ PrevOf(hand'[r]) = {} /\ DocsOf(hand'[r]) = {} /\ GoneOf(hand'[r]) = {}
  <2>1. hand'[r] = Idle /\ \A s \in Requests : s # r => hand'[s] = hand[s]
    BY <1>0, NothingHeld, Taken DEF Die
  <2> QED BY <2>1, NothingHeld
<1>2. /\ toll'.stray = toll.stray \cup Strays(r) /\ toll'.lost = toll.lost \cup Removed(r)
      /\ toll'.late = toll.late /\ UNCHANGED <<files, docs, logo, purge>>
  BY DEF Die, DeskTyped, Tolls
<1>3. /\ Removed(r) = GoneOf(hand[r]) \cap docs
      /\ Strays(r) = OwnOf(hand[r]) \cup (IF Holds(r, "clear") THEN PrevOf(hand[r]) \ {logo} ELSE {})
  BY <1>0, NamesAre
<1>4. PrevOf(hand[r]) # {} => Holds(r, "swap") \/ Holds(r, "clear")
  BY DEF PrevOf, Holds
<1>v0. OwnIsOwn'
  BY <1>0, <1>1, <1>2, <1>3, <1>4 DEF VolumeInv, OwnIsOwn
<1>v1. LogosApart'
  BY <1>0, <1>1, <1>2, <1>3, <1>4 DEF VolumeInv, LogosApart
<1>v2. ClearedIsOld'
  BY <1>0, <1>1, <1>2, <1>3, <1>4 DEF VolumeInv, ClearedIsOld, Holds
<1>v3. GoneIsGone'
  BY <1>0, <1>1, <1>2, <1>3, <1>4 DEF VolumeInv, GoneIsGone
<1>v4. ReplacedIsKnown'
  BY <1>0, <1>1, <1>2, <1>3, <1>4 DEF VolumeInv, ReplacedIsKnown, Holds, ClearedIsOld
<1>v5. PurgeReadsAll'
  BY <1>0, <1>1, <1>2, <1>3, <1>4 DEF VolumeInv, PurgeReadsAll, Holds
<1>v6. LogoIsThere'
  BY <1>0, <1>1, <1>2, <1>3, <1>4 DEF VolumeInv, LogoIsThere
<1>v7. BytesAreHeld'
  BY <1>0, <1>1, <1>2, <1>3, <1>4 DEF VolumeInv, BytesAreHeld
<1>v8. FilesAreHeld'
  BY <1>0, <1>1, <1>2, <1>3, <1>4 DEF VolumeInv, FilesAreHeld, ClearedIsOld, GoneIsGone, ReplacedIsKnown, Holds
<1>v9. PurgeIsComplete'
  BY <1>0, <1>1, <1>2, <1>3, <1>4 DEF VolumeInv, PurgeIsComplete
<1> QED BY <1>v0, <1>v1, <1>v2, <1>v3, <1>v4, <1>v5, <1>v6, <1>v7, <1>v8, <1>v9 DEF VolumeInv

-----------------------------------------------------------------------------
(* What has nothing to do with the volume.                                 *)
LEMMA PortalStays ==
  ASSUME DeskTyped, VolumeInv,
         \/ UNCHANGED deskVars \/ LinkExpires \/ PurgeDue
         \/ \E r \in Requests :
              \/ LinkCreate(r) \/ LinkRevoke(r) \/ PostCheck(r) \/ PostMessage(r) \/ PostLog(r) \/ PostTell(r)
              \/ ExportAsk(r) \/ ExportRead(r) \/ ExportSend(r)
  PROVE  VolumeInv'
<1>0. HandsTyped
  BY DEF DeskTyped
<1>1. CASE UNCHANGED deskVars \/ LinkExpires \/ PurgeDue
  <2>1. UNCHANGED <<files, docs, logo, toll, hand>> /\ (purge' = purge \/ purge' = "eligible")
    BY <1>1 DEF deskVars, LinkExpires, PurgeDue
  <2> QED BY <2>1, VolumeStays
<1>2. ASSUME NEW r \in Requests, LinkCreate(r) \/ LinkRevoke(r) \/ ExportAsk(r)
      PROVE  VolumeInv'
  <2>1. UNCHANGED <<files, docs, logo, toll, hand, purge>>
    BY <1>2 DEF LinkCreate, LinkRevoke, ExportAsk
  <2> QED BY <2>1, VolumeStays
<1>3. ASSUME NEW r \in Requests, PostTell(r) \/ ExportSend(r) \/ PostCheck(r) \/ ExportRead(r)
      PROVE  VolumeInv'
  <2>1. UNCHANGED <<files, docs, logo, toll, purge>> /\ hand[r].op \in {"idle", "export", "post"}
    BY <1>3 DEF PostTell, ExportSend, PostCheck, ExportRead, SignedIn, Holds
  <2>2. \E what : what.op \in {"idle", "export", "post"} /\ Take(r, what)
    BY <1>3, NothingHeld DEF PostTell, ExportSend, PostCheck, ExportRead
  <2>3. \A s \in Requests : hand'[s] = hand[s] \/ {hand[s].op, hand'[s].op} \subseteq {"idle", "export", "post"}
    BY <1>0, <2>1, <2>2 DEF HandsTyped, Take
  <2> QED BY <2>1, <2>3, VolumeStays
<1>4. ASSUME NEW r \in Requests, PostMessage(r) \/ PostLog(r)
      PROVE  VolumeInv'
  <2>1. /\ UNCHANGED <<files, docs, logo, toll, purge>> /\ hand[r].op = "post"
        /\ hand[r] \in [op : {"post"}, step : {"checked", "posted", "logged"}]
    BY <1>0, <1>4, HandSorts DEF PostMessage, PostLog, Holds
  <2>2. \A step : [hand[r] EXCEPT !.step = step].op = "post"
    BY <2>1
  <2>3. \E what : what.op \in {"idle", "export", "post"} /\ Take(r, what)
    <3>1. \E step : Take(r, [hand[r] EXCEPT !.step = step])
      BY <1>4 DEF PostMessage, PostLog
    <3>2. PICK step : Take(r, [hand[r] EXCEPT !.step = step])
      BY <3>1
    <3> DEFINE next == [hand[r] EXCEPT !.step = step]
    <3>3. next.op \in {"idle", "export", "post"} /\ Take(r, next)
      BY <2>2, <3>2
    <3> HIDE DEF next
    <3> QED BY <3>3
  <2>4. \A s \in Requests : hand'[s] = hand[s] \/ {hand[s].op, hand'[s].op} \subseteq {"idle", "export", "post"}
    BY <1>0, <2>1, <2>3 DEF HandsTyped, Take
  <2> QED BY <2>1, <2>4, VolumeStays
<1> QED BY <1>1, <1>2, <1>3, <1>4

LEMMA VolumeKept ==
  ASSUME DeskTyped, VolumeInv, [DeskNext]_deskVars
  PROVE  VolumeInv'
BY FileAdded, FileTooLarge, FileNamed, DocumentRead, BytesRemoved, DocumentKept, RowRemoved,
   LogoTaken, LogoNamed, LogoRemoved, PurgeBegins, PurgeRemoves, PurgeFails, PurgeEnds, RequestDies, PortalStays
   DEF DeskNext, DocumentsNext, LogoNext, PortalNext, Purge

DeskInv == DeskTyped /\ DeskCounts /\ VolumeInv

LEMMA InitDeskInv ==
  ASSUME DeskInit
  PROVE  DeskInv
BY InitDesk, InitVolume DEF DeskInv

LEMMA DeskKept ==
  ASSUME DeskInv, [DeskNext]_deskVars
  PROVE  DeskInv'
BY DeskTypedKept, DeskCountsKept, VolumeKept DEF DeskInv

LEMMA DeskSound == DeskInv => DeskTypeOK /\ DeskIsSound
BY DeskTypesHold, BytesAre DEF DeskInv, DeskIsSound, DeskTyped, DeskCounts, VolumeInv

(* The action of RevokedMeansRevoked.                                      *)
NoneBegins == \A r \in Requests : link # "active" /\ link' # "active" => ~ (Holds(r, "idle") /\ hand'[r].op = "post")

LEMMA RevocationHolds ==
  ASSUME DeskTyped, [DeskNext]_deskVars
  PROVE  NoneBegins
<1>0. HandsTyped /\ Idle.op = "idle" /\ docs \subseteq Files /\ logo \in Files \cup {None}
  BY NothingHeld DEF DeskTyped
<1> SUFFICES ASSUME NEW r \in Requests, link # "active", hand[r].op = "idle", hand'[r].op = "post"
             PROVE  FALSE
  BY DEF NoneBegins, Holds
<1>1. hand' # hand
  OBVIOUS
<1>2. ASSUME NEW s \in Requests, NEW what, Take(s, what), hand[s].op = "idle" => what.op # "post"
      PROVE  FALSE
  BY <1>0, <1>2 DEF HandsTyped, Take
<1>3. ASSUME NEW s \in Requests, hand[s].op # "idle", \E what : Take(s, what)
      PROVE  FALSE
  BY <1>0, <1>3 DEF HandsTyped, Take
<1>4. ASSUME NEW s \in Requests, NEW n \in Files, UploadFile(s, n) \/ LogoFile(s, n) \/ DeleteRead(s, n)
      PROVE  FALSE
  <2>1. CASE UploadFile(s, n)
    BY <1>2, <2>1 DEF UploadFile
  <2>2. CASE LogoFile(s, n)
    BY <1>2, <2>2 DEF LogoFile
  <2>3. CASE DeleteRead(s, n)
    BY <1>2, <2>3 DEF DeleteRead
  <2> QED BY <1>4, <2>1, <2>2, <2>3
<1>5. ASSUME NEW s \in Requests, LogoClear(s) \/ PurgeRead(s) \/ ExportRead(s)
      PROVE  FALSE
  <2>1. CASE LogoClear(s)
    BY <1>2, <2>1 DEF LogoClear
  <2>2. CASE PurgeRead(s)
    BY <1>2, <2>2 DEF PurgeRead
  <2>3. CASE ExportRead(s)
    BY <1>2, <2>3 DEF ExportRead
  <2> QED BY <1>5, <2>1, <2>2, <2>3
<1>6. ASSUME NEW s \in Requests,
             \/ UploadTooLarge(s) \/ UploadRow(s) \/ DeleteFile(s) \/ DeleteRefused(s) \/ DeleteRow(s)
             \/ LogoRead(s) \/ LogoSet(s) \/ LogoRemove(s)
      PROVE  FALSE
  BY <1>3, <1>6 DEF UploadTooLarge, UploadRow, DeleteFile, DeleteRefused, DeleteRow, LogoRead, LogoSet, LogoRemove, Holds
<1>7. ASSUME NEW s \in Requests,
             \/ PostMessage(s) \/ PostLog(s) \/ PostTell(s) \/ ExportSend(s)
             \/ PurgeFile(s) \/ PurgeRefused(s) \/ PurgeCommit(s) \/ Die(s)
      PROVE  FALSE
  BY <1>3, <1>7 DEF PostMessage, PostLog, PostTell, ExportSend, PurgeFile, PurgeRefused, PurgeCommit, Die, Holds
<1>8. ASSUME NEW s \in Requests, LinkCreate(s) \/ LinkRevoke(s) \/ ExportAsk(s) \/ PostCheck(s)
      PROVE  FALSE
  BY <1>1, <1>8 DEF LinkCreate, LinkRevoke, ExportAsk, PostCheck
<1>9. CASE UNCHANGED deskVars \/ LinkExpires \/ PurgeDue
  BY <1>1, <1>9 DEF deskVars, LinkExpires, PurgeDue
<1> QED BY <1>4, <1>5, <1>6, <1>7, <1>8, <1>9 DEF DeskNext, DocumentsNext, LogoNext, PortalNext, Purge

(***************************************************************************)
(* Diary                                                                   *)
(***************************************************************************)

(* What an actor is in the middle of.                                      *)
Notes    == [project : Projects, to : Team]
TaskStatuses == {"open", "done", "cancelled"}
Visits   == [op : {"visit"}, target : Ends, seen : {"scheduled"}]
Tasks    == [op : {"task"}, target : TaskStatuses, seen : TaskStatuses, stamped : BOOLEAN]
Follows  == [op : {"follow"}, due : SUBSET Projects, left : SUBSET Projects, writing : SUBSET Notes,
             read : [Projects -> SUBSET (Team \cup {Unset})]]
Reminds  == [op : {"remind"}, kind : Kinds, left : SUBSET Owners, to : SUBSET Owners, able : {TRUE}]

Doings == [op : {"free", "log"}] \cup Visits \cup Tasks \cup Follows \cup Reminds

DoingTyped == doing \in [Actors -> Doings]

LEMMA DoingSorts ==
  ASSUME DoingTyped, NEW a \in Actors
  PROVE  /\ doing[a] \in Doings
         /\ doing[a].op \in {"free", "log", "visit", "task", "follow", "remind"}
         /\ On(a, "visit") => doing[a] \in Visits
         /\ On(a, "task") => doing[a] \in Tasks
         /\ On(a, "follow") => doing[a] \in Follows
         /\ On(a, "remind") => doing[a] \in Reminds
<1>1. doing[a] \in Doings
  BY DEF DoingTyped
<1> QED BY <1>1 DEF Doings, Visits, Tasks, Follows, Reminds, On

LEMMA Turned ==
  ASSUME DoingTyped, NEW a \in Actors, NEW what \in Doings, Turn(a, what)
  PROVE  /\ DoingTyped' /\ doing'[a] = what
         /\ \A b \in Actors : b # a => doing'[b] = doing[b]
BY DEF DoingTyped, Turn

LEMMA FreeIs == Free \in Doings /\ Free.op = "free" /\ [op |-> "log"] \in Doings
BY DEF Free, Doings

VisitRows   == [status : {Unset, "scheduled"} \cup Ends, scheduled : 0 .. 1, completed : Nat, cancelled : Nat]
TaskRows    == [status : TaskStatuses, completed : BOOLEAN, logged : Nat, sets : 0 .. MaxTaskSets]
ProjectRows == [status : {"enquiry", "moved"}, assignee : Team \cup {Unset}, stale : BOOLEAN]
Blots       == [visit : BOOLEAN, task : BOOLEAN, unlogged : Nat, stops : 0 .. MaxStops]
Mails       == [Kinds -> [Owners -> {Unset, "pending", "sent", "failed", "unsendable"}]]

VisitIsKnown ==
  /\ visit.scheduled = IF visit.status = Unset THEN 0 ELSE 1
  /\ \A a \in Actors : On(a, "visit") => visit.status # Unset

DiaryTyped ==
  /\ visit \in VisitRows /\ VisitIsKnown
  /\ task \in TaskRows /\ projects \in [Projects -> ProjectRows] /\ notes \subseteq Notes
  /\ trial \in {"running", "ending", "expired", "subscribed"}
  /\ mail \in Mails /\ DoingTyped /\ blots \in Blots

(* What the visits, the tasks, the runs and the reminders keep.            *)
Visiting == {a \in Actors : On(a, "visit")}
Tasking  == {a \in Actors : On(a, "task") \/ On(a, "log")}

VisitCounts ==
  /\ VisitIsLogged
  /\ visit.status \notin Ends => visit.completed + visit.cancelled = 0
  /\ visit.completed + visit.cancelled + Cardinality(Visiting) <= Cardinality(Actors)

TaskCounts == TaskTimeIsTrue /\ task.logged + Cardinality(Tasking) <= task.sets

(* What a run has still to do, and what it is about to write, is stale.    *)
FollowsAreDue ==
  \A a \in Actors : On(a, "follow") =>
    /\ \A p \in doing[a].left : projects[p].stale
    /\ \A n \in doing[a].writing : projects[n.project].stale
    /\ \A m, n \in doing[a].writing : m = n

(* The reminders a run has in hand: one at a time, recorded, about a trial *)
(* that had come that far, and under way for one run only.                 *)
ComeTo(k) == IF k = "ending" THEN trial # "running" ELSE trial \in {"expired", "subscribed"}

RemindsAreDue ==
  \A a \in Actors : On(a, "remind") =>
    /\ ComeTo(doing[a].kind) /\ doing[a].to \subseteq doing[a].left
    /\ \A u, v \in doing[a].to : u = v
    /\ \A o \in doing[a].to : mail[doing[a].kind][o] # Unset
    /\ \A o \in doing[a].to, b \in Actors :
         /\ mail[doing[a].kind][o] = "pending" /\ On(b, "remind")
         /\ doing[b].kind = doing[a].kind /\ o \in doing[b].to
         => b = a

MailIsDue ==
  \A k \in Kinds, o \in Owners : mail[k][o] # "unsendable" /\ (mail[k][o] # Unset => ComeTo(k))

Pending == {m \in Kinds \X Owners : mail[m[1]][m[2]] = "pending"}
Senders == {a \in Actors : On(a, "remind") /\ \E o \in doing[a].to : mail[doing[a].kind][o] = "pending"}

PendingIsKnown == Cardinality(Pending) <= blots.stops + Cardinality(Senders)

DiaryInv ==
  /\ DiaryTyped /\ VisitCounts /\ TaskCounts /\ FollowedUpOnce /\ FollowsAreDue
  /\ RemindsAreDue /\ MailIsDue /\ PendingIsKnown

LEMMA InitDiary ==
  ASSUME DiaryInit
  PROVE  DiaryInv
<1>0. /\ FirstOwner \in Owners /\ IsFiniteSet(Actors) /\ 0 \in 0 .. MaxTaskSets /\ 0 \in 0 .. MaxStops
  BY DiaryAssumption DEF DiaryAssumption
<1>1. DoingTyped /\ \A a \in Actors : doing[a].op = "free"
  BY FreeIs DEF DiaryInit, DoingTyped
<1>2. DiaryTyped
  <2>1. projects \in [Projects -> ProjectRows] /\ mail \in Mails
    BY DEF DiaryInit, ProjectRows, Mails, Unset
  <2>2. visit \in VisitRows /\ VisitIsKnown
    BY <1>1 DEF DiaryInit, VisitRows, VisitIsKnown, On
  <2> QED BY <1>0, <1>1, <2>1, <2>2 DEF DiaryInit, DiaryTyped, TaskRows, TaskStatuses, Blots
<1>3. Visiting = {} /\ Tasking = {} /\ Senders = {} /\ Pending = {}
  <2>1. Visiting = {} /\ Tasking = {} /\ Senders = {}
    BY <1>1 DEF Visiting, Tasking, Senders, On
  <2>2. \A m \in Kinds \X Owners : mail[m[1]][m[2]] = Unset
    BY DEF DiaryInit
  <2> QED BY <2>1, <2>2 DEF Pending, Unset
<1>4. Cardinality({}) = 0 /\ Cardinality(Actors) \in Nat
  BY <1>0, FS_EmptySet, FS_CardinalityType
<1>5. VisitCounts
  BY <1>3, <1>4 DEF DiaryInit, VisitCounts, VisitIsLogged, Ends, Unset
<1>8. TaskCounts
  <2>1. task.completed = FALSE /\ task.status = "open" /\ task.logged = 0 /\ task.sets = 0
    BY DEF DiaryInit
  <2>2. task.status # "done" /\ task.completed = (task.status = "done")
    BY <2>1
  <2> QED BY <1>3, <1>4, <2>1, <2>2 DEF TaskCounts, TaskTimeIsTrue
<1>9. PendingIsKnown
  BY <1>3, <1>4 DEF DiaryInit, PendingIsKnown
<1>6. FollowedUpOnce /\ FollowsAreDue /\ RemindsAreDue
  BY <1>1 DEF DiaryInit, FollowedUpOnce, FollowsAreDue, RemindsAreDue, On
<1>7. MailIsDue
  BY DEF DiaryInit, MailIsDue, Unset
<1> QED BY <1>2, <1>5, <1>6, <1>7, <1>8, <1>9 DEF DiaryInv

-----------------------------------------------------------------------------
(* What each step leaves the actor with.                                   *)
LEMMA ActorEnds ==
  ASSUME DiaryTyped, NEW a \in Actors, EndVisit(a) \/ LogTask(a) \/ RemindEnd(a) \/ Stop(a)
  PROVE  DoingTyped' /\ doing'[a] = Free /\ \A b \in Actors : b # a => doing'[b] = doing[b]
BY FreeIs, Turned DEF DiaryTyped, EndVisit, LogTask, RemindEnd, Stop

LEMMA VisitRead ==
  ASSUME DiaryTyped, NEW a \in Actors, NEW end \in Ends, ReadVisit(a, end)
  PROVE  /\ DoingTyped' /\ doing'[a].op = "visit" /\ doing'[a].target = end
         /\ \A b \in Actors : b # a => doing'[b] = doing[b]
<1>1. [op |-> "visit", target |-> end, seen |-> "scheduled"] \in Doings
  BY DEF Doings, Visits
<1>2. /\ DoingTyped' /\ \A b \in Actors : b # a => doing'[b] = doing[b]
      /\ doing'[a] = [op |-> "visit", target |-> end, seen |-> "scheduled"]
  BY <1>1, Turned DEF DiaryTyped, ReadVisit
<1> QED BY <1>2

LEMMA TaskRead ==
  ASSUME DiaryTyped, NEW a \in Actors, NEW s \in TaskStatuses, ReadTask(a, s)
  PROVE  /\ DoingTyped' /\ doing'[a].op = "task"
         /\ \A b \in Actors : b # a => doing'[b] = doing[b]
<1>1. [op |-> "task", target |-> s, seen |-> task.status, stamped |-> task.completed] \in Doings
  BY DEF Doings, Tasks, DiaryTyped, TaskRows
<1>2. /\ DoingTyped' /\ \A b \in Actors : b # a => doing'[b] = doing[b]
      /\ doing'[a] = [op |-> "task", target |-> s, seen |-> task.status, stamped |-> task.completed]
  BY <1>1, Turned DEF DiaryTyped, ReadTask
<1> QED BY <1>2

LEMMA TaskWritten ==
  ASSUME DiaryTyped, NEW a \in Actors, WriteTask(a)
  PROVE  /\ DoingTyped' /\ doing[a] \in Tasks
         /\ doing'[a].op = IF doing[a].target = "done" THEN "log" ELSE "free"
         /\ \A b \in Actors : b # a => doing'[b] = doing[b]
<1>1. (IF doing[a].target = "done" THEN [op |-> "log"] ELSE Free) \in Doings
  BY FreeIs
<1>2. DoingTyped
  BY DEF DiaryTyped
<1>3. doing[a] \in Tasks
  BY <1>2, DoingSorts DEF WriteTask
<1>4. DoingTyped' /\ \A b \in Actors : b # a => doing'[b] = doing[b]
  BY <1>1, <1>2, Turned DEF WriteTask
<1>5. doing'[a] = IF doing[a].target = "done" THEN [op |-> "log"] ELSE Free
  BY <1>1, <1>2, Turned DEF WriteTask
<1> QED BY <1>3, <1>4, <1>5, FreeIs

LEMMA FollowBegins ==
  ASSUME DiaryTyped, NEW a \in Actors, FollowStart(a)
  PROVE  /\ DoingTyped' /\ \A b \in Actors : b # a => doing'[b] = doing[b]
         /\ doing'[a].op = "follow" /\ doing'[a].due = Due /\ doing'[a].left = Due /\ doing'[a].writing = {}
<1> DEFINE what == [op |-> "follow", due |-> Due, left |-> Due, writing |-> {},
                    read |-> [p \in Projects |-> {projects[p].assignee}]]
<1>1. what \in Doings
  <2>1. [p \in Projects |-> {projects[p].assignee}] \in [Projects -> SUBSET (Team \cup {Unset})]
    BY DEF DiaryTyped, ProjectRows
  <2> QED BY <2>1 DEF Doings, Follows, Due
<1>2. what.op = "follow" /\ what.due = Due /\ what.left = Due /\ what.writing = {} /\ Turn(a, what)
  BY DEF FollowStart
<1> HIDE DEF what
<1> QED BY <1>1, <1>2, Turned DEF DiaryTyped

LEMMA RecipientIs ==
  ASSUME DiaryTyped, NEW a \in Actors, NEW p \in Projects, On(a, "follow")
  PROVE  Recipient(a, p) \in Team
<1>1. doing[a] \in Follows
  BY DoingSorts DEF DiaryTyped
<1>2. doing[a].read[p] \subseteq Team \cup {Unset} /\ projects[p].assignee \in Team \cup {Unset}
  BY <1>1 DEF Follows, DiaryTyped, ProjectRows
<1>3. doing[a].read[p] # {} => (CHOOSE u \in doing[a].read[p] : TRUE) \in doing[a].read[p]
  OBVIOUS
<1>4. FirstOwner \in Team
  BY DiaryAssumption DEF DiaryAssumption, Team
<1> QED BY <1>2, <1>3, <1>4 DEF Recipient

LEMMA FollowGoes ==
  ASSUME DiaryTyped, NEW a \in Actors, NEW p \in Projects, FollowOne(a, p)
  PROVE  /\ DoingTyped' /\ \A b \in Actors : b # a => doing'[b] = doing[b]
         /\ doing'[a].op = "follow" /\ doing'[a].due = doing[a].due
         /\ doing'[a].left = IF Noted(p) THEN doing[a].left \ {p} ELSE doing[a].left
         /\ doing'[a].writing = IF Noted(p) THEN {} ELSE {[project |-> p, to |-> Recipient(a, p)]}
<1>1. doing[a] \in Follows
  BY DoingSorts DEF DiaryTyped, FollowOne
<1>2. PICK rest \in SUBSET Projects : rest = IF Noted(p) THEN doing[a].left \ {p} ELSE doing[a].left
  BY <1>1 DEF Follows
<1>3. PICK new \in SUBSET Notes : new = IF Noted(p) THEN {} ELSE {[project |-> p, to |-> Recipient(a, p)]}
  <2>1. Recipient(a, p) \in Team
    BY RecipientIs DEF FollowOne
  <2>2. {[project |-> p, to |-> Recipient(a, p)]} \in SUBSET Notes /\ {} \in SUBSET Notes
    BY <2>1 DEF Notes
  <2> QED BY <2>2
<1> DEFINE what == [doing[a] EXCEPT !.left = rest, !.writing = new]
<1>4. what \in Doings /\ what.op = "follow" /\ what.due = doing[a].due /\ what.left = rest /\ what.writing = new
  <2>1. rest \in SUBSET Projects /\ new \in SUBSET Notes
    OBVIOUS
  <2> HIDE <1>2, <1>3
  <2> QED BY <1>1, <2>1 DEF Doings, Follows
<1>5. Turn(a, what)
  BY <1>2, <1>3 DEF FollowOne
<1> HIDE DEF what
<1>6. DoingTyped' /\ doing'[a] = what /\ \A b \in Actors : b # a => doing'[b] = doing[b]
  BY <1>4, <1>5, Turned DEF DiaryTyped
<1> QED BY <1>2, <1>3, <1>4, <1>6

LEMMA NoteWritten ==
  ASSUME DiaryTyped, NEW a \in Actors, FollowWrite(a)
  PROVE  /\ DoingTyped' /\ \A b \in Actors : b # a => doing'[b] = doing[b]
         /\ doing'[a].op = "follow" /\ doing'[a].due = doing[a].due /\ doing'[a].writing = {}
         /\ doing'[a].left = doing[a].left \ {n.project : n \in doing[a].writing}
<1>1. doing[a] \in Follows
  BY DoingSorts DEF DiaryTyped, FollowWrite
<1> DEFINE what == [doing[a] EXCEPT !.left = @ \ {n.project : n \in doing[a].writing}, !.writing = {},
                                    !.read = [p \in Projects |-> {}]]
<1>2. /\ what \in Doings /\ what.op = "follow" /\ what.due = doing[a].due /\ what.writing = {}
      /\ what.left = doing[a].left \ {n.project : n \in doing[a].writing}
  <2>1. [p \in Projects |-> {}] \in [Projects -> SUBSET (Team \cup {Unset})]
    OBVIOUS
  <2>2. PICK rest \in SUBSET Projects : rest = doing[a].left \ {n.project : n \in doing[a].writing}
    BY <1>1 DEF Follows
  <2>3. rest \in SUBSET Projects
    OBVIOUS
  <2>4. what = [doing[a] EXCEPT !.left = rest, !.writing = {}, !.read = [p \in Projects |-> {}]]
    BY <2>2
  <2>5. what \in Doings /\ what.op = "follow" /\ what.due = doing[a].due /\ what.writing = {} /\ what.left = rest
    <3> HIDE <2>2
    <3> HIDE DEF what
    <3> QED BY <1>1, <2>1, <2>3, <2>4 DEF Doings, Follows
  <2> QED BY <2>2, <2>5
<1>3. Turn(a, what)
  BY DEF FollowWrite, Written
<1> HIDE DEF what
<1> QED BY <1>2, <1>3, Turned DEF DiaryTyped

LEMMA RemindBegins ==
  ASSUME DiaryTyped, NEW a \in Actors, Remind(a)
  PROVE  /\ DoingTyped' /\ \A b \in Actors : b # a => doing'[b] = doing[b]
         /\ \/ doing'[a] = Free
            \/ /\ doing'[a].op = "remind" /\ doing'[a].to = {} /\ trial \notin {"running", "subscribed"}
               /\ doing'[a].kind = IF trial = "expired" THEN "ended" ELSE "ending"
<1>1. PICK able \in BOOLEAN :
        Turn(a, IF (~ able) \/ trial \in {"running", "subscribed"} THEN Free
                ELSE [op |-> "remind", kind |-> IF trial = "expired" THEN "ended" ELSE "ending",
                      left |-> Owners, to |-> {}, able |-> able])
  BY DEF Remind
<1>2. CASE (~ able) \/ trial \in {"running", "subscribed"}
  <2>1. Turn(a, Free)
    BY <1>1, <1>2
  <2> QED BY <2>1, FreeIs, Turned DEF DiaryTyped
<1>3. CASE able = TRUE /\ trial \notin {"running", "subscribed"}
  <2> DEFINE what == [op |-> "remind", kind |-> IF trial = "expired" THEN "ended" ELSE "ending",
                      left |-> Owners, to |-> {}, able |-> TRUE]
  <2>1. /\ what \in Doings /\ what.op = "remind" /\ what.to = {}
        /\ what.kind = IF trial = "expired" THEN "ended" ELSE "ending"
    BY DEF Doings, Reminds, Kinds
  <2>2. Turn(a, what)
    BY <1>1, <1>3
  <2> HIDE DEF what
  <2> QED BY <1>3, <2>1, <2>2, Turned DEF DiaryTyped
<1> QED BY <1>2, <1>3

LEMMA RemindGoes ==
  ASSUME DiaryTyped, NEW a \in Actors, NEW o \in Owners, RemindOne(a, o)
  PROVE  /\ DoingTyped' /\ doing[a] \in Reminds /\ \A b \in Actors : b # a => doing'[b] = doing[b]
         /\ doing'[a].op = "remind" /\ doing'[a].kind = doing[a].kind /\ doing'[a].to \subseteq doing'[a].left
         /\ doing[a].to = {}
         /\ \/ /\ mail[doing[a].kind][o] = Unset /\ Write(doing[a].kind, o, "pending") /\ doing'[a].to = {o}
            \/ /\ mail[doing[a].kind][o] = "failed" /\ UNCHANGED mail /\ doing'[a].to = {o}
            \/ /\ UNCHANGED mail /\ doing'[a].to = {}
<1>1. doing[a] \in Reminds /\ doing[a].to = {}
  BY DoingSorts DEF DiaryTyped, RemindOne
<1>2. ASSUME Turn(a, [doing[a] EXCEPT !.to = {o}])
      PROVE  /\ DoingTyped' /\ \A b \in Actors : b # a => doing'[b] = doing[b]
             /\ doing'[a].op = "remind" /\ doing'[a].kind = doing[a].kind /\ doing'[a].to = {o}
             /\ doing'[a].left = doing[a].left
  <2> DEFINE what == [doing[a] EXCEPT !.to = {o}]
  <2>1. /\ what \in Doings /\ what.op = "remind" /\ what.kind = doing[a].kind /\ what.to = {o}
        /\ what.left = doing[a].left
    BY <1>1 DEF Doings, Reminds
  <2>2. Turn(a, what)
    BY <1>2
  <2> HIDE DEF what
  <2> QED BY <2>1, <2>2, Turned DEF DiaryTyped
<1>3. ASSUME Turn(a, [doing[a] EXCEPT !.left = @ \ {o}])
      PROVE  /\ DoingTyped' /\ \A b \in Actors : b # a => doing'[b] = doing[b]
             /\ doing'[a].op = "remind" /\ doing'[a].kind = doing[a].kind /\ doing'[a].to = {}
  <2> DEFINE what == [doing[a] EXCEPT !.left = @ \ {o}]
  <2>1. what \in Doings /\ what.op = "remind" /\ what.kind = doing[a].kind /\ what.to = {}
    BY <1>1 DEF Doings, Reminds
  <2>2. Turn(a, what)
    BY <1>3
  <2> HIDE DEF what
  <2> QED BY <2>1, <2>2, Turned DEF DiaryTyped
<1>4. o \in doing[a].left
  BY DEF RemindOne
<1> QED BY <1>1, <1>2, <1>3, <1>4 DEF RemindOne

LEMMA RemindSettles ==
  ASSUME DiaryTyped, NEW a \in Actors, RemindSettle(a)
  PROVE  /\ DoingTyped' /\ doing[a] \in Reminds /\ \A b \in Actors : b # a => doing'[b] = doing[b]
         /\ doing'[a].op = "remind" /\ doing'[a].kind = doing[a].kind /\ doing'[a].to = {}
         /\ \E o \in doing[a].to, s \in {"sent", "failed"} : Write(doing[a].kind, o, s)
<1>1. doing[a] \in Reminds
  BY DoingSorts DEF DiaryTyped, RemindSettle
<1> DEFINE what == [doing[a] EXCEPT !.left = @ \ doing[a].to, !.to = {}]
<1>2. what \in Doings /\ what.op = "remind" /\ what.kind = doing[a].kind /\ what.to = {}
  BY <1>1 DEF Doings, Reminds
<1>3. Turn(a, what)
  BY DEF RemindSettle
<1>4. \E o \in doing[a].to, s \in {"sent", "failed"} : Write(doing[a].kind, o, s)
  <2>1. doing[a].able = TRUE
    BY <1>1 DEF Reminds
  <2> QED BY <2>1 DEF RemindSettle
<1> HIDE DEF what
<1> QED BY <1>1, <1>2, <1>3, <1>4, Turned DEF DiaryTyped

-----------------------------------------------------------------------------
(* The visit.                                                              *)
LEMMA VisitStaysKnown ==
  ASSUME DiaryTyped, UNCHANGED visit, \A a \in Actors : doing'[a].op = "visit" => doing[a].op = "visit"
  PROVE  visit' \in VisitRows /\ VisitIsKnown'
BY DEF DiaryTyped, VisitIsKnown, On

LEMMA VisitEnds ==
  ASSUME DiaryTyped, NEW a \in Actors, EndVisit(a)
  PROVE  /\ doing[a] \in Visits /\ visit' \in VisitRows
         /\ visit'.status = doing[a].target /\ visit'.scheduled = visit.scheduled
         /\ \/ /\ doing[a].target = "completed"
               /\ visit'.completed = visit.completed + 1 /\ visit'.cancelled = visit.cancelled
            \/ /\ doing[a].target = "cancelled"
               /\ visit'.completed = visit.completed /\ visit'.cancelled = visit.cancelled + 1
         /\ blots' \in Blots /\ blots'.task = blots.task /\ blots'.unlogged = blots.unlogged
         /\ blots'.stops = blots.stops
         /\ ~ blots'.visit => ~ blots.visit /\ visit.status = "scheduled"
<1>1. doing[a] \in Visits /\ visit \in VisitRows /\ blots \in Blots
  BY DoingSorts DEF DiaryTyped, EndVisit
<1>2. doing[a].target \in {"completed", "cancelled"} /\ doing[a].seen = "scheduled"
  BY <1>1 DEF Visits, Ends
<1>3. PICK c \in Nat, d \in Nat : /\ c = visit.completed + (IF doing[a].target = "completed" THEN 1 ELSE 0)
                                 /\ d = visit.cancelled + (IF doing[a].target = "cancelled" THEN 1 ELSE 0)
  BY <1>1 DEF VisitRows
<1>4. c \in Nat /\ d \in Nat
  OBVIOUS
<1>5. visit' = [visit EXCEPT !.status = doing[a].target, !.completed = c, !.cancelled = d]
  BY <1>3 DEF EndVisit
<1>6. /\ visit' \in VisitRows /\ visit'.status = doing[a].target /\ visit'.scheduled = visit.scheduled
      /\ visit'.completed = c /\ visit'.cancelled = d
  <2> HIDE <1>3
  <2> QED BY <1>1, <1>2, <1>4, <1>5 DEF VisitRows, Ends
<1>7. /\ \/ /\ doing[a].target = "completed" /\ c = visit.completed + 1 /\ d = visit.cancelled
         \/ /\ doing[a].target = "cancelled" /\ c = visit.completed /\ d = visit.cancelled + 1
  BY <1>1, <1>2, <1>3 DEF VisitRows
<1>8. PICK over \in BOOLEAN : over = (visit.status # doing[a].seen)
  OBVIOUS
<1>9. over \in BOOLEAN /\ blots' = [blots EXCEPT !.visit = @ \/ over]
  BY <1>8 DEF EndVisit
<1>10. /\ blots' \in Blots /\ blots'.task = blots.task /\ blots'.unlogged = blots.unlogged
       /\ blots'.stops = blots.stops /\ blots'.visit = (blots.visit \/ over)
  <2> HIDE <1>8
  <2>1. (blots.visit \/ over) \in BOOLEAN
    BY <1>1, <1>9 DEF Blots
  <2> QED BY <1>1, <1>9, <2>1 DEF Blots
<1>11. ~ blots'.visit => ~ blots.visit /\ visit.status = "scheduled"
  BY <1>2, <1>8, <1>10
<1> QED BY <1>1, <1>6, <1>7, <1>10, <1>11

LEMMA TaskGoes ==
  ASSUME DiaryTyped, NEW a \in Actors, WriteTask(a)
  PROVE  /\ task' \in TaskRows /\ task'.logged = task.logged /\ task'.sets = task.sets
         /\ task'.status = IF doing[a].target = doing[a].seen THEN task.status ELSE doing[a].target
         /\ task'.completed = IF doing[a].target = "done" THEN TRUE
                              ELSE IF doing[a].stamped THEN FALSE ELSE task.completed
         /\ blots' \in Blots /\ blots'.visit = blots.visit /\ blots'.unlogged = blots.unlogged
         /\ blots'.stops = blots.stops
         /\ ~ blots'.task => ~ blots.task /\ task.status = doing[a].seen /\ task.completed = doing[a].stamped
<1>1. doing[a] \in Tasks /\ task \in TaskRows /\ blots \in Blots
  BY DoingSorts DEF DiaryTyped, WriteTask
<1>2. PICK status \in TaskStatuses : status = IF doing[a].target = doing[a].seen THEN task.status ELSE doing[a].target
  BY <1>1 DEF Tasks, TaskRows
<1>3. PICK done \in BOOLEAN : done = IF doing[a].target = "done" THEN TRUE
                                     ELSE IF doing[a].stamped THEN FALSE ELSE task.completed
  BY <1>1 DEF TaskRows
<1>4. status \in TaskStatuses /\ done \in BOOLEAN /\ task' = [task EXCEPT !.status = status, !.completed = done]
  BY <1>2, <1>3 DEF WriteTask
<1>5. /\ task' \in TaskRows /\ task'.logged = task.logged /\ task'.sets = task.sets
      /\ task'.status = status /\ task'.completed = done
  <2> HIDE <1>2, <1>3
  <2> QED BY <1>1, <1>4 DEF TaskRows
<1>6. PICK over \in BOOLEAN : over = (task.status # doing[a].seen \/ task.completed # doing[a].stamped)
  OBVIOUS
<1>7. over \in BOOLEAN /\ blots' = [blots EXCEPT !.task = @ \/ over]
  BY <1>6 DEF WriteTask
<1>8. /\ blots' \in Blots /\ blots'.visit = blots.visit /\ blots'.unlogged = blots.unlogged
      /\ blots'.stops = blots.stops /\ blots'.task = (blots.task \/ over)
  <2> HIDE <1>6
  <2>1. (blots.task \/ over) \in BOOLEAN
    BY <1>1, <1>7 DEF Blots
  <2> QED BY <1>1, <1>7, <2>1 DEF Blots
<1>9. ~ blots'.task => ~ blots.task /\ task.status = doing[a].seen /\ task.completed = doing[a].stamped
  BY <1>6, <1>8
<1> QED BY <1>2, <1>3, <1>5, <1>8, <1>9

LEMMA StopGoes ==
  ASSUME DiaryTyped, NEW a \in Actors, Stop(a)
  PROVE  /\ blots' \in Blots /\ blots'.visit = blots.visit /\ blots'.task = blots.task
         /\ blots'.stops = blots.stops + 1 /\ ~ On(a, "free")
         /\ blots'.unlogged >= blots.unlogged /\ (On(a, "log") => blots'.unlogged > 0)
<1>1. blots \in Blots /\ MaxStops \in Nat
  BY DiaryAssumption DEF DiaryTyped, DiaryAssumption
<1>2. blots.stops + 1 \in 0 .. MaxStops
  BY <1>1 DEF Blots, Stop
<1>3. PICK c \in Nat : c = blots.unlogged + (IF On(a, "log") THEN 1 ELSE 0)
  BY <1>1 DEF Blots
<1>4. c \in Nat /\ blots' = [blots EXCEPT !.stops = @ + 1, !.unlogged = c]
  BY <1>3 DEF Stop
<1>5. /\ blots' \in Blots /\ blots'.visit = blots.visit /\ blots'.task = blots.task
      /\ blots'.stops = blots.stops + 1 /\ blots'.unlogged = c
  <2> HIDE <1>3
  <2> QED BY <1>1, <1>2, <1>4 DEF Blots
<1>6. c >= blots.unlogged /\ (On(a, "log") => c > 0)
  BY <1>1, <1>3 DEF Blots
<1> QED BY <1>5, <1>6 DEF Stop

(* What a step leaves alone, by who takes it.                              *)
JobStep(a) ==
  \/ FollowStart(a) \/ FollowWrite(a) \/ Remind(a) \/ RemindSettle(a) \/ RemindEnd(a)
  \/ \E p \in Projects : FollowOne(a, p)
  \/ \E o \in Owners : RemindOne(a, o)

LEMMA JobTurns ==
  ASSUME DiaryTyped, NEW a \in Actors, JobStep(a)
  PROVE  /\ DoingTyped' /\ \A b \in Actors : b # a => doing'[b] = doing[b]
         /\ doing[a].op \in {"free", "follow", "remind"} /\ doing'[a].op \in {"free", "follow", "remind"}
         /\ UNCHANGED <<visit, task, projects, trial, blots>>
<1>1. CASE FollowStart(a)
  BY <1>1, FollowBegins DEF FollowStart, On
<1>2. CASE FollowWrite(a)
  BY <1>2, NoteWritten DEF FollowWrite, On
<1>3. CASE Remind(a)
  BY <1>3, RemindBegins, FreeIs DEF Remind, On
<1>4. CASE RemindSettle(a)
  BY <1>4, RemindSettles DEF RemindSettle, On
<1>5. CASE RemindEnd(a)
  BY <1>5, ActorEnds, FreeIs DEF RemindEnd, On
<1>6. ASSUME NEW p \in Projects, FollowOne(a, p)
      PROVE  /\ DoingTyped' /\ \A b \in Actors : b # a => doing'[b] = doing[b]
             /\ doing[a].op \in {"free", "follow", "remind"} /\ doing'[a].op \in {"free", "follow", "remind"}
             /\ UNCHANGED <<visit, task, projects, trial, blots>>
  BY <1>6, FollowGoes DEF FollowOne, On
<1>7. ASSUME NEW o \in Owners, RemindOne(a, o)
      PROVE  /\ DoingTyped' /\ \A b \in Actors : b # a => doing'[b] = doing[b]
             /\ doing[a].op \in {"free", "follow", "remind"} /\ doing'[a].op \in {"free", "follow", "remind"}
             /\ UNCHANGED <<visit, task, projects, trial, blots>>
  BY <1>7, RemindGoes DEF RemindOne, On
<1> QED BY <1>1, <1>2, <1>3, <1>4, <1>5, <1>6, <1>7 DEF JobStep

StaffStep(a) ==
  \/ ScheduleVisit(a) \/ EndVisit(a) \/ WriteTask(a) \/ LogTask(a) \/ Stop(a)
  \/ \E end \in Ends : ReadVisit(a, end)
  \/ \E s \in TaskStatuses : ReadTask(a, s)

LEMMA StaffTurns ==
  ASSUME DiaryTyped, NEW a \in Actors, StaffStep(a)
  PROVE  /\ DoingTyped' /\ \A b \in Actors : b # a => doing'[b] = doing[b]
         /\ doing'[a] = doing[a] \/ doing'[a].op \in {"free", "visit", "task", "log"}
         /\ UNCHANGED <<projects, notes, trial, mail>>
<1>1. CASE ScheduleVisit(a)
  BY <1>1 DEF ScheduleVisit, DiaryTyped, DoingTyped
<1>2. CASE EndVisit(a) \/ LogTask(a) \/ Stop(a)
  BY <1>2, ActorEnds, FreeIs DEF EndVisit, LogTask, Stop
<1>3. CASE WriteTask(a)
  BY <1>3, TaskWritten DEF WriteTask
<1>4. ASSUME NEW end \in Ends, ReadVisit(a, end)
      PROVE  /\ DoingTyped' /\ \A b \in Actors : b # a => doing'[b] = doing[b]
             /\ doing'[a].op \in {"free", "visit", "task", "log"}
             /\ UNCHANGED <<projects, notes, trial, mail>>
  BY <1>4, VisitRead DEF ReadVisit
<1>5. ASSUME NEW s \in TaskStatuses, ReadTask(a, s)
      PROVE  /\ DoingTyped' /\ \A b \in Actors : b # a => doing'[b] = doing[b]
             /\ doing'[a].op \in {"free", "visit", "task", "log"}
             /\ UNCHANGED <<projects, notes, trial, mail>>
  BY <1>5, TaskRead DEF ReadTask
<1> QED BY <1>1, <1>2, <1>3, <1>4, <1>5 DEF StaffStep

LEMMA ProjectsTurn ==
  ASSUME DiaryTyped, UNCHANGED diaryVars \/ ProjectsMove \/ TrialMoves
  PROVE  /\ projects' \in [Projects -> ProjectRows] /\ UNCHANGED <<visit, task, notes, mail, doing, blots>>
         /\ \A p \in Projects : projects[p].stale => projects'[p].stale
         /\ trial' \in {"running", "ending", "expired", "subscribed"}
         /\ \A k \in Kinds : ComeTo(k) => ComeTo(k)'
<1>1. projects \in [Projects -> ProjectRows] /\ trial \in {"running", "ending", "expired", "subscribed"}
  BY DEF DiaryTyped
<1>2. CASE UNCHANGED diaryVars
  BY <1>1, <1>2 DEF diaryVars, ComeTo
<1>3. CASE TrialMoves
  BY <1>1, <1>3 DEF TrialMoves, ComeTo
<1>4. CASE ProjectsMove
  <2>1. UNCHANGED <<visit, task, notes, trial, mail, doing, blots>>
    BY <1>4 DEF ProjectsMove, ProgressProject, TurnStale, AssignProject
  <2>2. \E p \in Projects, row \in ProjectRows :
          projects' = [projects EXCEPT ![p] = row] /\ (projects[p].stale => row.stale)
    <3>1. ASSUME NEW p \in Projects
          PROVE  /\ [projects[p] EXCEPT !.status = "moved"] \in ProjectRows
                 /\ [projects[p] EXCEPT !.status = "moved"].stale = projects[p].stale
                 /\ [projects[p] EXCEPT !.stale = TRUE] \in ProjectRows
                 /\ [projects[p] EXCEPT !.stale = TRUE].stale
                 /\ \A who \in Staff : /\ [projects[p] EXCEPT !.assignee = who] \in ProjectRows
                                       /\ [projects[p] EXCEPT !.assignee = who].stale = projects[p].stale
      <4>1. projects[p] \in ProjectRows
        BY <1>1
      <4> QED BY <4>1 DEF ProjectRows, Team
    <3>2. PICK p \in Projects : ProgressProject(p) \/ TurnStale(p) \/ \E who \in Staff : AssignProject(p, who)
      BY <1>4 DEF ProjectsMove
    <3>3. CASE ProgressProject(p)
      <4> DEFINE row == [projects[p] EXCEPT !.status = "moved"]
      <4>1. row \in ProjectRows /\ row.stale = projects[p].stale /\ projects' = [projects EXCEPT ![p] = row]
        BY <3>1, <3>3 DEF ProgressProject
      <4> HIDE DEF row
      <4> QED BY <4>1
    <3>4. CASE TurnStale(p)
      <4> DEFINE row == [projects[p] EXCEPT !.stale = TRUE]
      <4>1. row \in ProjectRows /\ row.stale /\ projects' = [projects EXCEPT ![p] = row]
        BY <3>1, <3>4 DEF TurnStale
      <4> HIDE DEF row
      <4> QED BY <4>1
    <3>5. ASSUME NEW who \in Staff, AssignProject(p, who)
          PROVE  \E row \in ProjectRows :
                   projects' = [projects EXCEPT ![p] = row] /\ (projects[p].stale => row.stale)
      <4> DEFINE row == [projects[p] EXCEPT !.assignee = who]
      <4>1. row \in ProjectRows /\ row.stale = projects[p].stale /\ projects' = [projects EXCEPT ![p] = row]
        BY <3>1, <3>5 DEF AssignProject
      <4> HIDE DEF row
      <4> QED BY <4>1
    <3> QED BY <3>2, <3>3, <3>4, <3>5
  <2>3. PICK p \in Projects, row \in ProjectRows :
          projects' = [projects EXCEPT ![p] = row] /\ (projects[p].stale => row.stale)
    BY <2>2
  <2>4. projects' \in [Projects -> ProjectRows] /\ \A q \in Projects : projects[q].stale => projects'[q].stale
    BY <1>1, <2>3
  <2> QED BY <1>1, <2>1, <2>4 DEF ComeTo
<1> QED BY <1>2, <1>3, <1>4

LEMMA DiarySteps ==
  ASSUME [DiaryNext]_diaryVars
  PROVE  (\E a \in Actors : StaffStep(a) \/ JobStep(a)) \/ UNCHANGED diaryVars \/ ProjectsMove \/ TrialMoves
BY DEF DiaryNext, VisitsNext, JobNext, StaffStep, JobStep, TaskStatuses

LEMMA DiaryTypedKept ==
  ASSUME DiaryTyped, [DiaryNext]_diaryVars
  PROVE  DiaryTyped'
<1>0. DoingTyped /\ blots \in Blots /\ task \in TaskRows /\ visit \in VisitRows /\ MaxTaskSets \in Nat
      /\ mail \in Mails /\ notes \subseteq Notes
  BY DiaryAssumption DEF DiaryTyped, DiaryAssumption
<1>1. CASE UNCHANGED diaryVars \/ ProjectsMove \/ TrialMoves
  <2>1. UNCHANGED <<visit, task, notes, mail, doing, blots>>
    BY <1>1, ProjectsTurn
  <2>2. VisitIsKnown' /\ DoingTyped'
    BY <1>0, <2>1 DEF DiaryTyped, VisitIsKnown, On, DoingTyped
  <2> QED BY <1>0, <1>1, <2>1, <2>2, ProjectsTurn DEF DiaryTyped
<1>2. ASSUME NEW a \in Actors, JobStep(a)
      PROVE  DiaryTyped'
  <2>1. /\ DoingTyped' /\ UNCHANGED <<visit, task, projects, trial, blots>>
        /\ \A b \in Actors : doing'[b].op = "visit" => doing[b].op = "visit"
    BY <1>2, JobTurns
  <2>2. visit' \in VisitRows /\ VisitIsKnown'
    BY <2>1, VisitStaysKnown
  <2>3. notes' \subseteq Notes
    <3>1. CASE FollowWrite(a)
      <4>1. doing[a] \in Follows
        BY <1>0, <3>1, DoingSorts DEF FollowWrite
      <4> QED BY <1>0, <3>1, <4>1 DEF FollowWrite, Follows
    <3>2. CASE ~ FollowWrite(a)
      BY <1>0, <1>2, <3>2 DEF JobStep, FollowStart, Remind, RemindSettle, RemindEnd, FollowOne, RemindOne
    <3> QED BY <3>1, <3>2
  <2>4. mail' \in Mails
    <3>1. ASSUME NEW k \in Kinds, NEW o \in Owners, NEW s \in {"pending", "sent", "failed"}, Write(k, o, s)
          PROVE  mail' \in Mails
      BY <1>0, <3>1 DEF Mails, Write
    <3>2. CASE RemindSettle(a)
      <4>1. doing[a] \in Reminds /\ \E o \in doing[a].to, s \in {"sent", "failed"} : Write(doing[a].kind, o, s)
        BY <3>2, RemindSettles
      <4> QED BY <3>1, <4>1 DEF Reminds
    <3>3. ASSUME NEW o \in Owners, RemindOne(a, o)
          PROVE  mail' \in Mails
      <4>1. doing[a] \in Reminds /\ (UNCHANGED mail \/ Write(doing[a].kind, o, "pending"))
        BY <3>3, RemindGoes
      <4> QED BY <1>0, <3>1, <4>1 DEF Reminds
    <3>4. CASE UNCHANGED mail
      BY <1>0, <3>4
    <3> QED BY <1>2, <3>2, <3>3, <3>4 DEF JobStep, FollowStart, FollowWrite, Remind, RemindEnd, FollowOne
  <2> QED BY <2>1, <2>2, <2>3, <2>4 DEF DiaryTyped
<1>3. ASSUME NEW a \in Actors, StaffStep(a)
      PROVE  DiaryTyped'
  <2>1. DoingTyped' /\ UNCHANGED <<projects, notes, trial, mail>> /\ \A b \in Actors : b # a => doing'[b] = doing[b]
    BY <1>3, StaffTurns
  <2>2. SUFFICES visit' \in VisitRows /\ VisitIsKnown' /\ task' \in TaskRows /\ blots' \in Blots
    BY <2>1 DEF DiaryTyped
  <2>3. CASE ScheduleVisit(a)
    <3>1. visit.scheduled + 1 \in 0 .. 1 /\ visit.scheduled + 1 = 1
      BY <2>3 DEF DiaryTyped, VisitIsKnown, ScheduleVisit
    <3>2. visit' \in VisitRows /\ visit'.scheduled = 1 /\ visit'.status = "scheduled"
      BY <1>0, <2>3, <3>1 DEF ScheduleVisit, VisitRows
    <3> QED BY <1>0, <2>3, <3>2 DEF ScheduleVisit, VisitIsKnown, Unset
  <2>4. ASSUME NEW end \in Ends, ReadVisit(a, end)
        PROVE  visit' \in VisitRows /\ VisitIsKnown' /\ task' \in TaskRows /\ blots' \in Blots
    <3>1. visit.status = "scheduled" /\ UNCHANGED <<visit, task, blots>>
      BY <2>4 DEF ReadVisit
    <3> QED BY <1>0, <3>1 DEF DiaryTyped, VisitIsKnown, Unset
  <2>5. CASE EndVisit(a)
    <3>1. /\ doing[a].target \in Ends /\ visit.status # Unset /\ UNCHANGED task
      BY <2>5, VisitEnds DEF EndVisit, Visits, DiaryTyped, VisitIsKnown
    <3>2. visit'.status \in Ends /\ visit'.scheduled = visit.scheduled
      BY <2>5, <3>1, VisitEnds
    <3>3. VisitIsKnown'
      BY <3>1, <3>2 DEF DiaryTyped, VisitIsKnown, Ends, Unset
    <3> QED BY <1>0, <2>5, <3>1, <3>3, VisitEnds
  <2>6. ASSUME NEW s \in TaskStatuses, ReadTask(a, s)
        PROVE  visit' \in VisitRows /\ VisitIsKnown' /\ task' \in TaskRows /\ blots' \in Blots
    <3>1. task' \in TaskRows
      BY <1>0, <2>6 DEF ReadTask, TaskRows
    <3>2. UNCHANGED <<visit, blots>> /\ \A b \in Actors : doing'[b].op = "visit" => doing[b].op = "visit"
      BY <2>6, TaskRead DEF ReadTask
    <3> QED BY <1>0, <3>1, <3>2, VisitStaysKnown
  <2>7. CASE WriteTask(a)
    <3>1. UNCHANGED visit /\ \A b \in Actors : doing'[b].op = "visit" => doing[b].op = "visit"
      BY <2>7, TaskWritten DEF WriteTask
    <3> QED BY <2>7, <3>1, TaskGoes, VisitStaysKnown
  <2>8. CASE LogTask(a) \/ Stop(a)
    <3>1. UNCHANGED visit /\ \A b \in Actors : doing'[b].op = "visit" => doing[b].op = "visit"
      BY <2>8, ActorEnds, FreeIs DEF LogTask, Stop
    <3>2. LogTask(a) => task' \in TaskRows /\ UNCHANGED blots
      BY <1>0 DEF LogTask, TaskRows
    <3>3. Stop(a) => UNCHANGED task /\ blots' \in Blots
      BY StopGoes DEF Stop
    <3> QED BY <1>0, <2>8, <3>1, <3>2, <3>3, VisitStaysKnown
  <2> QED BY <1>3, <2>3, <2>4, <2>5, <2>6, <2>7, <2>8 DEF StaffStep
<1> QED BY <1>1, <1>2, <1>3, DiarySteps

-----------------------------------------------------------------------------
(* The visit's entries.                                                    *)
LEMMA VisitStays ==
  ASSUME DiaryTyped, VisitCounts, UNCHANGED visit, blots'.visit = blots.visit,
         \A a \in Actors : doing'[a].op = "visit" => doing[a].op = "visit"
  PROVE  VisitCounts'
<1>1. IsFiniteSet(Visiting) /\ Visiting' \subseteq Visiting /\ IsFiniteSet(Actors)
  <2>1. Visiting \subseteq Actors /\ IsFiniteSet(Actors)
    BY DiaryAssumption DEF DiaryAssumption, Visiting
  <2> QED BY <2>1, FS_Subset DEF Visiting, On
<1>2. /\ Cardinality(Visiting') <= Cardinality(Visiting) /\ Cardinality(Visiting') \in Nat
      /\ Cardinality(Visiting) \in Nat /\ Cardinality(Actors) \in Nat
  BY <1>1, FS_Subset, FS_CardinalityType
<1>3. visit.completed \in Nat /\ visit.cancelled \in Nat
  BY DEF DiaryTyped, VisitRows
<1> QED BY <1>2, <1>3 DEF VisitCounts, VisitIsLogged

LEMMA VisitCountsKept ==
  ASSUME DiaryTyped, VisitCounts, [DiaryNext]_diaryVars
  PROVE  VisitCounts'
<1>0. DoingTyped /\ IsFiniteSet(Actors) /\ visit \in VisitRows /\ VisitIsKnown
  BY DiaryAssumption DEF DiaryTyped, DiaryAssumption
<1>1. /\ IsFiniteSet(Visiting) /\ Visiting \subseteq Actors /\ Cardinality(Visiting) \in Nat
      /\ Cardinality(Actors) \in Nat /\ visit.completed \in Nat /\ visit.cancelled \in Nat
  <2>1. Visiting \subseteq Actors
    BY DEF Visiting
  <2> QED BY <1>0, <2>1, FS_Subset, FS_CardinalityType DEF VisitRows
<1>2. CASE UNCHANGED diaryVars \/ ProjectsMove \/ TrialMoves
  BY <1>2, ProjectsTurn, VisitStays
<1>3. ASSUME NEW a \in Actors, JobStep(a)
      PROVE  VisitCounts'
  <2>1. UNCHANGED <<visit, blots>> /\ \A b \in Actors : doing'[b].op = "visit" => doing[b].op = "visit"
    BY <1>3, JobTurns
  <2> QED BY <2>1, VisitStays
<1>4. ASSUME NEW a \in Actors, ScheduleVisit(a)
      PROVE  VisitCounts'
  <2>1. /\ visit.status = Unset /\ visit.scheduled = 0 /\ visit'.status = "scheduled" /\ visit'.scheduled = 1
        /\ visit'.completed = visit.completed /\ visit'.cancelled = visit.cancelled
        /\ UNCHANGED <<doing, blots>>
    BY <1>0, <1>4 DEF ScheduleVisit, VisitRows, VisitIsKnown
  <2>2. visit.completed + visit.cancelled = 0
    BY <2>1 DEF VisitCounts, Ends, Unset
  <2> QED BY <1>1, <2>1, <2>2 DEF VisitCounts, VisitIsLogged, Visiting, On, Ends, Unset
<1>5. ASSUME NEW a \in Actors, NEW end \in Ends, ReadVisit(a, end)
      PROVE  VisitCounts'
  <2>1. visit.status = "scheduled" /\ UNCHANGED <<visit, blots>>
    BY <1>5 DEF ReadVisit
  <2>2. Visiting' \subseteq Actors
    BY DEF Visiting
  <2>3. Cardinality(Visiting') <= Cardinality(Actors) /\ Cardinality(Visiting') \in Nat
    BY <1>0, <2>2, FS_Subset, FS_CardinalityType
  <2> QED BY <1>1, <2>1, <2>3 DEF VisitCounts, VisitIsLogged, Ends
<1>6. ASSUME NEW a \in Actors, EndVisit(a)
      PROVE  VisitCounts'
  <2>1. /\ visit.status # Unset /\ visit.scheduled = 1 /\ doing[a].op = "visit"
    BY <1>0, <1>6 DEF EndVisit, VisitIsKnown, On
  <2>2. Visiting' = Visiting \ {a} /\ a \in Visiting
    BY <1>6, <2>1, ActorEnds, FreeIs DEF Visiting, On
  <2>3. Cardinality(Visiting') = Cardinality(Visiting) - 1
    BY <1>1, <2>2, OneLess
  <2>4. /\ visit'.status = doing[a].target /\ visit'.scheduled = 1
        /\ \/ /\ doing[a].target = "completed"
              /\ visit'.completed = visit.completed + 1 /\ visit'.cancelled = visit.cancelled
           \/ /\ doing[a].target = "cancelled"
              /\ visit'.completed = visit.completed /\ visit'.cancelled = visit.cancelled + 1
        /\ (~ blots'.visit => (~ blots.visit) /\ visit.status = "scheduled")
    BY <1>6, <2>1, VisitEnds
  <2>5. visit'.status \in Ends /\ visit'.status # "scheduled" /\ visit'[visit'.status] >= 1
    BY <1>1, <2>4 DEF Ends
  <2>6. ~ blots'.visit => visit'.completed + visit'.cancelled = 1
    BY <1>1, <2>4 DEF VisitCounts, Ends
  <2>7. visit'.completed + visit'.cancelled + Cardinality(Visiting') <= Cardinality(Actors)
    BY <1>1, <2>3, <2>4 DEF VisitCounts
  <2> QED BY <2>4, <2>5, <2>6, <2>7 DEF VisitCounts, VisitIsLogged
<1>7. ASSUME NEW a \in Actors, WriteTask(a) \/ LogTask(a) \/ Stop(a) \/ \E s \in TaskStatuses : ReadTask(a, s)
      PROVE  VisitCounts'
  <2>1. CASE WriteTask(a)
    BY <2>1, TaskWritten, TaskGoes, VisitStays DEF WriteTask
  <2>2. CASE LogTask(a) \/ Stop(a)
    <3>1. UNCHANGED visit /\ blots'.visit = blots.visit
      BY <2>2, StopGoes DEF LogTask, Stop
    <3> QED BY <2>2, <3>1, ActorEnds, FreeIs, VisitStays
  <2>3. ASSUME NEW s \in TaskStatuses, ReadTask(a, s)
        PROVE  VisitCounts'
    BY <2>3, TaskRead, VisitStays DEF ReadTask
  <2> QED BY <1>7, <2>1, <2>2, <2>3
<1> QED BY <1>2, <1>3, <1>4, <1>5, <1>6, <1>7, DiarySteps DEF StaffStep

(* The task's.                                                             *)
LEMMA TaskStays ==
  ASSUME DiaryTyped, TaskCounts, UNCHANGED task, blots'.task = blots.task, blots'.unlogged >= blots.unlogged,
         blots'.unlogged \in Nat,
         \A a \in Actors : doing'[a].op \in {"task", "log"} => doing[a].op \in {"task", "log"},
         \A a \in Actors : doing[a].op = "log" => doing'[a].op = "log" \/ blots'.unlogged > 0
  PROVE  TaskCounts'
<1>1. IsFiniteSet(Tasking) /\ Tasking' \subseteq Tasking
  <2>1. Tasking \subseteq Actors /\ IsFiniteSet(Actors)
    BY DiaryAssumption DEF DiaryAssumption, Tasking
  <2> QED BY <2>1, FS_Subset DEF Tasking, On
<1>2. /\ Cardinality(Tasking') <= Cardinality(Tasking) /\ Cardinality(Tasking') \in Nat
      /\ Cardinality(Tasking) \in Nat
  BY <1>1, FS_Subset, FS_CardinalityType
<1>3. task.logged \in Nat /\ task.sets \in Nat /\ blots.unlogged \in Nat
  BY DiaryAssumption DEF DiaryTyped, TaskRows, Blots, DiaryAssumption
<1>4. task'.logged + Cardinality(Tasking') <= task'.sets
  BY <1>2, <1>3 DEF TaskCounts
<1>5. task'.status = "done" => task'.logged + blots'.unlogged > 0 \/ \E a \in Actors : On(a, "log")'
  BY <1>3 DEF TaskCounts, TaskTimeIsTrue, On
<1>6. ~ blots'.task => task'.completed = (task'.status = "done")
  BY DEF TaskCounts, TaskTimeIsTrue
<1> QED BY <1>4, <1>5, <1>6 DEF TaskCounts, TaskTimeIsTrue, On

LEMMA TaskCountsKept ==
  ASSUME DiaryTyped, TaskCounts, [DiaryNext]_diaryVars
  PROVE  TaskCounts'
<1>0. DoingTyped /\ IsFiniteSet(Actors) /\ task \in TaskRows /\ blots \in Blots
  BY DiaryAssumption DEF DiaryTyped, DiaryAssumption
<1>1. /\ IsFiniteSet(Tasking) /\ Tasking \subseteq Actors /\ Cardinality(Tasking) \in Nat
      /\ task.logged \in Nat /\ task.sets \in Nat /\ blots.unlogged \in Nat
      /\ task.logged + Cardinality(Tasking) <= task.sets
  <2>1. Tasking \subseteq Actors
    BY DEF Tasking
  <2> QED BY <1>0, <2>1, FS_Subset, FS_CardinalityType, DiaryAssumption DEF TaskRows, Blots, DiaryAssumption, TaskCounts
<1>2. CASE UNCHANGED diaryVars \/ ProjectsMove \/ TrialMoves
  <2>1. UNCHANGED <<task, doing, blots>>
    BY <1>2, ProjectsTurn
  <2> QED BY <1>1, <2>1, TaskStays
<1>3. ASSUME NEW a \in Actors, JobStep(a)
      PROVE  TaskCounts'
  <2>1. /\ UNCHANGED <<task, blots>>
        /\ \A b \in Actors :
             \/ doing'[b] = doing[b]
             \/ doing[b].op \in {"free", "follow", "remind"} /\ doing'[b].op \in {"free", "follow", "remind"}
    BY <1>3, JobTurns
  <2> QED BY <1>1, <2>1, TaskStays
<1>4. ASSUME NEW a \in Actors, ScheduleVisit(a) \/ EndVisit(a) \/ \E end \in Ends : ReadVisit(a, end)
      PROVE  TaskCounts'
  <2>1. CASE ScheduleVisit(a)
    BY <1>1, <2>1, TaskStays DEF ScheduleVisit
  <2>2. CASE EndVisit(a)
    <3>1. UNCHANGED task /\ doing[a].op = "visit"
      BY <2>2 DEF EndVisit, On
    <3> QED BY <1>1, <2>2, <3>1, ActorEnds, FreeIs, VisitEnds, TaskStays
  <2>3. ASSUME NEW end \in Ends, ReadVisit(a, end)
        PROVE  TaskCounts'
    <3>1. UNCHANGED <<task, blots>> /\ doing[a].op = "free"
      BY <2>3 DEF ReadVisit, On
    <3> QED BY <1>1, <2>3, <3>1, VisitRead, TaskStays
  <2> QED BY <1>4, <2>1, <2>2, <2>3
<1>5. ASSUME NEW a \in Actors, NEW s \in TaskStatuses, ReadTask(a, s)
      PROVE  TaskCounts'
  <2>1. /\ task'.sets = task.sets + 1 /\ task'.logged = task.logged /\ task'.status = task.status
        /\ task'.completed = task.completed /\ UNCHANGED blots /\ doing[a].op = "free"
    BY <1>0, <1>5 DEF ReadTask, TaskRows, On
  <2>2. doing'[a].op = "task" /\ \A b \in Actors : b # a => doing'[b] = doing[b]
    BY <1>5, TaskRead
  <2>3. Tasking' = Tasking \cup {a} /\ a \notin Tasking /\ \A b \in Actors : On(b, "log") => On(b, "log")'
    BY <2>1, <2>2 DEF Tasking, On
  <2>4. Cardinality(Tasking') = Cardinality(Tasking) + 1
    BY <1>1, <2>3, OneMore
  <2>5. task'.logged + Cardinality(Tasking') <= task'.sets
    BY <1>1, <2>1, <2>4
  <2>6. TaskTimeIsTrue'
    BY <2>1, <2>3 DEF TaskCounts, TaskTimeIsTrue
  <2> QED BY <2>5, <2>6 DEF TaskCounts
<1>6. ASSUME NEW a \in Actors, WriteTask(a)
      PROVE  TaskCounts'
  <2>1. /\ doing[a] \in Tasks /\ doing[a].op = "task" /\ \A b \in Actors : b # a => doing'[b] = doing[b]
        /\ doing'[a].op = IF doing[a].target = "done" THEN "log" ELSE "free"
    BY <1>6, TaskWritten DEF WriteTask, On
  <2>2. /\ task'.logged = task.logged /\ task'.sets = task.sets
        /\ task'.status = (IF doing[a].target = doing[a].seen THEN task.status ELSE doing[a].target)
        /\ task'.completed = (IF doing[a].target = "done" THEN TRUE
                              ELSE IF doing[a].stamped THEN FALSE ELSE task.completed)
        /\ blots'.unlogged = blots.unlogged
        /\ (~ blots'.task => (~ blots.task) /\ task.status = doing[a].seen /\ task.completed = doing[a].stamped)
    BY <1>6, TaskGoes
  <2>3. task'.logged + Cardinality(Tasking') <= task'.sets
    <3>1. Tasking' \subseteq Tasking
      BY <2>1 DEF Tasking, On
    <3>2. Cardinality(Tasking') <= Cardinality(Tasking) /\ Cardinality(Tasking') \in Nat
      BY <1>1, <3>1, FS_Subset, FS_CardinalityType
    <3> QED BY <1>1, <2>2, <3>2
  <2>4. task'.status = "done" => task'.logged + blots'.unlogged > 0 \/ \E b \in Actors : On(b, "log")'
    <3>1. CASE doing[a].target = "done"
      BY <2>1, <3>1 DEF On
    <3>2. CASE doing[a].target # "done"
      <4>1. task'.status = "done" => task.status = "done"
        BY <2>2, <3>2
      <4>2. \A b \in Actors : On(b, "log") => On(b, "log")'
        BY <2>1 DEF On
      <4> QED BY <2>2, <4>1, <4>2 DEF TaskCounts, TaskTimeIsTrue
    <3> QED BY <3>1, <3>2
  <2>5. ASSUME ~ blots'.task
        PROVE  task'.completed = (task'.status = "done")
    <3>1. task.status = doing[a].seen /\ task.completed = doing[a].stamped
      BY <2>2, <2>5
    <3>2. task'.status = doing[a].target
      BY <2>2, <3>1
    <3>3. task'.completed = (doing[a].target = "done")
      <4>1. doing[a].stamped \in BOOLEAN
        BY <2>1 DEF Tasks
      <4>2. CASE doing[a].target = "done"
        BY <2>2, <4>2
      <4>3. CASE doing[a].target # "done"
        <5>1. task'.completed = FALSE
          BY <2>2, <3>1, <4>1, <4>3
        <5> QED BY <4>3, <5>1
      <4> QED BY <4>2, <4>3
    <3> QED BY <3>2, <3>3
  <2> QED BY <2>3, <2>4, <2>5 DEF TaskCounts, TaskTimeIsTrue
<1>7. ASSUME NEW a \in Actors, LogTask(a)
      PROVE  TaskCounts'
  <2>1. /\ task'.sets = task.sets /\ task'.logged = task.logged + 1 /\ task'.status = task.status
        /\ task'.completed = task.completed /\ UNCHANGED blots /\ doing[a].op = "log"
    BY <1>0, <1>7 DEF LogTask, TaskRows, On
  <2>2. Tasking' = Tasking \ {a} /\ a \in Tasking
    BY <1>7, <2>1, ActorEnds, FreeIs DEF Tasking, On
  <2>3. Cardinality(Tasking') = Cardinality(Tasking) - 1
    BY <1>1, <2>2, OneLess
  <2>4. task'.logged + Cardinality(Tasking') <= task'.sets /\ task'.logged + blots'.unlogged > 0
    BY <1>1, <2>1, <2>3
  <2>5. TaskTimeIsTrue'
    BY <2>1, <2>4 DEF TaskCounts, TaskTimeIsTrue
  <2> QED BY <2>4, <2>5 DEF TaskCounts
<1>8. ASSUME NEW a \in Actors, Stop(a)
      PROVE  TaskCounts'
  <2>1. /\ UNCHANGED task /\ blots'.task = blots.task /\ blots'.unlogged >= blots.unlogged
        /\ blots'.unlogged \in Nat /\ (doing[a].op = "log" => blots'.unlogged > 0)
    <3>1. blots' \in Blots
      BY <1>8, StopGoes
    <3>2. blots'.unlogged \in Nat
      BY <3>1 DEF Blots
    <3> QED BY <1>8, <3>2, StopGoes DEF Stop, On
  <2> QED BY <1>8, <2>1, ActorEnds, FreeIs, TaskStays
<1> QED BY <1>2, <1>3, <1>4, <1>5, <1>6, <1>7, <1>8, DiarySteps DEF StaffStep

-----------------------------------------------------------------------------
(* The follow-ups.                                                         *)
LEMMA FollowsStay ==
  ASSUME DiaryTyped, FollowedUpOnce, FollowsAreDue, UNCHANGED notes,
         \A p \in Projects : projects[p].stale => projects'[p].stale,
         \A a \in Actors : doing'[a].op = "follow" => doing'[a] = doing[a]
  PROVE  FollowedUpOnce' /\ FollowsAreDue'
<1>1. \A n \in notes : n.project \in Projects
  BY DEF DiaryTyped, Notes
<1>2. FollowedUpOnce'
  BY <1>1 DEF FollowedUpOnce, On, Noted
<1>3. \A a \in Actors : On(a, "follow") =>
        doing[a].left \subseteq Projects /\ \A n \in doing[a].writing : n.project \in Projects
  BY DoingSorts DEF DiaryTyped, Follows, Notes
<1>4. FollowsAreDue'
  BY <1>3 DEF FollowsAreDue, On
<1> QED BY <1>2, <1>4

LEMMA FollowsKept ==
  ASSUME DiaryTyped, FollowedUpOnce, FollowsAreDue, [DiaryNext]_diaryVars
  PROVE  FollowedUpOnce' /\ FollowsAreDue'
<1>0. DoingTyped /\ notes \subseteq Notes /\ Free.op = "free"
  BY FreeIs DEF DiaryTyped
<1>1. CASE UNCHANGED diaryVars \/ ProjectsMove \/ TrialMoves
  BY <1>1, ProjectsTurn, FollowsStay
<1>2. ASSUME NEW a \in Actors, StaffStep(a)
      PROVE  FollowedUpOnce' /\ FollowsAreDue'
  <2>1. /\ UNCHANGED <<projects, notes>>
        /\ \A b \in Actors : doing'[b].op = "follow" => doing'[b] = doing[b]
    BY <1>2, StaffTurns
  <2> QED BY <2>1, FollowsStay
<1>3. ASSUME NEW a \in Actors, JobStep(a), UNCHANGED notes, doing'[a].op # "follow"
      PROVE  FollowedUpOnce' /\ FollowsAreDue'
  <2>1. UNCHANGED projects /\ \A b \in Actors : doing'[b].op = "follow" => doing'[b] = doing[b]
    BY <1>3, JobTurns
  <2> QED BY <1>3, <2>1, FollowsStay
(* It is enough to look at the run that goes on.                           *)
<1>4. ASSUME NEW a \in Actors, JobStep(a),
             notes \subseteq notes', notes' \subseteq Notes,
             \A m, n \in notes' : m.project = n.project => m = n,
             \A n \in notes' : projects[n.project].stale,
             \A p \in doing'[a].due \ doing'[a].left : \E n \in notes' : n.project = p,
             \A p \in doing'[a].left : projects[p].stale,
             \A n \in doing'[a].writing : projects[n.project].stale,
             \A m, n \in doing'[a].writing : m = n
      PROVE  FollowedUpOnce' /\ FollowsAreDue'
  <2>1. UNCHANGED projects /\ \A b \in Actors : b # a => doing'[b] = doing[b]
    BY <1>4, JobTurns
  <2>2. \A n \in notes' : n.to \in Team
    BY <1>4 DEF Notes
  <2>3. FollowedUpOnce'
    BY <1>4, <2>1, <2>2 DEF FollowedUpOnce, On, Noted
  <2>4. FollowsAreDue'
    BY <1>4, <2>1 DEF FollowsAreDue, On
  <2> QED BY <2>3, <2>4
<1>5. \A m, n \in notes : m.project = n.project => m = n
  BY DEF FollowedUpOnce
<1>6. \A n \in notes : projects[n.project].stale
  BY DEF FollowedUpOnce
<1>7. ASSUME NEW a \in Actors, FollowStart(a)
      PROVE  FollowedUpOnce' /\ FollowsAreDue'
  <2>1. JobStep(a) /\ UNCHANGED notes
    BY <1>7 DEF JobStep, FollowStart
  <2>2. /\ doing'[a].due = Due /\ doing'[a].left = Due /\ doing'[a].writing = {}
    BY <1>7, FollowBegins
  <2>3. \A p \in Due : projects[p].stale
    BY DEF Due
  <2> QED BY <1>0, <1>4, <1>5, <1>6, <2>1, <2>2, <2>3
<1>8. ASSUME NEW a \in Actors, NEW p \in Projects, FollowOne(a, p)
      PROVE  FollowedUpOnce' /\ FollowsAreDue'
  <2>1. /\ JobStep(a) /\ UNCHANGED notes /\ On(a, "follow") /\ p \in doing[a].left
    BY <1>8 DEF JobStep, FollowOne
  <2>2. /\ doing'[a].due = doing[a].due
        /\ doing'[a].left = IF Noted(p) THEN doing[a].left \ {p} ELSE doing[a].left
        /\ doing'[a].writing = IF Noted(p) THEN {} ELSE {[project |-> p, to |-> Recipient(a, p)]}
    BY <1>8, FollowGoes
  <2>3. \A q \in doing'[a].due \ doing'[a].left : \E n \in notes : n.project = q
    BY <2>1, <2>2 DEF FollowedUpOnce, Noted
  <2>4. \A q \in doing'[a].left : projects[q].stale
    BY <2>1, <2>2 DEF FollowsAreDue
  <2>5. projects[p].stale
    BY <2>1 DEF FollowsAreDue
  <2>6. (\A n \in doing'[a].writing : projects[n.project].stale) /\ \A m, n \in doing'[a].writing : m = n
    BY <2>2, <2>5
  <2> QED BY <1>0, <1>4, <1>5, <1>6, <2>1, <2>3, <2>4, <2>6
<1>9. ASSUME NEW a \in Actors, FollowWrite(a)
      PROVE  FollowedUpOnce' /\ FollowsAreDue'
  <2>1. /\ JobStep(a) /\ On(a, "follow") /\ doing[a] \in Follows
        /\ notes' = notes \cup {n \in doing[a].writing : ~ Noted(n.project)}
    BY <1>0, <1>9, DoingSorts DEF JobStep, FollowWrite
  <2>2. /\ doing'[a].due = doing[a].due /\ doing'[a].writing = {}
        /\ doing'[a].left = doing[a].left \ {n.project : n \in doing[a].writing}
    BY <1>9, NoteWritten
  <2>3. notes \subseteq notes' /\ notes' \subseteq Notes
    BY <1>0, <2>1 DEF Follows
  <2>4. \A m, n \in doing[a].writing : m = n
    BY <2>1 DEF FollowsAreDue
  <2>5. \A m, n \in notes' : m.project = n.project => m = n
    BY <1>5, <2>1, <2>4 DEF Noted
  <2>6. \A n \in notes' : projects[n.project].stale
    BY <1>6, <2>1 DEF FollowsAreDue
  <2>7. \A q \in doing'[a].due \ doing'[a].left : \E n \in notes' : n.project = q
    <3> SUFFICES ASSUME NEW q \in doing[a].due, q \notin doing'[a].left
                 PROVE  \E n \in notes' : n.project = q
      BY <2>2
    <3>1. CASE q \notin doing[a].left
      BY <2>1, <3>1 DEF FollowedUpOnce, Noted
    <3>2. ASSUME NEW n \in doing[a].writing, n.project = q
          PROVE  \E m \in notes' : m.project = q
      BY <2>1, <3>2 DEF Noted
    <3> QED BY <2>2, <3>1, <3>2
  <2>8. \A q \in doing'[a].left : projects[q].stale
    BY <2>1, <2>2 DEF FollowsAreDue
  <2> QED BY <1>4, <2>1, <2>2, <2>3, <2>5, <2>6, <2>7, <2>8
<1>10. ASSUME NEW a \in Actors,
              Remind(a) \/ RemindSettle(a) \/ RemindEnd(a) \/ \E o \in Owners : RemindOne(a, o)
       PROVE  FollowedUpOnce' /\ FollowsAreDue'
  <2>1. JobStep(a) /\ UNCHANGED notes
    BY <1>10 DEF JobStep, Remind, RemindSettle, RemindEnd, RemindOne
  <2>2. doing'[a].op # "follow"
    BY <1>0, <1>10, RemindBegins, RemindSettles, RemindGoes, ActorEnds
  <2> QED BY <1>3, <2>1, <2>2
<1> QED BY <1>1, <1>2, <1>7, <1>8, <1>9, <1>10, DiarySteps DEF JobStep

-----------------------------------------------------------------------------
(* The reminders.                                                          *)
Reminders == RemindsAreDue /\ MailIsDue /\ PendingIsKnown

LEMMA FiniteMail ==
  ASSUME DiaryTyped
  PROVE  /\ IsFiniteSet(Pending) /\ Cardinality(Pending) \in Nat
         /\ IsFiniteSet(Senders) /\ Cardinality(Senders) \in Nat /\ blots.stops \in Nat
<1>1. IsFiniteSet(Kinds)
  <2>1. IsFiniteSet({"ending"}) /\ Kinds = {"ending"} \cup {"ended"}
    BY FS_Singleton DEF Kinds
  <2> QED BY <2>1, FS_AddElement
<1>2. IsFiniteSet(Kinds \X Owners)
  BY <1>1, FS_Product, DiaryAssumption DEF DiaryAssumption
<1>3. Pending \subseteq Kinds \X Owners /\ Senders \subseteq Actors
  BY DEF Pending, Senders
<1>4. IsFiniteSet(Pending) /\ IsFiniteSet(Senders)
  BY <1>2, <1>3, FS_Subset, DiaryAssumption DEF DiaryAssumption
<1>5. blots.stops \in Nat
  BY DiaryAssumption DEF DiaryTyped, Blots, DiaryAssumption
<1> QED BY <1>4, <1>5, FS_CardinalityType

LEMMA MailWritten ==
  ASSUME DiaryTyped, NEW k \in Kinds, NEW o \in Owners, NEW s, Write(k, o, s)
  PROVE  /\ mail'[k][o] = s
         /\ \A j \in Kinds, u \in Owners : j # k \/ u # o => mail'[j][u] = mail[j][u]
BY DEF DiaryTyped, Mails, Write

LEMMA RemindersStay ==
  ASSUME DiaryTyped, Reminders, UNCHANGED mail, \A k \in Kinds : ComeTo(k) => ComeTo(k)',
         \A a \in Actors : doing'[a].op = "remind" => doing'[a] = doing[a],
         blots.stops + Cardinality(Senders) <= blots'.stops + Cardinality(Senders'),
         blots'.stops \in Nat, Cardinality(Senders') \in Nat
  PROVE  Reminders'
<1>1. \A a \in Actors : On(a, "remind") => doing[a].kind \in Kinds
  BY DoingSorts DEF DiaryTyped, Reminds
<1>2. RemindsAreDue'
  <2>1. \A a \in Actors : On(a, "remind")' => On(a, "remind") /\ doing'[a] = doing[a]
    BY DEF On
  <2> SUFFICES ASSUME NEW a \in Actors, On(a, "remind")'
               PROVE  /\ ComeTo(doing[a].kind)' /\ doing'[a].to \subseteq doing'[a].left
                      /\ \A u, v \in doing'[a].to : u = v
                      /\ \A o \in doing'[a].to : mail'[doing'[a].kind][o] # Unset
                      /\ \A o \in doing'[a].to, b \in Actors :
                           /\ mail'[doing'[a].kind][o] = "pending" /\ On(b, "remind")'
                           /\ doing'[b].kind = doing'[a].kind /\ o \in doing'[b].to
                           => b = a
    BY <2>1 DEF RemindsAreDue, ComeTo
  <2>2. On(a, "remind") /\ doing'[a] = doing[a]
    BY <2>1
  <2>3. ComeTo(doing[a].kind)'
    BY <1>1, <2>2 DEF Reminders, RemindsAreDue, ComeTo
  <2> QED BY <2>1, <2>2, <2>3 DEF Reminders, RemindsAreDue
<1>3. MailIsDue'
  BY DEF Reminders, MailIsDue
<1>4. Pending' = Pending
  BY DEF Pending
<1>5. PendingIsKnown'
  BY <1>4, FiniteMail DEF Reminders, PendingIsKnown
<1> QED BY <1>2, <1>3, <1>5 DEF Reminders

(* One run goes on about one pair, written or not.                         *)
LEMMA OneReminder ==
  ASSUME DiaryTyped, Reminders, NEW a \in Actors, NEW k \in Kinds,
         On(a, "remind"), doing'[a].op = "remind", doing[a].kind = k, doing'[a].kind = k,
         doing'[a].to \subseteq doing'[a].left, doing'[a].to \subseteq Owners,
         \A b \in Actors : b # a => doing'[b] = doing[b],
         UNCHANGED <<trial, blots>>,
         \/ /\ UNCHANGED mail
            /\ \/ doing'[a].to = {} /\ doing[a].to = {}
               \/ \E o \in Owners : mail[k][o] = "failed" /\ doing'[a].to = {o} /\ doing[a].to = {}
         \/ \E o \in Owners :
              /\ mail[k][o] = Unset /\ Write(k, o, "pending") /\ doing'[a].to = {o} /\ doing[a].to = {}
         \/ \E o \in Owners, s \in {"sent", "failed"} :
              /\ o \in doing[a].to /\ Write(k, o, s) /\ doing'[a].to = {}
  PROVE  Reminders'
<1>0. /\ mail \in Mails /\ RemindsAreDue /\ MailIsDue /\ ComeTo(k)
      /\ \A b \in Actors : On(b, "remind") => doing[b].kind \in Kinds /\ doing[b].to \subseteq Owners
      /\ IsFiniteSet(Pending) /\ Cardinality(Pending) \in Nat
      /\ IsFiniteSet(Senders) /\ Cardinality(Senders) \in Nat /\ blots.stops \in Nat
      /\ Cardinality(Pending) <= blots.stops + Cardinality(Senders)
  BY FiniteMail, DoingSorts DEF DiaryTyped, Reminds, Reminders, RemindsAreDue, PendingIsKnown
<1>1. \A j \in Kinds : ComeTo(j)' <=> ComeTo(j)
  BY DEF ComeTo
<1>2. \A b \in Actors : b # a => (On(b, "remind")' <=> On(b, "remind"))
  BY DEF On
<1>3. ASSUME UNCHANGED mail,
             \/ doing'[a].to = {} /\ doing[a].to = {}
             \/ \E o \in Owners : mail[k][o] = "failed" /\ doing'[a].to = {o} /\ doing[a].to = {}
      PROVE  Reminders'
  <2>1. /\ doing[a].to = {} /\ \A u, v \in doing'[a].to : u = v
        /\ \A o \in doing'[a].to : mail[k][o] = "failed"
    BY <1>3
  <2>2. RemindsAreDue'
    BY <1>0, <1>1, <1>2, <1>3, <2>1 DEF RemindsAreDue, On, Unset, ComeTo
  <2>3. Senders' = Senders /\ Pending' = Pending
    <3>1. \A b \in Actors : b = a => ~ \E o \in doing[b].to : mail[doing[b].kind][o] = "pending"
      BY <1>3
    <3>2. \A b \in Actors : b = a => ~ \E o \in doing'[b].to : mail'[doing'[b].kind][o] = "pending"
      BY <1>3
    <3>3. \A b \in Actors : b # a => doing'[b] = doing[b]
      OBVIOUS
    <3>4. mail' = mail
      BY <1>3
    <3> QED BY <1>2, <3>1, <3>2, <3>3, <3>4 DEF Senders, Pending
  <2> QED BY <1>0, <1>1, <1>3, <2>2, <2>3 DEF Reminders, MailIsDue, PendingIsKnown, ComeTo
<1>4. ASSUME NEW o \in Owners, mail[k][o] = Unset, Write(k, o, "pending"), doing'[a].to = {o}, doing[a].to = {}
      PROVE  Reminders'
  <2>1. /\ mail'[k][o] = "pending"
        /\ \A j \in Kinds, u \in Owners : j # k \/ u # o => mail'[j][u] = mail[j][u]
    BY <1>4, MailWritten
  <2>2. \A b \in Actors : On(b, "remind") /\ doing[b].kind = k => o \notin doing[b].to
    BY <1>0, <1>4 DEF RemindsAreDue
  <2>3. RemindsAreDue'
    BY <1>0, <1>1, <1>2, <1>4, <2>1, <2>2 DEF RemindsAreDue, On, Unset, ComeTo
  <2>4. MailIsDue'
    BY <1>0, <1>1, <2>1 DEF MailIsDue, ComeTo
  <2>5. Senders' = Senders \cup {a} /\ a \notin Senders
    BY <1>0, <1>2, <1>4, <2>1, <2>2 DEF Senders, On
  <2>6. Pending' = Pending \cup {<<k, o>>} /\ <<k, o>> \notin Pending
    BY <1>4, <2>1 DEF Pending, Unset
  <2>7. Cardinality(Senders') = Cardinality(Senders) + 1 /\ Cardinality(Pending') = Cardinality(Pending) + 1
    BY <1>0, <2>5, <2>6, OneMore
  <2>8. PendingIsKnown'
    BY <1>0, <2>7 DEF PendingIsKnown
  <2> QED BY <2>3, <2>4, <2>8 DEF Reminders
<1>5. ASSUME NEW o \in Owners, NEW s \in {"sent", "failed"}, o \in doing[a].to, Write(k, o, s), doing'[a].to = {}
      PROVE  Reminders'
  <2>1. /\ mail'[k][o] = s
        /\ \A j \in Kinds, u \in Owners : j # k \/ u # o => mail'[j][u] = mail[j][u]
    BY <1>5, MailWritten
  <2>2. RemindsAreDue'
    BY <1>0, <1>1, <1>2, <1>5, <2>1 DEF RemindsAreDue, On, Unset, ComeTo
  <2>3. MailIsDue'
    BY <1>0, <1>1, <2>1 DEF MailIsDue, ComeTo
  <2>4. CASE mail[k][o] = "pending"
    <3>1. \A b \in Actors : On(b, "remind") /\ doing[b].kind = k /\ o \in doing[b].to => b = a
      BY <1>0, <1>5, <2>4 DEF RemindsAreDue
    <3>2. Senders' = Senders \ {a} /\ a \in Senders
      BY <1>0, <1>2, <1>5, <2>1, <2>4, <3>1 DEF Senders, On
    <3>3. Pending' = Pending \ {<<k, o>>} /\ <<k, o>> \in Pending
      BY <1>5, <2>1, <2>4 DEF Pending
    <3>4. Cardinality(Senders') = Cardinality(Senders) - 1 /\ Cardinality(Pending') = Cardinality(Pending) - 1
      BY <1>0, <3>2, <3>3, OneLess
    <3> QED BY <1>0, <2>2, <2>3, <3>4 DEF Reminders, PendingIsKnown
  <2>5. CASE mail[k][o] # "pending"
    <3>1. Pending' = Pending
      BY <1>5, <2>1, <2>5 DEF Pending
    <3>2. Senders' = Senders
      BY <1>0, <1>2, <1>5, <2>1, <2>5 DEF Senders, On, RemindsAreDue
    <3> QED BY <1>0, <2>2, <2>3, <3>1, <3>2 DEF Reminders, PendingIsKnown
  <2> QED BY <2>4, <2>5
<1> QED BY <1>3, <1>4, <1>5

LEMMA RemindersKept ==
  ASSUME DiaryTyped, Reminders, [DiaryNext]_diaryVars
  PROVE  Reminders'
<1>0. /\ DoingTyped /\ Free.op = "free" /\ IsFiniteSet(Senders) /\ Cardinality(Senders) \in Nat
      /\ blots.stops \in Nat
  BY FreeIs, FiniteMail DEF DiaryTyped
<1>1. CASE UNCHANGED diaryVars \/ ProjectsMove \/ TrialMoves
  <2>1. UNCHANGED <<mail, doing, blots>> /\ \A k \in Kinds : ComeTo(k) => ComeTo(k)'
    BY <1>1, ProjectsTurn
  <2>2. Senders' = Senders
    BY <2>1 DEF Senders, On
  <2> QED BY <1>0, <2>1, <2>2, RemindersStay
<1>2. ASSUME NEW a \in Actors, StaffStep(a)
      PROVE  Reminders'
  <2>1. /\ UNCHANGED <<mail, trial>> /\ \A b \in Actors : b # a => doing'[b] = doing[b]
        /\ \A b \in Actors : doing'[b].op = "remind" => doing'[b] = doing[b]
    BY <1>2, StaffTurns
  <2>2. \A k \in Kinds : ComeTo(k) => ComeTo(k)'
    BY <2>1 DEF ComeTo
  <2>3. CASE Stop(a)
    <3>1. blots'.stops = blots.stops + 1 /\ doing'[a] = Free
      BY <2>3, StopGoes, ActorEnds
    <3>2. Senders' = Senders \ {a}
      BY <1>0, <2>1, <3>1 DEF Senders, On
    <3>3. Cardinality(Senders') \in Nat /\ Cardinality(Senders) <= Cardinality(Senders') + 1
      <4>1. CASE a \in Senders
        <5>1. IsFiniteSet(Senders') /\ Cardinality(Senders') = Cardinality(Senders) - 1
          BY <1>0, <3>2, <4>1, OneLess
        <5>2. Cardinality(Senders') \in Nat
          BY <5>1, FS_CardinalityType
        <5> QED BY <1>0, <5>1, <5>2
      <4>2. CASE a \notin Senders
        <5>1. Senders' = Senders
          BY <3>2, <4>2
        <5> QED BY <1>0, <5>1
      <4> QED BY <4>1, <4>2
    <3> QED BY <1>0, <2>1, <2>2, <3>1, <3>3, RemindersStay
  <2>4. CASE ~ Stop(a)
    <3>1. blots'.stops = blots.stops /\ (doing[a].op = "remind" => doing'[a] = doing[a])
      <4>1. CASE EndVisit(a)
        BY <4>1, VisitEnds DEF EndVisit, On
      <4>2. CASE WriteTask(a)
        BY <4>2, TaskGoes DEF WriteTask, On
      <4> QED BY <1>2, <2>4, <4>1, <4>2 DEF StaffStep, ScheduleVisit, LogTask, ReadVisit, ReadTask, On
    <3>2. Senders' = Senders
      BY <2>1, <3>1 DEF Senders, On
    <3> QED BY <1>0, <2>1, <2>2, <3>1, <3>2, RemindersStay
  <2> QED BY <2>3, <2>4
<1>3. ASSUME NEW a \in Actors, JobStep(a), UNCHANGED mail, a \notin Senders,
             doing'[a].op = "remind" => FALSE
      PROVE  Reminders'
  <2>1. /\ UNCHANGED <<trial, blots>> /\ \A b \in Actors : b # a => doing'[b] = doing[b]
    BY <1>3, JobTurns
  <2>2. Senders' = Senders /\ \A k \in Kinds : ComeTo(k) => ComeTo(k)'
    BY <1>3, <2>1 DEF Senders, On, ComeTo
  <2> QED BY <1>0, <1>3, <2>1, <2>2, RemindersStay
<1>4. ASSUME NEW a \in Actors, FollowStart(a) \/ FollowWrite(a) \/ \E p \in Projects : FollowOne(a, p)
      PROVE  Reminders'
  <2>1. JobStep(a) /\ UNCHANGED mail /\ a \notin Senders
    BY <1>4 DEF JobStep, FollowStart, FollowWrite, FollowOne, Senders, On
  <2>2. doing'[a].op = "follow"
    BY <1>4, FollowBegins, NoteWritten, FollowGoes
  <2> QED BY <1>3, <2>1, <2>2
<1>5. ASSUME NEW a \in Actors, RemindEnd(a)
      PROVE  Reminders'
  <2>1. JobStep(a) /\ UNCHANGED mail /\ On(a, "remind") /\ doing[a].left = {}
    BY <1>5 DEF JobStep, RemindEnd
  <2>2. a \notin Senders
    BY <2>1 DEF Reminders, RemindsAreDue, Senders
  <2> QED BY <1>0, <1>3, <1>5, <2>1, <2>2, ActorEnds
<1>6. ASSUME NEW a \in Actors, Remind(a)
      PROVE  Reminders'
  <2>1. JobStep(a) /\ UNCHANGED <<mail, trial, blots>> /\ a \notin Senders /\ doing[a].op = "follow"
    BY <1>6 DEF JobStep, Remind, Senders, On
  <2>2. /\ \A b \in Actors : b # a => doing'[b] = doing[b]
        /\ \/ doing'[a] = Free
           \/ /\ doing'[a].op = "remind" /\ doing'[a].to = {} /\ trial \notin {"running", "subscribed"}
              /\ doing'[a].kind = IF trial = "expired" THEN "ended" ELSE "ending"
    BY <1>6, RemindBegins
  <2>3. CASE doing'[a] = Free
    BY <1>0, <1>3, <2>1, <2>3
  <2>4. CASE doing'[a].op = "remind"
    <3>1. /\ doing'[a].to = {} /\ trial \notin {"running", "subscribed"}
          /\ doing'[a].kind = IF trial = "expired" THEN "ended" ELSE "ending"
      BY <1>0, <2>2, <2>4
    <3>2. ComeTo(doing[a].kind)'
      BY <2>1, <3>1 DEF ComeTo, DiaryTyped
    <3>3. RemindsAreDue'
      BY <2>1, <2>2, <2>4, <3>1, <3>2 DEF Reminders, RemindsAreDue, On, ComeTo
    <3>4. Senders' = Senders /\ Pending' = Pending
      BY <2>1, <2>2, <3>1 DEF Senders, Pending, On
    <3> QED BY <2>1, <3>3, <3>4 DEF Reminders, MailIsDue, PendingIsKnown, ComeTo
  <2> QED BY <2>2, <2>3, <2>4
<1>7. ASSUME NEW a \in Actors, RemindSettle(a) \/ \E o \in Owners : RemindOne(a, o)
      PROVE  Reminders'
  <2>1. JobStep(a) /\ On(a, "remind")
    BY <1>7 DEF JobStep, RemindSettle, RemindOne
  <2>2. /\ UNCHANGED <<trial, blots>> /\ \A b \in Actors : b # a => doing'[b] = doing[b]
    BY <2>1, JobTurns
  <2>3. doing[a] \in Reminds
    BY <1>0, <2>1, DoingSorts
  <2>4. PICK k \in Kinds : k = doing[a].kind
    BY <2>3 DEF Reminds
  <2>5. CASE RemindSettle(a)
    <3>1. /\ doing'[a].op = "remind" /\ doing'[a].kind = k /\ doing'[a].to = {}
          /\ \E o \in doing[a].to, s \in {"sent", "failed"} : Write(k, o, s)
      BY <2>4, <2>5, RemindSettles
    <3>2. doing[a].to \subseteq Owners
      BY <2>3 DEF Reminds
    <3>3. \E o \in Owners, s \in {"sent", "failed"} : o \in doing[a].to /\ Write(k, o, s) /\ doing'[a].to = {}
      BY <3>1, <3>2
    <3> QED BY <2>1, <2>2, <2>4, <3>1, <3>3, OneReminder
  <2>6. ASSUME NEW o \in Owners, RemindOne(a, o)
        PROVE  Reminders'
    <3>1. /\ doing'[a].op = "remind" /\ doing'[a].kind = k /\ doing'[a].to \subseteq doing'[a].left
          /\ doing[a].to = {}
          /\ \/ /\ mail[k][o] = Unset /\ Write(k, o, "pending") /\ doing'[a].to = {o}
             \/ /\ mail[k][o] = "failed" /\ UNCHANGED mail /\ doing'[a].to = {o}
             \/ /\ UNCHANGED mail /\ doing'[a].to = {}
      BY <2>4, <2>6, RemindGoes
    <3>2. doing'[a].to \subseteq Owners
      BY <3>1
    <3> QED BY <2>1, <2>2, <2>4, <3>1, <3>2, OneReminder
  <2> QED BY <1>7, <2>5, <2>6
<1> QED BY <1>1, <1>2, <1>4, <1>5, <1>6, <1>7, DiarySteps DEF JobStep

LEMMA DiaryKept ==
  ASSUME DiaryInv, [DiaryNext]_diaryVars
  PROVE  DiaryInv'
BY DiaryTypedKept, VisitCountsKept, TaskCountsKept, FollowsKept, RemindersKept DEF DiaryInv, Reminders

LEMMA DiarySound == DiaryInv => DiaryTypeOK /\ DiaryIsSound
<1> SUFFICES ASSUME DiaryInv
             PROVE  DiaryTypeOK /\ DiaryIsSound
  OBVIOUS
<1>0. DiaryTyped /\ DoingTyped /\ IsFiniteSet(Actors) /\ MaxTaskSets \in Nat
  BY DiaryAssumption DEF DiaryInv, DiaryTyped, DiaryAssumption
<1>1. /\ Cardinality(Actors) \in Nat /\ Cardinality(Visiting) \in Nat /\ Cardinality(Tasking) \in Nat
  <2>1. Visiting \subseteq Actors /\ Tasking \subseteq Actors
    BY DEF Visiting, Tasking
  <2> QED BY <1>0, <2>1, FS_Subset, FS_CardinalityType
<1>2. /\ visit \in [status : {Unset, "scheduled"} \cup Ends, scheduled : 0 .. 1,
                    completed : 0 .. Cardinality(Actors), cancelled : 0 .. Cardinality(Actors)]
  <2>1. visit.completed <= Cardinality(Actors) /\ visit.cancelled <= Cardinality(Actors)
    BY <1>0, <1>1 DEF DiaryInv, VisitCounts, DiaryTyped, VisitRows
  <2> QED BY <1>0, <1>1, <2>1 DEF DiaryTyped, VisitRows
<1>3. task \in [status : {"open", "done", "cancelled"}, completed : BOOLEAN,
                logged : 0 .. MaxTaskSets, sets : 0 .. MaxTaskSets]
  <2>1. task.logged <= MaxTaskSets
    BY <1>0, <1>1 DEF DiaryInv, TaskCounts, DiaryTyped, TaskRows
  <2> QED BY <1>0, <2>1 DEF DiaryTyped, TaskRows, TaskStatuses
<1>4. \A a \in Actors : doing[a].op \in {"free", "visit", "task", "log", "follow", "remind"}
  BY <1>0, DoingSorts
<1>5. DiaryTypeOK
  BY <1>0, <1>2, <1>3, <1>4 DEF DiaryTyped, DiaryTypeOK, ProjectRows, Notes, Mails
<1>6. RemindersAreDue
  <2>1. /\ \A k \in Kinds, o \in Owners : mail[k][o] # "unsendable" /\ (mail[k][o] # Unset => ComeTo(k))
    BY DEF DiaryInv, MailIsDue
  <2>2. Cardinality(Pending) <= blots.stops + Cardinality({a \in Actors : On(a, "remind") /\ doing[a].to # {}})
    <3>1. Senders \subseteq {a \in Actors : On(a, "remind") /\ doing[a].to # {}}
      BY DEF Senders
    <3>2. IsFiniteSet({a \in Actors : On(a, "remind") /\ doing[a].to # {}})
      BY <1>0, FS_Subset
    <3>3. /\ Cardinality(Senders) <= Cardinality({a \in Actors : On(a, "remind") /\ doing[a].to # {}})
          /\ Cardinality({a \in Actors : On(a, "remind") /\ doing[a].to # {}}) \in Nat
      BY <3>1, <3>2, FS_Subset, FS_CardinalityType
    <3> QED BY <1>0, <3>3, FiniteMail DEF DiaryInv, PendingIsKnown
  <2> QED BY <2>1, <2>2 DEF RemindersAreDue, ComeTo, Pending, Kinds
<1> QED BY <1>5, <1>6 DEF DiaryInv, DiaryIsSound, VisitCounts, TaskCounts


(***************************************************************************)
(* Migrations: a walk along the revisions, and induction on it by the      *)
(* least counterexample, because the provers cannot apply a theorem that   *)
(* takes the formula to be proved as its parameter.                        *)
(***************************************************************************)

LEMMA LeastOf ==
  ASSUME NEW T, T \subseteq Nat, T # {}
  PROVE  \E n \in T : \A k \in T : n <= k
<1>1. \E n \in T : \A k \in T : ~ (<<k, n>> \in OpToRel(<, Nat))
  BY WFMin, NatLessThanWellFounded
<1>2. \A a, b \in Nat : a < b => <<a, b>> \in {ss \in Nat \X Nat : ss[1] < ss[2]}
  BY SMT
<1>3. {ss \in Nat \X Nat : ss[1] < ss[2]} = OpToRel(<, Nat)
  BY Zenon DEF OpToRel
<1>4. \A a, b \in Nat : a < b => <<a, b>> \in OpToRel(<, Nat)
  BY <1>2, <1>3, Zenon
<1>5. PICK n \in T : \A k \in T : ~ (<<k, n>> \in OpToRel(<, Nat))
  BY <1>1, Zenon
<1>6. \A k \in T : ~ (k < n)
  BY <1>4, <1>5, Zenon
<1> QED
  BY <1>6, SMT

(* What holds at a and is kept going up to b holds all the way.            *)
LEMMA GoingUp ==
  ASSUME NEW a \in Nat, NEW b \in Nat, NEW S, a \in S,
         \A n \in a + 1 .. b : n - 1 \in S => n \in S
  PROVE  \A n \in a .. b : n \in S
<1> DEFINE Bad == {n \in a .. b : n \notin S}
<1>1. SUFFICES ASSUME Bad # {} PROVE FALSE
  OBVIOUS
<1>2. Bad \subseteq Nat
  OBVIOUS
<1>3. PICK m \in Bad : \A k \in Bad : m <= k
  <2> HIDE DEF Bad
  <2> QED BY <1>1, <1>2, LeastOf
<1>4. m \in a + 1 .. b /\ ~ (m <= m - 1) /\ m - 1 \in a .. b
  BY <1>3
<1>5. m - 1 \in S
  BY <1>3, <1>4
<1> QED
  BY <1>3, <1>4, <1>5

(* And going down from b to a.                                             *)
LEMMA GoingDown ==
  ASSUME NEW a \in Nat, NEW b \in Nat, NEW S, b \in S,
         \A n \in a .. b - 1 : n + 1 \in S => n \in S
  PROVE  \A n \in a .. b : n \in S
<1> DEFINE T == {k \in 0 .. b : b - k \in S \/ b - k < a}
<1>1. 0 \in T
  OBVIOUS
<1>2. \A k \in 0 + 1 .. b : k - 1 \in T => k \in T
  <2>1. ASSUME NEW k \in 1 .. b, k - 1 \in T, a <= b - k PROVE b - k \in S
    <3>1. b - k \in a .. b - 1 /\ b - (k - 1) = (b - k) + 1 /\ ~ (b - (k - 1) < a)
      BY <2>1
    <3> QED BY <2>1, <3>1
  <2> QED BY <2>1
<1>3. \A k \in 0 .. b : k \in T
  <2> HIDE DEF T
  <2> QED BY <1>1, <1>2, GoingUp
<1>4. ASSUME NEW n \in a .. b PROVE n \in S
  <2>1. b - n \in 0 .. b /\ b - (b - n) = n /\ ~ (n < a)
    OBVIOUS
  <2> QED BY <1>3, <2>1
<1> QED
  BY <1>4

(* The database passes through every revision on its way up.               *)
PassesUp(at, r, from, to) ==
  at[from] = r /\ \A n \in from + 1 .. to : at[n] = Filled(at[n - 1], n)

LEMMA UpgradePasses ==
  ASSUME NEW r, NEW from \in Nat, NEW to \in Nat, from <= to
  PROVE  \E at : PassesUp(at, r, from, to) /\ Upgraded(r, from, to) = at[to]
<1> DEFINE Path(at, b) == at = [n \in from .. b |-> IF n = from THEN r ELSE Filled(at[n - 1], n)]
           S == {b \in from .. to : \E at : Path(at, b)}
<1>1. from \in S
  <2>1. Path([n \in from .. from |-> r], from)
    OBVIOUS
  <2>2. \E at : Path(at, from)
    <3> HIDE DEF Path
    <3> QED BY <2>1, Zenon
  <2> QED BY <2>2
<1>2. ASSUME NEW b \in from + 1 .. to, b - 1 \in S PROVE b \in S
  <2>1. PICK at : Path(at, b - 1)
    BY <1>2
  <2> DEFINE on == [n \in from .. b |-> IF n = b THEN Filled(at[b - 1], b) ELSE at[n]]
  <2>2. \A n \in from .. b - 1 : on[n] = at[n]
    OBVIOUS
  <2>3. \A n \in from .. b : on[n] = IF n = from THEN r ELSE Filled(on[n - 1], n)
    <3>1. ASSUME NEW n \in from .. b PROVE on[n] = IF n = from THEN r ELSE Filled(on[n - 1], n)
      <4>1. CASE n = b
        <5>1. n - 1 \in from .. b - 1 /\ n # from
          BY <4>1
        <5> QED BY <4>1, <5>1, <2>2
      <4>2. CASE n # b /\ n # from
        <5>1. n \in from .. b - 1 /\ n - 1 \in from .. b - 1
          BY <4>2
        <5>2. at[n] = Filled(at[n - 1], n)
          BY <2>1, <4>2, <5>1
        <5> QED BY <4>2, <5>1, <5>2, <2>2
      <4>3. CASE n # b /\ n = from
        BY <2>1, <2>2, <4>3
      <4> QED BY <4>1, <4>2, <4>3
    <3> QED BY <3>1
  <2>4. Path(on, b)
    <3>1. on = [n \in from .. b |-> on[n]]
      OBVIOUS
    <3> HIDE DEF on
    <3> QED BY <2>3, <3>1
  <2>5. \E way : Path(way, b)
    <3> HIDE DEF Path, on
    <3> QED BY <2>4, Zenon
  <2> QED BY <2>5
<1>3. to \in S
  <2> HIDE DEF S
  <2> QED BY <1>1, <1>2, GoingUp
<1>4. \E at : Path(at, to)
  BY <1>3
<1> DEFINE fix == CHOOSE at : Path(at, to)
<1>5. Path(fix, to)
  <2> HIDE DEF Path
  <2> QED BY <1>4, Zenon
<1>6. Upgraded(r, from, to) = fix[to]
  BY Zenon DEF Upgraded
<1> HIDE DEF fix
<1>7. PassesUp(fix, r, from, to)
  BY <1>5 DEF PassesUp
<1> QED BY <1>6, <1>7

(* And on its way down.                                                    *)
PassesDown(at, r, from, to) ==
  at[from] = r /\ \A n \in to .. from - 1 : at[n] = Undone(at[n + 1], n + 1)

LEMMA DowngradePasses ==
  ASSUME NEW r, NEW from \in Nat, NEW to \in Nat, to <= from
  PROVE  \E at : PassesDown(at, r, from, to) /\ Downgraded(r, from, to) = at[to]
<1> DEFINE Path(at, b) == at = [n \in b .. from |-> IF n = from THEN r ELSE Undone(at[n + 1], n + 1)]
           S == {b \in to .. from : \E at : Path(at, b)}
<1>1. from \in S
  <2>1. Path([n \in from .. from |-> r], from)
    OBVIOUS
  <2>2. \E at : Path(at, from)
    <3> HIDE DEF Path
    <3> QED BY <2>1, Zenon
  <2> QED BY <2>2
<1>2. ASSUME NEW b \in to .. from - 1, b + 1 \in S PROVE b \in S
  <2>1. PICK at : Path(at, b + 1)
    BY <1>2
  <2> DEFINE on == [n \in b .. from |-> IF n = b THEN Undone(at[b + 1], b + 1) ELSE at[n]]
  <2>2. \A n \in b + 1 .. from : on[n] = at[n]
    OBVIOUS
  <2>3. \A n \in b .. from : on[n] = IF n = from THEN r ELSE Undone(on[n + 1], n + 1)
    <3>1. ASSUME NEW n \in b .. from PROVE on[n] = IF n = from THEN r ELSE Undone(on[n + 1], n + 1)
      <4>1. CASE n = b
        <5>1. n + 1 \in b + 1 .. from /\ n # from
          BY <4>1
        <5> QED BY <4>1, <5>1, <2>2
      <4>2. CASE n # b /\ n # from
        <5>1. n \in b + 1 .. from /\ n + 1 \in b + 1 .. from
          BY <4>2
        <5>2. at[n] = Undone(at[n + 1], n + 1)
          BY <2>1, <4>2, <5>1
        <5> QED BY <4>2, <5>1, <5>2, <2>2
      <4>3. CASE n # b /\ n = from
        BY <2>1, <2>2, <4>3
      <4> QED BY <4>1, <4>2, <4>3
    <3> QED BY <3>1
  <2>4. Path(on, b)
    <3>1. on = [n \in b .. from |-> on[n]]
      OBVIOUS
    <3> HIDE DEF on
    <3> QED BY <2>3, <3>1
  <2>5. \E way : Path(way, b)
    <3> HIDE DEF Path, on
    <3> QED BY <2>4, Zenon
  <2> QED BY <2>5
<1>3. to \in S
  <2> HIDE DEF S
  <2> QED BY <1>1, <1>2, GoingDown
<1>4. \E at : Path(at, to)
  BY <1>3
<1> DEFINE fix == CHOOSE at : Path(at, to)
<1>5. Path(fix, to)
  <2> HIDE DEF Path
  <2> QED BY <1>4, Zenon
<1>6. Downgraded(r, from, to) = fix[to]
  BY Zenon DEF Downgraded
<1> HIDE DEF fix
<1>7. PassesDown(fix, r, from, to)
  BY <1>5 DEF PassesDown
<1> QED BY <1>6, <1>7


(***************************************************************************)
(* Migrations: the rows of a database at revision n.                       *)
(***************************************************************************)

Rows ==
  [tenants : SUBSET Workspaces, orphans : BOOLEAN, sub : [Workspaces -> {Null, "metered", "free"}],
   quotes : SUBSET Quote, projects : SUBSET Project, currency : {Null} \cup Currencies]

(* What each revision says of the row it changes, those written by an      *)
(* older release included: that is all the next revision can count on.     *)
QuoteAt(q, n) ==
  /\ n < 24 => q.kind = Null /\ q.currency = Null
  /\ n >= 24 => q.kind # Null /\ q.currency # Null
  /\ q.extras # 0 => q.parts = 1 + q.extras
  /\ n < 20 => q.lines = 0 /\ (~ q.dropped => q.parts = 1 + q.extras)
  /\ n >= 20 /\ ~ q.late => q.lines = IF q.dropped THEN 1 + q.extras ELSE q.parts

ProjectAt(p, r, n) ==
  /\ p.quoted => r.quotes # {}
  /\ n >= 33 /\ ~ p.late => p.flow # Null
  /\ p.flow = "legacy" /\ ~ p.late => p.stage = p.status
  /\ n >= 41 => p.currency # Null
  /\ n >= 41 /\ p.quoted /\ ~ p.late => \A q \in r.quotes : p.currency = q.currency

RowsAt(r, n) ==
  /\ r \in Rows
  /\ \A q1, q2 \in r.quotes : q1 = q2
  /\ \A p1, p2 \in r.projects : p1 = p2
  /\ n >= 6 => ~ r.orphans
  /\ n >= 26 <=> r.currency # Null
  /\ \A q \in r.quotes : QuoteAt(q, n)
  /\ \A p \in r.projects : ProjectAt(p, r, n)

LEMMA TheQuote == 
  ASSUME NEW r, NEW q \in r.quotes, \A q1, q2 \in r.quotes : q1 = q2
  PROVE  QuoteCurrency(r) = q.currency
  BY DEF QuoteCurrency

LEMMA RowsAreTyped ==
  ASSUME NEW r, NEW n, RowsAt(r, n)
  PROVE  Cardinality(r.quotes) <= 1 /\ Cardinality(r.projects) <= 1
<1>1. ASSUME NEW S, \A a, b \in S : a = b PROVE Cardinality(S) <= 1
  <2>1. CASE S = {}
    BY <2>1, FS_EmptySet
  <2>2. CASE S # {}
    <3>1. PICK a : S = {a}
      BY <1>1, <2>2
    <3> QED BY <3>1, FS_Singleton
  <2> QED BY <2>1, <2>2
<1> QED
  BY <1>1 DEF RowsAt

(***************************************************************************)
(* Migrations: each revision keeps them so on its way up...                *)
(***************************************************************************)

LEMMA WithQuotes ==
  ASSUME NEW r, NEW m \in Nat, NEW n \in Nat, RowsAt(r, m), n >= 6 => m >= 6, n < 26, m < 26,
         NEW Q \in SUBSET Quote, \A q1, q2 \in Q : q1 = q2, Q = {} => r.quotes = {},
         \A q \in Q : QuoteAt(q, n)
  PROVE  RowsAt([r EXCEPT !.quotes = Q], n)
<1> DEFINE s == [r EXCEPT !.quotes = Q]
<1>1. r \in Rows
  BY DEF RowsAt
<1>2. /\ s \in Rows /\ s.quotes = Q /\ s.projects = r.projects /\ s.orphans = r.orphans
      /\ s.currency = r.currency
  BY <1>1 DEF Rows
<1> HIDE DEF s
<1>3. \A p \in r.projects : ProjectAt(p, s, n)
  BY <1>2 DEF RowsAt, ProjectAt
<1>4. RowsAt(s, n)
  BY <1>2, <1>3 DEF RowsAt
<1> QED
  BY <1>4 DEF s

LEMMA WithProjects ==
  ASSUME NEW r, NEW m \in Nat, NEW n \in Nat, RowsAt(r, m), n >= 26, m >= 26,
         NEW P \in SUBSET Project, \A p1, p2 \in P : p1 = p2,
         \A p \in P : ProjectAt(p, r, n)
  PROVE  RowsAt([r EXCEPT !.projects = P], n)
<1> DEFINE s == [r EXCEPT !.projects = P]
<1>1. r \in Rows
  BY DEF RowsAt
<1>2. /\ s \in Rows /\ s.quotes = r.quotes /\ s.projects = P /\ s.orphans = r.orphans
      /\ s.currency = r.currency
  BY <1>1 DEF Rows
<1> HIDE DEF s
<1>3. \A q \in r.quotes : QuoteAt(q, n)
  BY DEF RowsAt, QuoteAt
<1>4. \A p \in P : ProjectAt(p, s, n)
  BY <1>2 DEF ProjectAt
<1>5. RowsAt(s, n)
  BY <1>2, <1>3, <1>4 DEF RowsAt
<1> QED
  BY <1>5 DEF s

LEMMA SplitKeeps ==
  ASSUME NEW r, RowsAt(r, 19)
  PROVE  RowsAt(SplitIntoLines(r), 20)
<1> DEFINE line(q) == [q EXCEPT !.lines = 1 + q.extras]
           Q == {line(q) : q \in r.quotes}
<1>1. r.quotes \in SUBSET Quote /\ \A q1, q2 \in r.quotes : q1 = q2
  BY DEF RowsAt, Rows
<1>2. SplitIntoLines(r) = [r EXCEPT !.quotes = Q]
  BY DEF SplitIntoLines, OnQuotes
<1>3. ASSUME NEW q \in r.quotes PROVE line(q) \in Quote /\ QuoteAt(line(q), 20)
  <2>1. q \in Quote /\ QuoteAt(q, 19)
    BY <1>1 DEF RowsAt
  <2>2. line(q) \in Quote
    BY <2>1 DEF Quote
  <2>3. /\ line(q).kind = q.kind /\ line(q).currency = q.currency /\ line(q).lines = 1 + q.extras
        /\ line(q).extras = q.extras /\ line(q).parts = q.parts
        /\ line(q).dropped = q.dropped /\ line(q).late = q.late
    BY <2>1 DEF Quote
  <2> HIDE DEF line
  <2> QED BY <2>1, <2>2, <2>3 DEF QuoteAt
<1>4. Q \in SUBSET Quote /\ (\A q1, q2 \in Q : q1 = q2) /\ (Q = {} => r.quotes = {})
      /\ \A q \in Q : QuoteAt(q, 20)
  <2> HIDE DEF line
  <2> QED BY <1>1, <1>3
<1> HIDE DEF Q
<1> QED
  BY <1>2, <1>4, WithQuotes

LEMMA CallKeeps ==
  ASSUME NEW r, RowsAt(r, 23)
  PROVE  RowsAt(CallStone(r), 24)
<1> DEFINE line(q) == [q EXCEPT !.kind = "stone", !.currency = "GBP", !.trade = FALSE]
           Q == {line(q) : q \in r.quotes}
<1>1. r.quotes \in SUBSET Quote /\ \A q1, q2 \in r.quotes : q1 = q2
  BY DEF RowsAt, Rows
<1>2. CallStone(r) = [r EXCEPT !.quotes = Q]
  BY DEF CallStone, OnQuotes
<1>3. ASSUME NEW q \in r.quotes PROVE line(q) \in Quote /\ QuoteAt(line(q), 24)
  <2>1. q \in Quote /\ QuoteAt(q, 23)
    BY <1>1 DEF RowsAt
  <2>2. line(q) \in Quote
    BY <2>1 DEF Quote, Currencies
  <2>3. /\ line(q).kind = "stone" /\ line(q).currency = "GBP" /\ line(q).lines = q.lines
        /\ line(q).extras = q.extras /\ line(q).parts = q.parts
        /\ line(q).dropped = q.dropped /\ line(q).late = q.late
    BY <2>1 DEF Quote
  <2> HIDE DEF line
  <2> QED BY <2>1, <2>2, <2>3 DEF QuoteAt, Null
<1>4. Q \in SUBSET Quote /\ (\A q1, q2 \in Q : q1 = q2) /\ (Q = {} => r.quotes = {})
      /\ \A q \in Q : QuoteAt(q, 24)
  <2> HIDE DEF line
  <2> QED BY <1>1, <1>3
<1> HIDE DEF Q
<1> QED
  BY <1>2, <1>4, WithQuotes

LEMMA BindKeeps ==
  ASSUME NEW r, RowsAt(r, 32)
  PROVE  RowsAt(BindToLegacy(r), 33)
<1> DEFINE bound(p) == [p EXCEPT !.flow = "legacy", !.stage = p.status]
           P == {bound(p) : p \in r.projects}
<1>1. r.projects \in SUBSET Project /\ \A p1, p2 \in r.projects : p1 = p2
  BY DEF RowsAt, Rows
<1>2. BindToLegacy(r) = [r EXCEPT !.projects = P]
  BY DEF BindToLegacy, OnProjects
<1>3. ASSUME NEW p \in r.projects PROVE bound(p) \in Project /\ ProjectAt(bound(p), r, 33)
  <2>1. p \in Project /\ ProjectAt(p, r, 32)
    BY <1>1 DEF RowsAt
  <2>2. bound(p) \in Project
    BY <2>1 DEF Project, Statuses
  <2>3. /\ bound(p).flow = "legacy" /\ bound(p).stage = bound(p).status
        /\ bound(p).quoted = p.quoted
    BY <2>1 DEF Project
  <2> QED BY <2>1, <2>2, <2>3 DEF ProjectAt, Null
<1>4. P \in SUBSET Project /\ (\A p1, p2 \in P : p1 = p2) /\ \A p \in P : ProjectAt(p, r, 33)
  <2> HIDE DEF bound
  <2> QED BY <1>1, <1>3
<1> HIDE DEF P
<1> QED
  BY <1>2, <1>4, WithProjects

LEMMA PriceKeeps ==
  ASSUME NEW r, RowsAt(r, 40)
  PROVE  RowsAt(PriceProjects(r), 41)
<1> DEFINE priced(p) == [p EXCEPT !.currency = IF p.quoted THEN QuoteCurrency(r) ELSE r.currency]
           P == {priced(p) : p \in r.projects}
<1>1. /\ r \in Rows /\ r.projects \in SUBSET Project
      /\ \A p1, p2 \in r.projects : p1 = p2
  BY DEF RowsAt, Rows
<1>2. PriceProjects(r) = [r EXCEPT !.projects = P]
  BY DEF PriceProjects, OnProjects
<1>3. \A q \in r.quotes : QuoteCurrency(r) = q.currency
  BY TheQuote DEF RowsAt
<1>4. r.currency \in Currencies
  BY <1>1 DEF Rows, RowsAt
<1>5. ASSUME NEW p \in r.projects PROVE priced(p) \in Project /\ ProjectAt(priced(p), r, 41)
  <2>1. p \in Project /\ ProjectAt(p, r, 40)
    BY <1>1 DEF RowsAt
  <2>2. CASE p.quoted
    <3>1. PICK q \in r.quotes : q \in Quote /\ QuoteAt(q, 40)
      BY <1>1, <2>1, <2>2 DEF ProjectAt, Rows, RowsAt
    <3>2. QuoteCurrency(r) \in Currencies
      BY <1>3, <3>1 DEF Quote, QuoteAt
    <3> QED BY <1>3, <2>1, <2>2, <3>2 DEF Project, ProjectAt, Null, Currencies
  <2>3. CASE ~ p.quoted
    BY <1>4, <2>1, <2>3 DEF Project, ProjectAt, Null, Currencies
  <2> QED BY <2>2, <2>3
<1>6. P \in SUBSET Project /\ (\A p1, p2 \in P : p1 = p2) /\ \A p \in P : ProjectAt(p, r, 41)
  <2> HIDE DEF priced
  <2> QED BY <1>1, <1>5
<1> HIDE DEF P
<1> QED
  BY <1>2, <1>6, WithProjects

LEMMA FilledKeeps ==
  ASSUME NEW r, NEW n \in Nat, n > 0, RowsAt(r, n - 1)
  PROVE  RowsAt(Filled(r, n), n)
<1>0. r \in Rows
  BY DEF RowsAt
<1>1. CASE n = 6
  <2>1. Filled(r, n) = AdoptOrphans(r)
    BY <1>1 DEF Filled
  <2> DEFINE t == AdoptOrphans(r)
  <2>2. /\ t \in Rows /\ t.quotes = r.quotes /\ t.projects = r.projects /\ ~ t.orphans
        /\ t.currency = r.currency
    BY <1>0 DEF AdoptOrphans, Rows, Workspaces
  <2> HIDE DEF t
  <2>3. RowsAt(t, n)
    BY <1>1, <2>2 DEF RowsAt, QuoteAt, ProjectAt
  <2> QED BY <2>1, <2>3 DEF t
<1>2. CASE n = 20
  BY <1>2, SplitKeeps DEF Filled
<1>3. CASE n = 24
  BY <1>3, CallKeeps DEF Filled
<1>4. CASE n = 26
  <2>1. Filled(r, n) = [r EXCEPT !.currency = "GBP"]
    BY <1>4 DEF Filled
  <2> QED BY <1>0, <1>4, <2>1 DEF Rows, RowsAt, QuoteAt, ProjectAt, Null, Currencies
<1>5. CASE n = 32
  <2>1. Filled(r, n) = Grandfather(r)
    BY <1>5 DEF Filled
  <2> QED BY <1>0, <1>5, <2>1 DEF Grandfather, Rows, RowsAt, QuoteAt, ProjectAt
<1>6. CASE n = 33
  BY <1>6, BindKeeps DEF Filled
<1>7. CASE n = 41
  BY <1>7, PriceKeeps DEF Filled
<1>8. CASE n \notin Fills
  <2>1. Filled(r, n) = r
    BY <1>8 DEF Filled, Fills
  <2> QED BY <1>0, <1>8, <2>1 DEF Fills, RowsAt, QuoteAt, ProjectAt
<1> QED
  BY <1>1, <1>2, <1>3, <1>4, <1>5, <1>6, <1>7, <1>8 DEF Fills

(***************************************************************************)
(* Migrations: ... and on its way down.                                    *)
(***************************************************************************)

LEMMA UncallKeeps ==
  ASSUME NEW r, RowsAt(r, 24)
  PROVE  RowsAt(Undone(r, 24), 23)
<1> DEFINE line(q) == [q EXCEPT !.kind = Null, !.currency = Null, !.trade = FALSE]
           Q == {line(q) : q \in r.quotes}
<1>1. r.quotes \in SUBSET Quote /\ \A q1, q2 \in r.quotes : q1 = q2
  BY DEF RowsAt, Rows
<1>2. Undone(r, 24) = [r EXCEPT !.quotes = Q]
  BY DEF Undone, OnQuotes
<1>3. ASSUME NEW q \in r.quotes PROVE line(q) \in Quote /\ QuoteAt(line(q), 23)
  <2>1. q \in Quote /\ QuoteAt(q, 24)
    BY <1>1 DEF RowsAt
  <2>2. line(q) \in Quote
    BY <2>1 DEF Quote
  <2>3. /\ line(q).kind = Null /\ line(q).currency = Null /\ line(q).lines = q.lines
        /\ line(q).extras = q.extras /\ line(q).parts = q.parts
        /\ line(q).dropped = q.dropped /\ line(q).late = q.late
    BY <2>1 DEF Quote
  <2> HIDE DEF line
  <2> QED BY <2>1, <2>2, <2>3 DEF QuoteAt
<1>4. Q \in SUBSET Quote /\ (\A q1, q2 \in Q : q1 = q2) /\ (Q = {} => r.quotes = {})
      /\ \A q \in Q : QuoteAt(q, 23)
  <2> HIDE DEF line
  <2> QED BY <1>1, <1>3
<1> HIDE DEF Q
<1> QED
  BY <1>2, <1>4, WithQuotes

LEMMA UnsplitKeeps ==
  ASSUME NEW r, RowsAt(r, 20)
  PROVE  RowsAt(Undone(r, 20), 19)
<1> DEFINE line(q) == [q EXCEPT !.lines = 0, !.dropped = TRUE]
           Q == {line(q) : q \in r.quotes}
<1>1. r.quotes \in SUBSET Quote /\ \A q1, q2 \in r.quotes : q1 = q2
  BY DEF RowsAt, Rows
<1>2. Undone(r, 20) = [r EXCEPT !.quotes = Q]
  BY DEF Undone, OnQuotes
<1>3. ASSUME NEW q \in r.quotes PROVE line(q) \in Quote /\ QuoteAt(line(q), 19)
  <2>1. q \in Quote /\ QuoteAt(q, 20)
    BY <1>1 DEF RowsAt
  <2>2. line(q) \in Quote
    <3>1. 0 \in 0 .. 2 /\ TRUE \in BOOLEAN
      OBVIOUS
    <3> QED BY <2>1, <3>1, Zenon DEF Quote
  <2>3. /\ line(q).kind = q.kind /\ line(q).currency = q.currency /\ line(q).lines = 0
        /\ line(q).extras = q.extras /\ line(q).parts = q.parts /\ line(q).dropped
    BY <2>1 DEF Quote
  <2> HIDE DEF line
  <2> QED BY <2>1, <2>2, <2>3 DEF QuoteAt
<1>4. Q \in SUBSET Quote /\ (\A q1, q2 \in Q : q1 = q2) /\ (Q = {} => r.quotes = {})
      /\ \A q \in Q : QuoteAt(q, 19)
  <2> HIDE DEF line
  <2> QED BY <1>1, <1>3
<1> HIDE DEF Q
<1> QED
  BY <1>2, <1>4, WithQuotes

LEMMA UnbindKeeps ==
  ASSUME NEW r, RowsAt(r, 33)
  PROVE  RowsAt(Undone(r, 33), 32)
<1> DEFINE loose(p) == [p EXCEPT !.flow = Null, !.stage = Null]
           P == {loose(p) : p \in r.projects}
<1>1. r.projects \in SUBSET Project /\ \A p1, p2 \in r.projects : p1 = p2
  BY DEF RowsAt, Rows
<1>2. Undone(r, 33) = [r EXCEPT !.projects = P]
  BY DEF Undone, OnProjects
<1>3. ASSUME NEW p \in r.projects PROVE loose(p) \in Project /\ ProjectAt(loose(p), r, 32)
  <2>1. p \in Project /\ ProjectAt(p, r, 33)
    BY <1>1 DEF RowsAt
  <2>2. loose(p) \in Project /\ loose(p).flow = Null /\ loose(p).quoted = p.quoted
    BY <2>1 DEF Project
  <2> QED BY <2>1, <2>2 DEF ProjectAt, Null
<1>4. P \in SUBSET Project /\ (\A p1, p2 \in P : p1 = p2) /\ \A p \in P : ProjectAt(p, r, 32)
  <2> HIDE DEF loose
  <2> QED BY <1>1, <1>3
<1> HIDE DEF P
<1> QED
  BY <1>2, <1>4, WithProjects

LEMMA UnpriceKeeps ==
  ASSUME NEW r, RowsAt(r, 41)
  PROVE  RowsAt(Undone(r, 41), 40)
<1> DEFINE loose(p) == [p EXCEPT !.currency = Null]
           P == {loose(p) : p \in r.projects}
<1>1. r.projects \in SUBSET Project /\ \A p1, p2 \in r.projects : p1 = p2
  BY DEF RowsAt, Rows
<1>2. Undone(r, 41) = [r EXCEPT !.projects = P]
  BY DEF Undone, OnProjects
<1>3. ASSUME NEW p \in r.projects PROVE loose(p) \in Project /\ ProjectAt(loose(p), r, 40)
  <2>1. p \in Project /\ ProjectAt(p, r, 41)
    BY <1>1 DEF RowsAt
  <2>2. /\ loose(p) \in Project /\ loose(p).flow = p.flow /\ loose(p).quoted = p.quoted
        /\ loose(p).stage = p.stage /\ loose(p).status = p.status /\ loose(p).late = p.late
    BY <2>1 DEF Project
  <2> HIDE DEF loose
  <2> QED BY <2>1, <2>2 DEF ProjectAt
<1>4. P \in SUBSET Project /\ (\A p1, p2 \in P : p1 = p2) /\ \A p \in P : ProjectAt(p, r, 40)
  <2> HIDE DEF loose
  <2> QED BY <1>1, <1>3
<1> HIDE DEF P
<1> QED
  BY <1>2, <1>4, WithProjects

LEMMA UnquoteKeeps ==
  ASSUME NEW r, RowsAt(r, 14)
  PROVE  RowsAt(Undone(r, 14), 13)
<1> DEFINE loose(p) == [p EXCEPT !.quoted = FALSE]
           P == {loose(p) : p \in r.projects}
           t == [r EXCEPT !.projects = P]
<1>1. r \in Rows /\ r.projects \in SUBSET Project /\ \A p1, p2 \in r.projects : p1 = p2
  BY DEF RowsAt, Rows
<1>2. Undone(r, 14) = t
  BY DEF Undone, OnProjects
<1>3. ASSUME NEW p \in r.projects PROVE loose(p) \in Project /\ ProjectAt(loose(p), t, 13)
  <2>1. p \in Project /\ ProjectAt(p, r, 14)
    BY <1>1 DEF RowsAt
  <2>2. /\ loose(p) \in Project /\ loose(p).flow = p.flow /\ loose(p).quoted = FALSE
        /\ loose(p).stage = p.stage /\ loose(p).status = p.status /\ loose(p).late = p.late
    BY <2>1 DEF Project
  <2> HIDE DEF loose, t
  <2> QED BY <2>1, <2>2 DEF ProjectAt
<1>4. /\ P \in SUBSET Project /\ (\A p1, p2 \in P : p1 = p2)
      /\ \A p \in P : ProjectAt(p, t, 13)
  <2> HIDE DEF loose, t
  <2> QED BY <1>1, <1>3
<1>5. /\ t \in Rows /\ t.quotes = r.quotes /\ t.projects = P /\ t.orphans = r.orphans
      /\ t.currency = r.currency
  <2> HIDE DEF P
  <2> QED BY <1>1, <1>4 DEF Rows
<1>6. \A q \in r.quotes : QuoteAt(q, 13)
  BY DEF RowsAt, QuoteAt
<1> HIDE DEF t, P
<1> QED
  BY <1>2, <1>4, <1>5, <1>6 DEF RowsAt

LEMMA UndoneKeeps ==
  ASSUME NEW r, NEW n \in Nat, n > 0, RowsAt(r, n)
  PROVE  RowsAt(Undone(r, n), n - 1)
<1>0. r \in Rows
  BY DEF RowsAt
<1> DEFINE t == Undone(r, n)
<1>1. CASE n = 41
  BY <1>1, UnpriceKeeps
<1>2. CASE n = 33
  BY <1>2, UnbindKeeps
<1>3. CASE n = 24
  BY <1>3, UncallKeeps
<1>4. CASE n = 20
  BY <1>4, UnsplitKeeps
<1>5. CASE n = 14
  BY <1>5, UnquoteKeeps
<1>6. CASE n = 26
  <2>1. t = [r EXCEPT !.currency = Null]
    BY <1>6 DEF Undone
  <2>2. /\ t \in Rows /\ t.quotes = r.quotes /\ t.projects = r.projects /\ t.orphans = r.orphans
        /\ t.currency = Null
    BY <1>0, <2>1 DEF Rows
  <2> HIDE DEF t
  <2>3. RowsAt(t, n - 1)
    BY <1>6, <2>2 DEF RowsAt, QuoteAt, ProjectAt
  <2> QED BY <2>3 DEF t
<1>7. CASE n \in {32, 19}
  <2>1. /\ t \in Rows /\ t.quotes = r.quotes /\ t.projects = r.projects /\ t.orphans = r.orphans
        /\ t.currency = r.currency
    BY <1>0, <1>7 DEF Undone, Rows
  <2> HIDE DEF t
  <2>2. RowsAt(t, n - 1)
    BY <1>7, <2>1 DEF RowsAt, QuoteAt, ProjectAt
  <2> QED BY <2>2 DEF t
<1>8. CASE n \notin {41, 33, 32, 26, 24, 20, 19, 14}
  <2>1. Undone(r, n) = r
    BY <1>8 DEF Undone
  <2> QED BY <1>8, <2>1 DEF RowsAt, QuoteAt, ProjectAt
<1> QED
  BY <1>1, <1>2, <1>3, <1>4, <1>5, <1>6, <1>7, <1>8

(***************************************************************************)
(* Migrations: what the rows say survives, the lines and the kind of a     *)
(* quote, free subscriptions and workspaces.                               *)
(***************************************************************************)

\* r's quotes are all in t, as general as they were, and with as many lines unless the
\* revision n has no table for them.
Survive(r, t, n) ==
  \A q \in r.quotes : \E s \in t.quotes :
    /\ q.kind = "general" => s.kind = "general"
    /\ s.lines < q.lines => n < 20

\* Nobody is lost and nobody has to pay who had not to.
Spares(r, t) ==
  /\ r.tenants \subseteq t.tenants
  /\ \A w \in Workspaces : r.sub[w] = "free" => t.sub[w] = "free"

LEMMA MapsOn ==
  ASSUME NEW r \in Rows, NEW Q, NEW n \in Nat,
         \A q \in r.quotes : \E s \in Q : (q.kind = "general" => s.kind = "general")
                                         /\ (s.lines < q.lines => n < 20)
  PROVE  Survive(r, [r EXCEPT !.quotes = Q], n)
<1>1. [r EXCEPT !.quotes = Q].quotes = Q
  BY DEF Rows
<1> QED
  BY <1>1 DEF Survive

LEMMA SameQuotes ==
  ASSUME NEW r \in Rows, NEW t, t.quotes = r.quotes, NEW n
  PROVE  Survive(r, t, n)
<1>1. \A q \in r.quotes : ~ (q.lines < q.lines)
  BY DEF Rows, Quote
<1> QED
  BY <1>1 DEF Survive

LEMMA FilledSpares ==
  ASSUME NEW r, NEW n \in Nat, n > 0, RowsAt(r, n - 1)
  PROVE  /\ Survive(r, Filled(r, n), 20) /\ Spares(r, Filled(r, n))
         /\ n = 32 => \A w \in r.tenants : Filled(r, n).sub[w] = "free"
<1>0. r \in Rows
  BY DEF RowsAt
<1> DEFINE t == Filled(r, n)
<1>1. CASE n = 6
  <2>1. t.quotes = r.quotes /\ r.tenants \subseteq t.tenants /\ t.sub = r.sub
    BY <1>0, <1>1 DEF Filled, AdoptOrphans, Rows
  <2> HIDE DEF t
  <2>2. Survive(r, t, 20) /\ Spares(r, t)
    BY <1>0, <2>1, SameQuotes DEF Spares
  <2>9. n # 32
    BY <1>1
  <2> QED BY <2>2, <2>9 DEF t
<1>2. CASE n = 20
  <2> DEFINE line(q) == [q EXCEPT !.lines = 1 + q.extras]
             Q == {line(q) : q \in r.quotes}
  <2>1. t = [r EXCEPT !.quotes = Q]
    BY <1>2 DEF Filled, SplitIntoLines, OnQuotes
  <2>2. ASSUME NEW q \in r.quotes PROVE line(q).kind = q.kind /\ ~ (line(q).lines < q.lines)
    <3>1. q \in Quote /\ QuoteAt(q, 19)
      BY <1>0, <1>2 DEF Rows, RowsAt
    <3>2. line(q).kind = q.kind /\ line(q).lines = 1 + q.extras
      BY <3>1 DEF Quote
    <3>3. q.lines = 0 /\ q.extras \in 0 .. 1
      BY <3>1 DEF Quote, QuoteAt
    <3> HIDE DEF line
    <3> QED BY <3>2, <3>3
  <2>3. Survive(r, t, 20)
    <3>1. \A q \in r.quotes : line(q) \in Q
      OBVIOUS
    <3> HIDE DEF Q, line
    <3>2. \A q \in r.quotes : \E s \in Q : (q.kind = "general" => s.kind = "general")
                                          /\ (s.lines < q.lines => 20 < 20)
      BY <2>2, <3>1
    <3> QED BY <1>0, <2>1, <3>2, MapsOn
  <2>4. t.tenants = r.tenants /\ t.sub = r.sub
    <3> HIDE DEF Q
    <3> QED BY <1>0, <2>1 DEF Rows
  <2> HIDE DEF t
  <2>5. Spares(r, t)
    BY <2>4 DEF Spares
  <2>9. n # 32
    BY <1>2
  <2> QED BY <2>3, <2>5, <2>9 DEF t
<1>3. CASE n = 24
  <2> DEFINE line(q) == [q EXCEPT !.kind = "stone", !.currency = "GBP", !.trade = FALSE]
             Q == {line(q) : q \in r.quotes}
  <2>1. t = [r EXCEPT !.quotes = Q]
    BY <1>3 DEF Filled, CallStone, OnQuotes
  <2>2. ASSUME NEW q \in r.quotes PROVE q.kind # "general" /\ ~ (line(q).lines < q.lines)
    <3>1. q \in Quote /\ QuoteAt(q, 23)
      BY <1>0, <1>3 DEF Rows, RowsAt
    <3> QED BY <3>1 DEF Quote, QuoteAt, Null
  <2>3. Survive(r, t, 20)
    <3>1. \A q \in r.quotes : line(q) \in Q
      OBVIOUS
    <3> HIDE DEF Q, line
    <3>2. \A q \in r.quotes : \E s \in Q : (q.kind = "general" => s.kind = "general")
                                          /\ (s.lines < q.lines => 20 < 20)
      BY <2>2, <3>1
    <3> QED BY <1>0, <2>1, <3>2, MapsOn
  <2>4. t.tenants = r.tenants /\ t.sub = r.sub
    <3> HIDE DEF Q
    <3> QED BY <1>0, <2>1 DEF Rows
  <2> HIDE DEF t
  <2>5. Spares(r, t)
    BY <2>4 DEF Spares
  <2>9. n # 32
    BY <1>3
  <2> QED BY <2>3, <2>5, <2>9 DEF t
<1>4. CASE n = 32
  <2>1. /\ t.quotes = r.quotes /\ r.tenants = t.tenants
        /\ \A w \in Workspaces : t.sub[w] = IF w \in r.tenants THEN "free" ELSE r.sub[w]
    BY <1>0, <1>4 DEF Filled, Grandfather, Rows
  <2>2. r.tenants \subseteq Workspaces
    BY <1>0 DEF Rows
  <2> HIDE DEF t
  <2>3. Survive(r, t, 20) /\ Spares(r, t) /\ \A w \in r.tenants : t.sub[w] = "free"
    BY <1>0, <2>1, <2>2, SameQuotes DEF Spares
  <2> QED BY <2>3 DEF t
<1>5. CASE n \notin {6, 20, 24, 32}
  <2>1. t.quotes = r.quotes /\ t.tenants = r.tenants /\ t.sub = r.sub
    BY <1>0, <1>5 DEF Filled, Rows, BindToLegacy, PriceProjects, OnProjects
  <2> HIDE DEF t
  <2>2. Survive(r, t, 20) /\ Spares(r, t)
    BY <1>0, <2>1, SameQuotes DEF Spares
  <2> QED BY <1>5, <2>2 DEF t
<1> QED
  BY <1>1, <1>2, <1>3, <1>4, <1>5

LEMMA UndoneSpares ==
  ASSUME NEW r, NEW n \in Nat, n > 0, RowsAt(r, n), MayUndo(r, n)
  PROVE  Survive(r, Undone(r, n), n - 1)
<1>0. r \in Rows
  BY DEF RowsAt
<1> DEFINE t == Undone(r, n)
<1>1. CASE n = 20
  <2> DEFINE line(q) == [q EXCEPT !.lines = 0, !.dropped = TRUE]
             Q == {line(q) : q \in r.quotes}
  <2>1. t = [r EXCEPT !.quotes = Q]
    BY <1>1 DEF Undone, OnQuotes
  <2>2. \A q \in r.quotes : line(q).kind = q.kind
    BY <1>0 DEF Rows, Quote
  <2>3. \A q \in r.quotes : line(q) \in Q
    OBVIOUS
  <2> HIDE DEF t, Q, line
  <2>4. Survive(r, t, n - 1)
    BY <1>0, <1>1, <2>1, <2>2, <2>3, MapsOn
  <2> QED BY <2>4 DEF t
<1>2. CASE n = 24
  <2> DEFINE line(q) == [q EXCEPT !.kind = Null, !.currency = Null, !.trade = FALSE]
             Q == {line(q) : q \in r.quotes}
  <2>1. t = [r EXCEPT !.quotes = Q]
    BY <1>2 DEF Undone, OnQuotes
  <2>2. \A q \in r.quotes : q.kind # "general" /\ ~ (line(q).lines < q.lines)
    BY <1>0, <1>2 DEF Rows, Quote, MayUndo
  <2>3. \A q \in r.quotes : line(q) \in Q
    OBVIOUS
  <2> HIDE DEF t, Q, line
  <2>4. Survive(r, t, n - 1)
    <3>1. \A q \in r.quotes : \E s \in Q : (q.kind = "general" => s.kind = "general")
                                          /\ (s.lines < q.lines => 23 < 20)
      BY <2>2, <2>3
    <3>2. Survive(r, t, 23) /\ n - 1 = 23
      BY <1>0, <1>2, <2>1, <3>1, MapsOn
    <3> QED BY <3>2
  <2> QED BY <2>4 DEF t
<1>3. CASE n \notin {20, 24}
  <2>1. t.quotes = r.quotes
    BY <1>0, <1>3 DEF Undone, Rows, OnProjects
  <2> HIDE DEF t
  <2>2. Survive(r, t, n - 1)
    BY <1>0, <2>1, SameQuotes
  <2> QED BY <2>2 DEF t
<1> QED
  BY <1>1, <1>2, <1>3


(***************************************************************************)
(* Schema: what the chain says of a column.  Every INSERT of a user names  *)
(* its workspace from the sixth revision on, and no release before that    *)
(* one knows the column.                                                   *)
(***************************************************************************)

LEMMA RevisionParts ==
  ASSUME NEW a, NEW b
  PROVE  /\ (a \sqcup b).frees = a.frees \cup b.frees
         /\ (a \sqcup b).adds = a.adds \cup b.adds
         /\ (a \sqcup b).requires = a.requires \cup b.requires
  BY DEF \sqcup

LEMMA RevisionSorts ==
  /\ \A c, d : /\ Tables(c, d).frees = {} /\ Tables(c, d).adds = {} /\ Tables(c, d).requires = {}
  /\ \A t, names : /\ Columns(t, names).frees = {} /\ Columns(t, names).adds = {t} \X names
                   /\ Columns(t, names).requires = {}
  /\ \A t, names : /\ Links(t, names).frees = {} /\ Links(t, names).adds = {}
                   /\ Links(t, names).requires = {}
  /\ \A t, names : /\ Requires(t, names).frees = {} /\ Requires(t, names).adds = {}
                   /\ Requires(t, names).requires = {t} \X names
  /\ \A t, names : Frees(t, names).frees = {t} \X names
  /\ Nothing.frees = {} /\ Nothing.adds = {} /\ Nothing.requires = {}
  BY DEF Tables, Columns, Links, Requires, Frees, Nothing

LEMMA ChainLinks ==
  /\ Latest = 42
  /\ Chain[1] = CoreSchema /\ Chain[2] = AddPasswordHash /\ Chain[3] = AddProjectStatus
  /\ Chain[4] = AddTenants /\ Chain[5] = AddTenantKeys /\ Chain[6] = RequireUsersTenant
  /\ \A n \in 1 .. 42 : Chain[n] \in
       {CoreSchema, AddPasswordHash, AddProjectStatus, AddTenants, AddTenantKeys,
        RequireUsersTenant, AddInvitations, Nothing, AddPortalLinks, AddUsersIsActive,
        AddDocuments, AddMessages, AddQuoteApproval, AddProjectQuoteId, AddAppointments,
        AddProjectAssignee, AddNotificationSource, AddQuoteDimensions, AddSubscriptions,
        AddQuoteItems, AddCompanyIdentity, ExpandCustomerProfile, ExpandProjectRecord,
        UniversalQuoting, AddAutomationsTasks, AddWorkspaceConfiguration, AddCommunications,
        AddEmailEvents, AddEmailVerification, AddPasswordReset, AddTrialColumns,
        AddGrandfathering, AddWorkflowEngine, AddDemoRequests, AddCatalogue,
        AddFinancialsVariations, AddProcurement, AddComplianceControls, AddSessionRevocations,
        AddProjectCurrency, AddWorkspacePhotos}
  BY DEF Latest, Chain

UsersTenant == <<"users", "tenant_id">>

\* No revision lets go of the column again.
LEMMA NoneFrees ==
  \A n \in 1 .. 42 : UsersTenant \notin Chain[n].frees
<1>1. UsersTenant \notin {"quotes"} \X {"length_mm"}
  BY DEF UsersTenant
<1>2. UniversalQuoting.frees = {"quotes"} \X {"length_mm"}
  BY RevisionParts, RevisionSorts DEF UniversalQuoting
<1>3. /\ CoreSchema.frees = {} /\ AddPasswordHash.frees = {} /\ AddProjectStatus.frees = {}
      /\ AddTenants.frees = {} /\ AddTenantKeys.frees = {} /\ RequireUsersTenant.frees = {}
      /\ AddInvitations.frees = {} /\ Nothing.frees = {} /\ AddPortalLinks.frees = {}
      /\ AddUsersIsActive.frees = {} /\ AddDocuments.frees = {} /\ AddMessages.frees = {}
      /\ AddQuoteApproval.frees = {} /\ AddProjectQuoteId.frees = {}
  BY RevisionParts, RevisionSorts
     DEF CoreSchema, AddPasswordHash, AddProjectStatus, AddTenants, AddTenantKeys,
         RequireUsersTenant, AddInvitations, Nothing, AddPortalLinks, AddUsersIsActive,
         AddDocuments, AddMessages, AddQuoteApproval, AddProjectQuoteId
<1>4. /\ AddAppointments.frees = {} /\ AddProjectAssignee.frees = {}
      /\ AddNotificationSource.frees = {} /\ AddQuoteDimensions.frees = {}
      /\ AddSubscriptions.frees = {} /\ AddQuoteItems.frees = {} /\ AddCompanyIdentity.frees = {}
      /\ ExpandCustomerProfile.frees = {} /\ ExpandProjectRecord.frees = {}
      /\ AddAutomationsTasks.frees = {} /\ AddWorkspaceConfiguration.frees = {}
      /\ AddCommunications.frees = {} /\ AddEmailEvents.frees = {}
      /\ AddEmailVerification.frees = {}
  BY RevisionParts, RevisionSorts
     DEF AddAppointments, AddProjectAssignee, AddNotificationSource, AddQuoteDimensions,
         AddSubscriptions, AddQuoteItems, AddCompanyIdentity, ExpandCustomerProfile,
         ExpandProjectRecord, AddAutomationsTasks, AddWorkspaceConfiguration,
         AddCommunications, AddEmailEvents, AddEmailVerification
<1>5. /\ AddPasswordReset.frees = {} /\ AddTrialColumns.frees = {} /\ AddGrandfathering.frees = {}
      /\ AddWorkflowEngine.frees = {} /\ AddDemoRequests.frees = {} /\ AddCatalogue.frees = {}
      /\ AddFinancialsVariations.frees = {} /\ AddProcurement.frees = {}
      /\ AddComplianceControls.frees = {} /\ AddSessionRevocations.frees = {}
      /\ AddProjectCurrency.frees = {} /\ AddWorkspacePhotos.frees = {}
  BY RevisionParts, RevisionSorts
     DEF AddPasswordReset, AddTrialColumns, AddGrandfathering, AddWorkflowEngine,
         AddDemoRequests, AddCatalogue, AddFinancialsVariations, AddProcurement,
         AddComplianceControls, AddSessionRevocations, AddProjectCurrency, AddWorkspacePhotos
<1> QED
  BY <1>1, <1>2, <1>3, <1>4, <1>5, ChainLinks, ZenonT(40)

\* The column comes with the sixth.
LEMMA SixthRequires ==
  /\ UsersTenant \in Chain[6].requires
  /\ \A n \in 1 .. 5 : UsersTenant \notin Chain[n].adds /\ UsersTenant \notin Chain[n].requires
<1>1. /\ UsersTenant \notin {"users"} \X {"password_hash"}
      /\ UsersTenant \notin {"projects"} \X {"status"}
      /\ UsersTenant \in {"users"} \X {"tenant_id"}
  BY DEF UsersTenant
<1>2. /\ CoreSchema.adds = {} /\ CoreSchema.requires = {}
      /\ AddPasswordHash.adds = {"users"} \X {"password_hash"}
      /\ AddPasswordHash.requires = {"users"} \X {"password_hash"}
      /\ AddProjectStatus.adds = {"projects"} \X {"status"} /\ AddProjectStatus.requires = {}
      /\ AddTenants.adds = {} /\ AddTenants.requires = {}
      /\ AddTenantKeys.adds = {} /\ AddTenantKeys.requires = {}
      /\ RequireUsersTenant.requires = {"users"} \X {"tenant_id"}
  BY RevisionParts, RevisionSorts
     DEF CoreSchema, AddPasswordHash, AddProjectStatus, AddTenants, AddTenantKeys,
         RequireUsersTenant, Nothing
<1> QED
  BY <1>1, <1>2, ChainLinks

LEMMA SortedCreates ==
  /\ \A c, d : Tables(c, d).creates = c
  /\ \A S, t, names :
       /\ Columns(t, names).creates \in Seq(S) /\ Links(t, names).creates \in Seq(S)
       /\ Requires(t, names).creates \in Seq(S)
  BY DEF Tables, Columns, Links, Requires, Nothing

LEMMA JoinedCreates ==
  \A S, a, b : a.creates \in Seq(S) /\ b.creates \in Seq(S) => (a \sqcup b).creates \in Seq(S)
  BY DEF \sqcup

LEMMA ShortSequences ==
  /\ \A a, b, c, d : <<a, b, c, d>> \in Seq({a, b, c, d})
  /\ \A a, b, c, d, i, j, k : <<a, b, c, d, i, j, k>> \in Seq({a, b, c, d, i, j, k})
  /\ \A a, b, c, d, i, j, k : \E S : <<a, b, c>> \o <<d, i, j, k>> \in Seq(S)
<1>1. \A a, b, c, d : <<a, b, c, d>> \in Seq({a, b, c, d})
  OBVIOUS
<1>2. \A a, b, c, d, i, j, k : <<a, b, c, d, i, j, k>> \in Seq({a, b, c, d, i, j, k})
  OBVIOUS
<1>3. ASSUME NEW a, NEW b, NEW c, NEW d, NEW i, NEW j, NEW k
      PROVE  \E S : <<a, b, c>> \o <<d, i, j, k>> \in Seq(S)
  <2> DEFINE S == {a, b, c, d, i, j, k}
  <2>1. <<a, b, c>> \in Seq(S) /\ <<d, i, j, k>> \in Seq(S)
    OBVIOUS
  <2> HIDE DEF S
  <2> QED BY <2>1
<1> QED
  BY <1>1, <1>2, <1>3

(* Creating tables leaves the columns alone.                               *)
LEMMA ChainCreates == \A n \in 1 .. 42 : Len(Chain[n].creates) \in Nat
<1>1. /\ Len(CoreSchema.creates) \in Nat /\ Len(AddPasswordHash.creates) \in Nat
      /\ Len(AddProjectStatus.creates) \in Nat /\ Len(AddTenants.creates) \in Nat
      /\ Len(AddTenantKeys.creates) \in Nat /\ Len(RequireUsersTenant.creates) \in Nat
      /\ Len(AddInvitations.creates) \in Nat
  BY DEF CoreSchema, AddPasswordHash, AddProjectStatus, AddTenants, AddTenantKeys,
         RequireUsersTenant, AddInvitations,
         Tables, Columns, Links, Requires, Frees, Nothing, \sqcup
<1>2. /\ Len(AddPortalLinks.creates) \in Nat /\ Len(AddUsersIsActive.creates) \in Nat
      /\ Len(AddDocuments.creates) \in Nat /\ Len(AddMessages.creates) \in Nat
      /\ Len(AddQuoteApproval.creates) \in Nat /\ Len(AddProjectQuoteId.creates) \in Nat
      /\ Len(AddAppointments.creates) \in Nat
  BY DEF AddPortalLinks, AddUsersIsActive, AddDocuments, AddMessages, AddQuoteApproval,
         AddProjectQuoteId, AddAppointments,
         Tables, Columns, Links, Requires, Frees, Nothing, \sqcup
<1>3. /\ Len(AddProjectAssignee.creates) \in Nat
      /\ Len(AddNotificationSource.creates) \in Nat
      /\ Len(AddQuoteDimensions.creates) \in Nat /\ Len(AddSubscriptions.creates) \in Nat
      /\ Len(AddQuoteItems.creates) \in Nat /\ Len(AddCompanyIdentity.creates) \in Nat
      /\ Len(ExpandCustomerProfile.creates) \in Nat
  BY DEF AddProjectAssignee, AddNotificationSource, AddQuoteDimensions, AddSubscriptions,
         AddQuoteItems, AddCompanyIdentity, ExpandCustomerProfile,
         Tables, Columns, Links, Requires, Frees, Nothing, \sqcup
<1>4. /\ Len(ExpandProjectRecord.creates) \in Nat /\ Len(UniversalQuoting.creates) \in Nat
      /\ Len(AddAutomationsTasks.creates) \in Nat
      /\ Len(AddWorkspaceConfiguration.creates) \in Nat
      /\ Len(AddCommunications.creates) \in Nat /\ Len(AddEmailEvents.creates) \in Nat
      /\ Len(AddEmailVerification.creates) \in Nat
  BY DEF ExpandProjectRecord, UniversalQuoting, AddAutomationsTasks,
         AddWorkspaceConfiguration, AddCommunications, AddEmailEvents, AddEmailVerification,
         Tables, Columns, Links, Requires, Frees, Nothing, \sqcup
<1>5. /\ Len(AddPasswordReset.creates) \in Nat /\ Len(AddTrialColumns.creates) \in Nat
      /\ Len(AddGrandfathering.creates) \in Nat /\ Len(AddDemoRequests.creates) \in Nat
      /\ Len(AddFinancialsVariations.creates) \in Nat
      /\ Len(AddComplianceControls.creates) \in Nat
      /\ Len(AddSessionRevocations.creates) \in Nat
  BY DEF AddPasswordReset, AddTrialColumns, AddGrandfathering, AddDemoRequests,
         AddFinancialsVariations, AddComplianceControls, AddSessionRevocations,
         Tables, Columns, Links, Requires, Frees, Nothing, \sqcup
<1>6. /\ Len(AddProjectCurrency.creates) \in Nat /\ Len(AddWorkspacePhotos.creates) \in Nat
  BY DEF AddProjectCurrency, AddWorkspacePhotos,
         Tables, Columns, Links, Requires, Frees, Nothing, \sqcup
<1>7. Len(AddWorkflowEngine.creates) \in Nat
  <2>1. \E S : WorkflowTables \in Seq(S)
    BY ShortSequences, Zenon DEF WorkflowTables
  <2>2. PICK S : WorkflowTables \in Seq(S)
    BY <2>1, Zenon
  <2>3. AddWorkflowEngine.creates \in Seq(S)
    BY <2>2, JoinedCreates, SortedCreates, ZenonT(40) DEF AddWorkflowEngine
  <2> QED BY <2>3
<1>8. Len(AddCatalogue.creates) \in Nat
  <2>1. \E S : CatalogueTables \in Seq(S)
    BY ShortSequences, Zenon DEF CatalogueTables
  <2>2. PICK S : CatalogueTables \in Seq(S)
    BY <2>1, Zenon
  <2>3. AddCatalogue.creates \in Seq(S)
    BY <2>2, JoinedCreates, SortedCreates, ZenonT(40) DEF AddCatalogue
  <2> QED BY <2>3
<1>9. Len(AddProcurement.creates) \in Nat
  <2>1. \E S : RequirementTables \o ReceiptTables \in Seq(S)
    BY ShortSequences, Zenon DEF RequirementTables, ReceiptTables
  <2>2. PICK S : RequirementTables \o ReceiptTables \in Seq(S)
    BY <2>1, Zenon
  <2>3. AddProcurement.creates \in Seq(S)
    BY <2>2, JoinedCreates, SortedCreates, ZenonT(40) DEF AddProcurement
  <2> QED BY <2>3
<1>10. Len(Nothing.creates) \in Nat
  BY DEF Nothing
<1> QED
  BY <1>1, <1>2, <1>3, <1>4, <1>5, <1>6, <1>7, <1>8, <1>9, <1>10, ChainLinks, Zenon

LEMMA CreatedPasses ==
  ASSUME NEW s, NEW tables, Len(tables) \in Nat
  PROVE  /\ Created(s, tables).required = s.required
         /\ Created(s, tables).columns = s.columns
<1> DEFINE n == Len(tables)
           Path(at, b) == at = [i \in 0 .. b |-> IF i = 0 THEN s ELSE Create(at[i - 1], tables[i])]
           S == {b \in 0 .. n : \E at : Path(at, b)}
<1>1. 0 \in S
  <2>1. Path([i \in 0 .. 0 |-> s], 0)
    OBVIOUS
  <2>2. \E at : Path(at, 0)
    <3> HIDE DEF Path
    <3> QED BY <2>1, Zenon
  <2> QED BY <2>2
<1>2. ASSUME NEW b \in 0 + 1 .. n, b - 1 \in S PROVE b \in S
  <2>1. PICK at : Path(at, b - 1)
    BY <1>2
  <2> DEFINE on == [i \in 0 .. b |-> IF i = b THEN Create(at[b - 1], tables[b]) ELSE at[i]]
  <2>2. \A i \in 0 .. b - 1 : on[i] = at[i]
    OBVIOUS
  <2>3. \A i \in 0 .. b : on[i] = IF i = 0 THEN s ELSE Create(on[i - 1], tables[i])
    <3>1. ASSUME NEW i \in 0 .. b PROVE on[i] = IF i = 0 THEN s ELSE Create(on[i - 1], tables[i])
      <4>1. CASE i = b
        <5>1. i - 1 \in 0 .. b - 1 /\ i # 0
          BY <4>1
        <5> QED BY <4>1, <5>1, <2>2
      <4>2. CASE i # b /\ i # 0
        <5>1. i \in 0 .. b - 1 /\ i - 1 \in 0 .. b - 1
          BY <4>2
        <5>2. at[i] = Create(at[i - 1], tables[i])
          BY <2>1, <4>2, <5>1
        <5> QED BY <4>2, <5>1, <5>2, <2>2
      <4>3. CASE i # b /\ i = 0
        BY <2>1, <2>2, <4>3
      <4> QED BY <4>1, <4>2, <4>3
    <3> QED BY <3>1
  <2>4. Path(on, b)
    <3>1. on = [i \in 0 .. b |-> on[i]]
      OBVIOUS
    <3> HIDE DEF on
    <3> QED BY <2>3, <3>1
  <2>5. \E at_1 : Path(at_1, b)
    <3> HIDE DEF Path, on
    <3> QED BY <2>4, Zenon
  <2> QED BY <2>5
<1>3. n \in S
  <2> HIDE DEF S
  <2> QED BY <1>1, <1>2, GoingUp
<1>4. \E at : Path(at, n)
  BY <1>3
<1> DEFINE fix == CHOOSE at : Path(at, n)
<1>5. Path(fix, n)
  <2> HIDE DEF Path
  <2> QED BY <1>4, Zenon
<1>6. Created(s, tables) = fix[n]
  BY Zenon DEF Created
<1> HIDE DEF fix
<1> DEFINE Same == {i \in 0 .. n : fix[i].required = s.required /\ fix[i].columns = s.columns}
<1>7. 0 \in Same
  BY <1>5
<1>8. ASSUME NEW i \in 0 + 1 .. n, i - 1 \in Same PROVE i \in Same
  <2>1. fix[i] = Create(fix[i - 1], tables[i])
    BY <1>5
  <2>2. fix[i].required = fix[i - 1].required /\ fix[i].columns = fix[i - 1].columns
    BY <2>1 DEF Create
  <2> QED BY <1>8, <2>2
<1>9. n \in Same
  <2> HIDE DEF Same
  <2> QED BY <1>7, <1>8, GoingUp
<1> QED
  BY <1>6, <1>9

LEMMA SchemaSteps ==
  /\ SchemaAt[0] = Empty
  /\ \A n \in 1 .. Latest : SchemaAt[n] = Up(SchemaAt[n - 1], Chain[n])
<1> DEFINE n == Latest
           Path(at, b) == at = [i \in 0 .. b |-> IF i = 0 THEN Empty ELSE Up(at[i - 1], Chain[i])]
           S == {b \in 0 .. n : \E at : Path(at, b)}
<1>0. Latest \in Nat
  BY ChainLinks
<1>1. 0 \in S
  <2>1. Path([i \in 0 .. 0 |-> Empty], 0)
    BY <1>0
  <2>2. \E at : Path(at, 0)
    <3> HIDE DEF Path
    <3> QED BY <2>1, Zenon
  <2> QED BY <1>0, <2>2
<1>2. ASSUME NEW b \in 0 + 1 .. n, b - 1 \in S PROVE b \in S
  <2>1. PICK at : Path(at, b - 1)
    BY <1>2
  <2> DEFINE on == [i \in 0 .. b |-> IF i = b THEN Up(at[b - 1], Chain[b]) ELSE at[i]]
  <2>2. \A i \in 0 .. b - 1 : on[i] = at[i]
    OBVIOUS
  <2>3. \A i \in 0 .. b : on[i] = IF i = 0 THEN Empty ELSE Up(on[i - 1], Chain[i])
    <3>1. ASSUME NEW i \in 0 .. b PROVE on[i] = IF i = 0 THEN Empty ELSE Up(on[i - 1], Chain[i])
      <4>1. CASE i = b
        <5>1. i - 1 \in 0 .. b - 1 /\ i # 0
          BY <4>1
        <5> QED BY <4>1, <5>1, <2>2
      <4>2. CASE i # b /\ i # 0
        <5>1. i \in 0 .. b - 1 /\ i - 1 \in 0 .. b - 1
          BY <4>2
        <5>2. at[i] = Up(at[i - 1], Chain[i])
          BY <2>1, <4>2, <5>1
        <5> QED BY <4>2, <5>1, <5>2, <2>2
      <4>3. CASE i # b /\ i = 0
        BY <2>1, <2>2, <4>3
      <4> QED BY <4>1, <4>2, <4>3
    <3> QED BY <3>1
  <2>4. Path(on, b)
    <3>1. on = [i \in 0 .. b |-> on[i]]
      OBVIOUS
    <3> HIDE DEF on
    <3> QED BY <2>3, <3>1
  <2>5. \E at_1 : Path(at_1, b)
    <3> HIDE DEF Path, on
    <3> QED BY <2>4, Zenon
  <2> QED BY <2>5
<1>3. n \in S
  <2> HIDE DEF S
  <2> QED BY <1>0, <1>1, <1>2, GoingUp
<1>4. \E at : Path(at, n)
  BY <1>3
<1> DEFINE fix == CHOOSE at : Path(at, n)
<1>5. Path(fix, n)
  <2> HIDE DEF Path
  <2> QED BY <1>4, Zenon
<1>6. SchemaAt = fix
  BY Zenon DEF SchemaAt
<1> HIDE DEF fix
<1>7. SchemaAt = [i \in 0 .. Latest |-> IF i = 0 THEN Empty ELSE Up(SchemaAt[i - 1], Chain[i])]
  BY <1>5, <1>6
<1> QED
  BY <1>0, <1>7

LEMMA UpPasses ==
  ASSUME NEW s, NEW n \in 1 .. 42
  PROVE  /\ Up(s, Chain[n]).required = (s.required \ Chain[n].frees) \cup Chain[n].requires
         /\ Up(s, Chain[n]).columns = s.columns \cup Chain[n].adds
<1>1. /\ Created(s, Chain[n].creates).required = s.required
      /\ Created(s, Chain[n].creates).columns = s.columns
  BY ChainCreates, CreatedPasses
<1> QED
  BY <1>1 DEF Up, Altered

(* No release before the sixth revision gives a user a workspace, and none *)
(* of the revisions from there on takes a user without.                    *)
LEMMA UsersNeedTenants ==
  /\ \A n \in 0 .. 5 : UsersTenant \notin Known[n]
  /\ \A n \in 6 .. Latest : UsersTenant \in Required[n]
<1>0. Latest = 42 /\ 0 .. 42 \subseteq Nat
  BY ChainLinks
<1> DEFINE Before == {n \in 0 .. 5 : UsersTenant \notin SchemaAt[n].required \cup SchemaAt[n].columns}
           Later == {n \in 6 .. 42 : UsersTenant \in SchemaAt[n].required}
<1>1. 0 \in Before
  BY SchemaSteps DEF Empty
<1>2. ASSUME NEW n \in 0 + 1 .. 5, n - 1 \in Before PROVE n \in Before
  <2>1. SchemaAt[n] = Up(SchemaAt[n - 1], Chain[n]) /\ n \in 1 .. 42 /\ n \in 1 .. 5
    BY <1>0, SchemaSteps
  <2>2. UsersTenant \notin Chain[n].adds /\ UsersTenant \notin Chain[n].requires
    BY <2>1, SixthRequires
  <2> QED BY <1>2, <2>1, <2>2, UpPasses
<1>3. \A n \in 0 .. 5 : n \in Before
  <2> HIDE DEF Before
  <2> QED BY <1>1, <1>2, GoingUp
<1>4. 6 \in Later
  <2>1. SchemaAt[6] = Up(SchemaAt[5], Chain[6]) /\ 6 \in 1 .. 42
    BY <1>0, SchemaSteps
  <2> QED BY <2>1, SixthRequires, UpPasses
<1>5. ASSUME NEW n \in 6 + 1 .. 42, n - 1 \in Later PROVE n \in Later
  <2>1. SchemaAt[n] = Up(SchemaAt[n - 1], Chain[n]) /\ n \in 1 .. 42
    BY <1>0, SchemaSteps
  <2>2. UsersTenant \notin Chain[n].frees
    BY <2>1, NoneFrees
  <2> QED BY <1>5, <2>1, <2>2, UpPasses
<1>6. \A n \in 6 .. 42 : n \in Later
  <2> HIDE DEF Later
  <2> QED BY <1>4, <1>5, GoingUp
<1> QED
  BY <1>0, <1>3, <1>6 DEF Required, Known


(***************************************************************************)
(* Migrations: whole upgrades and downgrades.                              *)
(***************************************************************************)

LEMMA SurviveOn ==
  ASSUME NEW r \in Rows, NEW s \in Rows, NEW t \in Rows, NEW m \in Nat, NEW n \in Nat,
         n <= m, Survive(r, s, m), Survive(s, t, n)
  PROVE  Survive(r, t, n)
<1>1. SUFFICES ASSUME NEW q \in r.quotes
               PROVE  \E z \in t.quotes : /\ q.kind = "general" => z.kind = "general"
                                          /\ z.lines < q.lines => n < 20
  BY DEF Survive
<1>2. PICK u \in s.quotes : (q.kind = "general" => u.kind = "general") /\ (u.lines < q.lines => m < 20)
  BY DEF Survive
<1>3. PICK z \in t.quotes : (u.kind = "general" => z.kind = "general") /\ (z.lines < u.lines => n < 20)
  BY DEF Survive
<1>4. q.lines \in Nat /\ u.lines \in Nat /\ z.lines \in Nat
  BY DEF Rows, Quote
<1>5. z.lines < q.lines => n < 20
  BY <1>2, <1>3, <1>4
<1> QED
  BY <1>2, <1>3, <1>5

LEMMA UpgradeKeeps ==
  ASSUME NEW r, NEW from \in Nat, NEW to \in Nat, from <= to, RowsAt(r, from)
  PROVE  /\ RowsAt(Upgraded(r, from, to), to)
         /\ Survive(r, Upgraded(r, from, to), 20) /\ Spares(r, Upgraded(r, from, to))
         /\ from < 32 /\ to >= 32 => \A w \in r.tenants : Upgraded(r, from, to).sub[w] = "free"
<1>0. PICK at : PassesUp(at, r, from, to) /\ Upgraded(r, from, to) = at[to]
  BY UpgradePasses
<1>1. /\ at[from] = r
      /\ \A n \in from + 1 .. to : at[n] = Filled(at[n - 1], n)
      /\ Upgraded(r, from, to) = at[to]
  BY <1>0 DEF PassesUp
<1> DEFINE Told(n) == from < 32 /\ n >= 32 => \A w \in r.tenants : at[n].sub[w] = "free"
           S == {n \in from .. to : RowsAt(at[n], n) /\ Survive(r, at[n], 20)
                                    /\ Spares(r, at[n]) /\ Told(n)}
<1>2. r \in Rows /\ r.tenants \subseteq Workspaces
  BY DEF RowsAt, Rows
<1>3. from \in S
  <2>1. Survive(r, r, 20)
    BY <1>2, SameQuotes
  <2> QED BY <1>1, <2>1 DEF Spares
<1>4. ASSUME NEW n \in from + 1 .. to, n - 1 \in S PROVE n \in S
  <2>1. /\ RowsAt(at[n - 1], n - 1) /\ Survive(r, at[n - 1], 20) /\ Spares(r, at[n - 1])
        /\ Told(n - 1)
    BY <1>4
  <2>2. at[n] = Filled(at[n - 1], n) /\ n \in Nat /\ n > 0
    BY <1>1
  <2>3. /\ RowsAt(at[n], n) /\ Survive(at[n - 1], at[n], 20) /\ Spares(at[n - 1], at[n])
        /\ n = 32 => \A w \in at[n - 1].tenants : at[n].sub[w] = "free"
    BY <2>1, <2>2, FilledKeeps, FilledSpares
  <2>4. Survive(r, at[n], 20)
    <3>1. at[n - 1] \in Rows /\ at[n] \in Rows
      BY <2>1, <2>3 DEF RowsAt
    <3>2. Survive(r, at[n], 20)
      BY <1>2, <2>1, <2>3, <3>1, SurviveOn
    <3> QED BY <3>2
  <2>5. Spares(r, at[n])
    BY <2>1, <2>3 DEF Spares
  <2>6. Told(n)
    <3>1. CASE n = 32
      BY <2>1, <2>3, <3>1 DEF Spares
    <3>2. CASE n # 32
      <4>1. n >= 32 => n - 1 >= 32
        BY <3>2
      <4> QED BY <1>2, <2>1, <2>3, <4>1 DEF Spares
    <3> QED BY <3>1, <3>2
  <2> QED BY <2>3, <2>4, <2>5, <2>6
<1>5. to \in S
  <2> HIDE DEF S
  <2> QED BY <1>3, <1>4, GoingUp
<1> QED
  BY <1>1, <1>5

\* Only two revisions take something from a quote when they are undone.
LEMMA UndoneQuotes ==
  ASSUME NEW r \in Rows, NEW m \in Nat, m \notin {24, 20}
  PROVE  Undone(r, m).quotes = r.quotes
  BY SMTT(30) DEF Undone, Rows, OnProjects

LEMMA DowngradeKeeps ==
  ASSUME NEW r, NEW from \in Nat, NEW to \in Nat, to <= from, RowsAt(r, from),
         \A m \in to + 1 .. from : MayUndo(r, m)
  PROVE  /\ RowsAt(Downgraded(r, from, to), to)
         /\ Survive(r, Downgraded(r, from, to), to)
<1>0. PICK at : PassesDown(at, r, from, to) /\ Downgraded(r, from, to) = at[to]
  BY DowngradePasses
<1>1. /\ at[from] = r
      /\ \A n \in to .. from - 1 : at[n] = Undone(at[n + 1], n + 1)
      /\ Downgraded(r, from, to) = at[to]
  BY <1>0 DEF PassesDown
<1> DEFINE Stone(n) == to < 24 /\ n >= 24 => \A q \in at[n].quotes : q.kind = "stone" /\ ~ q.trade
           S == {n \in to .. from : RowsAt(at[n], n) /\ Survive(r, at[n], n) /\ Stone(n)}
<1>2. r \in Rows
  BY DEF RowsAt
<1>3. from \in S
  <2>1. Survive(r, r, from)
    BY <1>2, SameQuotes
  <2>2. to < 24 /\ from >= 24 => 24 \in to + 1 .. from
    OBVIOUS
  <2> QED BY <1>1, <2>1, <2>2 DEF MayUndo
<1>4. ASSUME NEW n \in to .. from - 1, n + 1 \in S PROVE n \in S
  <2>1. RowsAt(at[n + 1], n + 1) /\ Survive(r, at[n + 1], n + 1) /\ Stone(n + 1)
    BY <1>4
  <2>2. at[n] = Undone(at[n + 1], n + 1) /\ n + 1 \in Nat /\ n + 1 > 0 /\ n \in Nat
    BY <1>1
  <2>3. MayUndo(at[n + 1], n + 1)
    BY <2>1 DEF MayUndo
  <2>4. RowsAt(at[n], n)
    <3>1. (n + 1) - 1 = n
      BY <2>2
    <3> QED BY <2>1, <2>2, <3>1, UndoneKeeps
  <2>5. at[n + 1] \in Rows /\ at[n] \in Rows
    BY <2>1, <2>4 DEF RowsAt
  <2>6. Survive(r, at[n], n)
    <3>1. Survive(at[n + 1], at[n], (n + 1) - 1) /\ (n + 1) - 1 = n
      BY <2>1, <2>2, <2>3, UndoneSpares
    <3> QED BY <1>2, <2>1, <2>2, <2>5, <3>1, SurviveOn
  <2>7. Stone(n)
    <3>1. ASSUME n >= 24 PROVE at[n].quotes = at[n + 1].quotes
      <4>1. n + 1 \notin {24, 20}
        BY <2>2, <3>1
      <4> HIDE DEF S, Stone
      <4> QED BY <2>2, <2>5, <4>1, UndoneQuotes
    <3>2. to < 24 /\ n + 1 >= 24 => \A q \in at[n + 1].quotes : q.kind = "stone" /\ ~ q.trade
      BY <2>1
    <3>3. n >= 24 => n + 1 >= 24
      BY <2>2
    <3> HIDE DEF S
    <3> QED BY <3>1, <3>2, <3>3
  <2> QED BY <2>4, <2>6, <2>7
<1>5. to \in S
  <2> HIDE DEF S
  <2> QED BY <1>3, <1>4, GoingDown
<1> QED
  BY <1>1, <1>5


(***************************************************************************)
(* Migrations: requests.                                                   *)
(***************************************************************************)

\* What a request, which cannot change the revision, may do.
Serves(r, t, n) == RowsAt(t, n) /\ Survive(r, t, 20) /\ Spares(r, t)

LEMMA OnlyQuotesChange ==
  ASSUME NEW r, NEW n \in Nat, RowsAt(r, n), r.quotes = {}, NEW q \in Quote, QuoteAt(q, n)
  PROVE  Serves(r, [r EXCEPT !.quotes = {q}], n)
<1> DEFINE t == [r EXCEPT !.quotes = {q}]
<1>1. /\ t \in Rows /\ t.quotes = {q} /\ t.projects = r.projects /\ t.orphans = r.orphans
      /\ t.currency = r.currency /\ t.tenants = r.tenants /\ t.sub = r.sub
  BY DEF RowsAt, Rows
<1> HIDE DEF t
<1>2. \A p \in r.projects : ProjectAt(p, t, n)
  <2>1. \A p \in r.projects : ProjectAt(p, r, n) /\ p \in Project
    BY DEF RowsAt, Rows
  <2>2. \A p \in r.projects : p.quoted = FALSE
    BY <2>1 DEF ProjectAt, Project
  <2> QED BY <2>1, <2>2 DEF ProjectAt
<1>3. RowsAt(t, n)
  BY <1>1, <1>2 DEF RowsAt
<1>4. Survive(r, t, 20) /\ Spares(r, t)
  BY <1>1 DEF Survive, Spares
<1>5. Serves(r, t, n)
  BY <1>3, <1>4 DEF Serves
<1> QED
  BY <1>5 DEF t

LEMMA OnlyProjectsChange ==
  ASSUME NEW r, NEW n \in Nat, RowsAt(r, n), NEW P \in SUBSET Project,
         \A p1, p2 \in P : p1 = p2, \A p \in P : ProjectAt(p, r, n)
  PROVE  Serves(r, [r EXCEPT !.projects = P], n)
<1> DEFINE t == [r EXCEPT !.projects = P]
<1>1. /\ t \in Rows /\ t.quotes = r.quotes /\ t.projects = P /\ t.orphans = r.orphans
      /\ t.currency = r.currency /\ t.tenants = r.tenants /\ t.sub = r.sub /\ r \in Rows
  BY DEF RowsAt, Rows
<1> HIDE DEF t
<1>2. \A p \in P : ProjectAt(p, t, n)
  BY <1>1 DEF ProjectAt
<1>3. RowsAt(t, n)
  BY <1>1, <1>2 DEF RowsAt
<1>4. Survive(r, t, 20) /\ Spares(r, t)
  BY <1>1, SameQuotes DEF Spares
<1>5. Serves(r, t, n)
  BY <1>3, <1>4 DEF Serves
<1> QED
  BY <1>5 DEF t

LEMMA OthersChange ==
  ASSUME NEW r, NEW n \in Nat, RowsAt(r, n), NEW t \in Rows, t.quotes = r.quotes,
         t.projects = r.projects, n >= 6 => ~ t.orphans, n >= 26 <=> t.currency # Null,
         Spares(r, t)
  PROVE  Serves(r, t, n)
<1>1. r \in Rows /\ Survive(r, t, 20)
  BY SameQuotes DEF RowsAt
<1>2. \A p \in r.projects : ProjectAt(p, t, n)
  BY DEF RowsAt, ProjectAt
<1> QED
  BY <1>1, <1>2 DEF RowsAt, Serves

(* What the inductive invariant knows of a container that serves.          *)
Ahead(c) ==
  /\ revision \in 0 .. Latest /\ RowsAt(rows, revision)
  /\ box[c].release \in Nat /\ box[c].release <= revision

LEMMA AddUserServes ==
  ASSUME NEW c, Ahead(c), AddUser(c)
  PROVE  Serves(rows, rows', revision)
<1>1. /\ box[c].release \in 0 .. 5 /\ Accepts(box[c].release, "users")
      /\ rows' = [rows EXCEPT !.orphans = TRUE] /\ rows \in Rows /\ revision \in Nat
  BY ChainLinks DEF AddUser, Ahead, RowsAt
<1>2. revision < 6
  <2>1. SUFFICES ASSUME revision \in 6 .. Latest PROVE FALSE
    BY ChainLinks DEF Ahead
  <2>2. UsersTenant \in Required[revision] /\ UsersTenant \notin Known[box[c].release]
    BY <1>1, <2>1, UsersNeedTenants
  <2>3. UsersTenant[1] = "users"
    BY DEF UsersTenant
  <2> QED BY <1>1, <2>2, <2>3 DEF Accepts
<1>3. /\ rows' \in Rows /\ rows'.quotes = rows.quotes /\ rows'.projects = rows.projects
      /\ rows'.currency = rows.currency /\ rows'.tenants = rows.tenants /\ rows'.sub = rows.sub
  BY <1>1 DEF Rows
<1>4. Spares(rows, rows')
  BY <1>3 DEF Spares
<1>5. RowsAt(rows, revision) /\ (revision >= 26 <=> rows'.currency # Null)
  BY <1>3 DEF Ahead, RowsAt
<1>6. revision >= 6 => ~ rows'.orphans
  BY <1>1, <1>2
<1> QED
  BY <1>1, <1>3, <1>4, <1>5, <1>6, OthersChange

LEMMA SubscribeServes ==
  ASSUME NEW c, NEW w \in Workspaces, Ahead(c), Subscribe(c, w)
  PROVE  Serves(rows, rows', revision)
<1>1. /\ rows' = [rows EXCEPT !.sub[w] = "metered"] /\ rows \in Rows /\ revision \in Nat
      /\ rows.sub[w] = Null
  BY ChainLinks DEF Subscribe, Ahead, RowsAt
<1>2. /\ rows' \in Rows /\ rows'.quotes = rows.quotes /\ rows'.projects = rows.projects
      /\ rows'.currency = rows.currency /\ rows'.tenants = rows.tenants
      /\ rows'.orphans = rows.orphans /\ rows'.sub = [rows.sub EXCEPT ![w] = "metered"]
  BY <1>1 DEF Rows
<1>3. rows.sub \in [Workspaces -> {Null, "metered", "free"}]
  BY <1>1 DEF Rows
<1>4. Spares(rows, rows')
  BY <1>1, <1>2, <1>3 DEF Spares, Null
<1> QED
  BY <1>1, <1>2, <1>4, OthersChange DEF Ahead, RowsAt

LEMMA ChooseServes ==
  ASSUME NEW c, NEW m \in Currencies, Ahead(c), ChooseCurrency(c, m)
  PROVE  Serves(rows, rows', revision)
<1>1. /\ rows' = [rows EXCEPT !.currency = m] /\ rows \in Rows /\ revision \in Nat
      /\ revision >= 26
  BY ChainLinks DEF ChooseCurrency, Ahead, RowsAt
<1>2. /\ rows' \in Rows /\ rows'.quotes = rows.quotes /\ rows'.projects = rows.projects
      /\ rows'.currency = m /\ rows'.tenants = rows.tenants
      /\ rows'.orphans = rows.orphans /\ rows'.sub = rows.sub
  BY <1>1 DEF Rows
<1>3. m # Null
  BY DEF Currencies, Null
<1>4. Spares(rows, rows')
  BY <1>2 DEF Spares
<1> QED
  BY <1>1, <1>2, <1>3, <1>4, OthersChange DEF Ahead, RowsAt

LEMMA AddQuoteServes ==
  ASSUME NEW c, NEW kind \in {"stone", "general"}, NEW m \in Currencies, NEW parts \in 0 .. 2,
         Ahead(c), AddQuote(c, kind, m, parts)
  PROVE  Serves(rows, rows', revision)
<1> DEFINE v == box[c].release
           lines == IF v < 20 THEN 0 ELSE parts
           extras == IF v < 20 THEN parts - 1 ELSE 0
           q == [kind |-> IF revision < 24 THEN Null ELSE kind,
                 currency |-> IF revision < 24 THEN Null ELSE m,
                 lines |-> lines, extras |-> extras, parts |-> parts,
                 trade |-> kind = "general" /\ lines > 0, dropped |-> FALSE, late |-> Late(v)]
<1>1. /\ rows' = [rows EXCEPT !.quotes = {q}] /\ revision \in Nat /\ rows.quotes = {}
      /\ v \in Nat /\ v <= revision /\ RowsAt(rows, revision)
      /\ v < 20 => parts > 0
  BY ChainLinks DEF AddQuote, Ahead
<1>2. lines \in 0 .. 2 /\ extras \in 0 .. 1 /\ Late(v) \in BOOLEAN
  BY <1>1 DEF Late
<1>3. revision >= 20 /\ v < 20 => Late(v)
  BY <1>1 DEF Late, Fills
<1>4. /\ q.kind = (IF revision < 24 THEN Null ELSE kind)
      /\ q.currency = (IF revision < 24 THEN Null ELSE m)
      /\ q.lines = lines /\ q.extras = extras /\ q.parts = parts
      /\ ~ q.dropped /\ q.late = Late(v)
      /\ q \in Quote
  BY <1>2 DEF Quote
<1> HIDE DEF q
<1>5. QuoteAt(q, revision)
  BY <1>1, <1>3, <1>4 DEF QuoteAt, Null, Currencies
<1> QED
  BY <1>1, <1>4, <1>5, OnlyQuotesChange

LEMMA AddProjectServes ==
  ASSUME NEW c, NEW quoted \in BOOLEAN, Ahead(c), AddProject(c, quoted)
  PROVE  Serves(rows, rows', revision)
<1> DEFINE v == box[c].release
           p == [quoted |-> quoted, status |-> "enquiry",
                 flow |-> IF v < 33 THEN Null ELSE "trade", stage |-> Null,
                 currency |-> IF revision < 41 THEN Null
                              ELSE IF v < 41 THEN "GBP"
                              ELSE IF quoted THEN QuoteCurrency(rows) ELSE rows.currency,
                 late |-> Late(v)]
<1>1. /\ rows' = [rows EXCEPT !.projects = {p}] /\ revision \in Nat
      /\ quoted => rows.quotes # {}
      /\ v \in Nat /\ v <= revision /\ RowsAt(rows, revision) /\ rows \in Rows
  BY ChainLinks DEF AddProject, Ahead, RowsAt
<1>2. /\ revision >= 33 /\ v < 33 => Late(v)
      /\ revision >= 41 /\ v < 41 => Late(v)
      /\ Late(v) \in BOOLEAN
  BY <1>1 DEF Late, Fills
<1>3. \A q \in rows.quotes : QuoteCurrency(rows) = q.currency
  BY <1>1, TheQuote DEF RowsAt
<1>4. quoted /\ revision >= 41 => QuoteCurrency(rows) \in Currencies
  <2>1. SUFFICES ASSUME quoted, revision >= 41 PROVE QuoteCurrency(rows) \in Currencies
    OBVIOUS
  <2>2. PICK q \in rows.quotes : q \in Quote /\ QuoteAt(q, revision)
    BY <1>1, <2>1 DEF RowsAt, Rows
  <2> QED BY <1>1, <1>3, <2>1, <2>2 DEF Quote, QuoteAt
<1>5. revision >= 41 => rows.currency \in Currencies
  BY <1>1 DEF RowsAt, Rows
<1>6. /\ p.quoted = quoted /\ p.late = Late(v) /\ p.flow = IF v < 33 THEN Null ELSE "trade"
      /\ revision >= 41 => /\ p.currency \in Currencies
                           /\ quoted /\ v >= 41 => p.currency = QuoteCurrency(rows)
      /\ p \in Project
  <2>1. "GBP" \in Currencies
    BY DEF Currencies
  <2>2. p.currency \in {Null} \cup Currencies
    BY <1>1, <1>4, <1>5, <2>1
  <2> QED BY <1>1, <1>2, <1>4, <1>5, <2>1, <2>2 DEF Project, Statuses
<1> HIDE DEF p
<1>7. ProjectAt(p, rows, revision)
  BY <1>1, <1>2, <1>3, <1>6 DEF ProjectAt, Null, Currencies
<1>8. {p} \in SUBSET Project
  BY <1>6
<1> QED
  BY <1>1, <1>7, <1>8, OnlyProjectsChange

LEMMA MoveProjectServes ==
  ASSUME NEW c, Ahead(c), MoveProject(c)
  PROVE  Serves(rows, rows', revision)
<1> DEFINE v == box[c].release
           moved(p) == [p EXCEPT !.status = "booked",
                            !.stage = IF v >= 33 /\ p.flow = "legacy" THEN "booked" ELSE @,
                            !.late = @ \/ (p.flow = "legacy" /\ v < 33)]
           P == {moved(p) : p \in rows.projects}
<1>0. rows' = [rows EXCEPT !.projects = P]
  BY DEF MoveProject, OnProjects
<1>1. revision \in Nat /\ v \in Nat /\ v <= revision /\ RowsAt(rows, revision)
  BY ChainLinks DEF Ahead
<1>2. ASSUME NEW p \in rows.projects PROVE moved(p) \in Project /\ ProjectAt(moved(p), rows, revision)
  <2>1. p \in Project /\ ProjectAt(p, rows, revision)
    BY <1>1 DEF RowsAt, Rows
  <2>2. moved(p) \in Project
    BY <2>1 DEF Project, Statuses
  <2>3. /\ moved(p).flow = p.flow /\ moved(p).quoted = p.quoted /\ moved(p).currency = p.currency
        /\ moved(p).status = "booked"
        /\ v >= 33 /\ p.flow = "legacy" => moved(p).stage = "booked"
        /\ p.late \/ (p.flow = "legacy" /\ v < 33) => moved(p).late
    BY <2>1 DEF Project
  <2> HIDE DEF moved
  <2> QED BY <1>1, <2>1, <2>2, <2>3 DEF ProjectAt
<1>3. P \in SUBSET Project /\ (\A p1, p2 \in P : p1 = p2) /\ \A p \in P : ProjectAt(p, rows, revision)
  <2>1. \A p1, p2 \in rows.projects : p1 = p2
    BY <1>1 DEF RowsAt
  <2> HIDE DEF moved
  <2> QED BY <1>2, <2>1
<1> HIDE DEF P
<1> QED
  BY <1>0, <1>1, <1>3, OnlyProjectsChange


(***************************************************************************)
(* Migrations: the gate.                                                   *)
(***************************************************************************)

Box == [phase : {"off", "waiting", "migrating", "serving", "refused"}, release : Nat, seen : Nat]

(* What a migration has read is not ahead of the database, and what serves *)
(* has been caught up with by it.                                          *)
BaseInv ==
  /\ revision \in Nat
  /\ box \in [Containers \cup {Job} -> Box]
  /\ \A c \in Containers \cup {Job} :
       /\ box[c].phase = "migrating" => box[c].seen <= revision
       /\ box[c].phase = "serving" => box[c].release <= revision

LEMMA ReleasesAreNat == Releases \subseteq Nat \ {0}
<1>1. Latest \in Nat
  BY DEF Latest, Chain
<1> QED
  BY <1>1, MigrationsAssumption

LEMMA InitBase == ASSUME BaseInit PROVE BaseInv
  BY DEF BaseInit, BaseInv, Box, Off

LEMMA BaseKept == ASSUME BaseInv, [BaseNext]_baseVars PROVE BaseInv'
<1> USE DEF BaseInv
<1>0. Releases \subseteq Nat \ {0}
  BY ReleasesAreNat
<1>1. CASE UNCHANGED <<revision, box>>
  BY <1>1
<1>2. ASSUME NEW c \in Containers \cup {Job}, NEW v \in Releases, Deploy(c, v) PROVE BaseInv'
  BY <1>0, <1>2 DEF Deploy, Box, Off
<1>3. ASSUME NEW c \in Containers \cup {Job}, Begin(c) PROVE BaseInv'
  <2>1. box' = [box EXCEPT ![c] = [box[c] EXCEPT !.phase = "migrating", !.seen = revision]]
    BY <1>3 DEF Begin, Box
  <2> QED BY <1>3, <2>1 DEF Begin, Box
<1>4. ASSUME NEW c \in Containers \cup {Job}, Finish(c) PROVE BaseInv'
  <2>0. /\ box[c] \in Box /\ box[c].phase = "migrating" /\ box[c].seen <= revision
        /\ box[c].release \in Nat /\ box[c].seen \in Nat
    BY <1>4 DEF Finish, Box
  <2>1. CASE Applies(c)
    <3>1. /\ revision <= revision' /\ revision' \in Nat /\ box[c].release <= revision'
      BY <1>4, <2>0, <2>1 DEF Finish, Applies
    <3>2. PICK b \in Box : /\ box' = [box EXCEPT ![c] = b]
                           /\ \/ b.phase = "serving" /\ b.release = box[c].release
                              \/ b.phase = "off"
      <4>1. box' = [box EXCEPT ![c] = IF c = Job THEN Off ELSE Serving(box[c].release)]
        BY <1>4, <2>1 DEF Finish
      <4>2. Off \in Box /\ Off.phase = "off"
        BY DEF Off, Box
      <4>3. /\ Serving(box[c].release) \in Box /\ Serving(box[c].release).phase = "serving"
            /\ Serving(box[c].release).release = box[c].release
        BY <2>0 DEF Serving, Off, Box
      <4> QED BY <4>1, <4>2, <4>3
    <3> QED BY <3>1, <3>2, <2>0 DEF Box
  <2>2. CASE ~ Applies(c)
    <3>1. box' = [box EXCEPT ![c] = [box[c] EXCEPT !.phase = "refused"]] /\ revision' = revision
      BY <1>4, <2>2 DEF Finish
    <3> QED BY <3>1, <2>0 DEF Box
  <2> QED BY <2>1, <2>2
<1>5. ASSUME NEW c \in Containers \cup {Job}, Crash(c) PROVE BaseInv'
  BY <1>5 DEF Crash, Box, Off
<1>6. ASSUME NEW n \in Releases, Downgrade(n) PROVE BaseInv'
  BY <1>0, <1>6 DEF Downgrade, Box
<1>7. ASSUME NEW c \in Containers, Serve(c) PROVE BaseInv'
  BY <1>1, <1>7 DEF Serve
<1> QED
  BY <1>1, <1>2, <1>3, <1>4, <1>5, <1>6, <1>7
     DEF BaseNext, baseVars, AddUser, MoveProject, Subscribe, ChooseCurrency, AddQuote, AddProject


(***************************************************************************)
(* Migrations: on every step the rows stay whole and what they say         *)
(* survives it.                                                            *)
(***************************************************************************)

RowsInv ==
  /\ BaseInv
  /\ revision \in 0 .. Latest
  /\ lock \in {"free"} \cup Containers
  /\ \A c \in Containers \cup {Job} : box[c].release \in {0} \cup Releases
  /\ RowsAt(rows, revision)

\* What a step may do to what the rows say.
Preserves(r, n, t, m) ==
  /\ RowsAt(t, m) /\ Survive(r, t, m)
  /\ m < n \/ Spares(r, t)
  /\ n < 32 /\ m >= 32 => \A w \in r.tenants : t.sub[w] = "free"

LEMMA InitRows == ASSUME BaseInit PROVE RowsInv
<1>1. rows \in Rows
  BY DEF BaseInit, Rows, Workspaces
<1>2. RowsAt(rows, revision)
  BY <1>1 DEF BaseInit, RowsAt
<1>3. Latest = 42
  BY ChainLinks
<1> QED
  BY InitBase, <1>2, <1>3 DEF BaseInit, RowsInv, Off

LEMMA SameRows ==
  ASSUME NEW r, NEW n \in Nat, RowsAt(r, n)
  PROVE  Preserves(r, n, r, n)
  BY SameQuotes DEF Preserves, Spares, RowsAt

LEMMA ServesHolds ==
  ASSUME NEW r, NEW n \in Nat, NEW t, Serves(r, t, n)
  PROVE  Preserves(r, n, t, n)
<1>1. Survive(r, t, n)
  BY DEF Serves, Survive
<1> QED
  BY <1>1 DEF Serves, Preserves

LEMMA FinishHolds ==
  ASSUME RowsInv, NEW c \in Containers \cup {Job}, Finish(c)
  PROVE  Preserves(rows, revision, rows', revision')
<1>1. /\ revision \in Nat /\ RowsAt(rows, revision)
      /\ box[c].release \in Nat
  BY DEF RowsInv, BaseInv, Box
<1>2. CASE Applies(c) /\ box[c].seen < box[c].release
  <2>1. /\ revision' = box[c].release /\ rows' = Upgraded(rows, revision, box[c].release)
        /\ revision < box[c].release
    BY <1>2 DEF Finish, Applies
  <2>2. revision <= box[c].release
    BY <1>1, <2>1
  <2>3. /\ RowsAt(rows', revision') /\ Survive(rows, rows', 20) /\ Spares(rows, rows')
        /\ revision < 32 /\ revision' >= 32 => \A w \in rows.tenants : rows'.sub[w] = "free"
    BY <1>1, <2>1, <2>2, UpgradeKeeps
  <2>4. Survive(rows, rows', revision')
    BY <2>3 DEF Survive
  <2> QED BY <2>3, <2>4 DEF Preserves
<1>3. CASE ~ (Applies(c) /\ box[c].seen < box[c].release)
  <2>1. revision' = revision /\ rows' = rows
    BY <1>3 DEF Finish
  <2> QED BY <1>1, <2>1, SameRows
<1> QED
  BY <1>2, <1>3

LEMMA DowngradeHolds ==
  ASSUME RowsInv, NEW n \in Releases, Downgrade(n)
  PROVE  Preserves(rows, revision, rows', revision')
<1>1. /\ revision \in Nat /\ n \in Nat /\ RowsAt(rows, revision)
  BY ReleasesAreNat DEF RowsInv, BaseInv
<1>2. /\ rows' = Downgraded(rows, revision, n) /\ revision' = n /\ n < revision
      /\ \A m \in n + 1 .. revision : MayUndo(rows, m)
  BY DEF Downgrade
<1>3. RowsAt(rows', revision') /\ Survive(rows, rows', revision')
  BY <1>1, <1>2, DowngradeKeeps
<1>4. ~ (revision < 32 /\ revision' >= 32)
  BY <1>1, <1>2
<1> QED
  BY <1>2, <1>3, <1>4 DEF Preserves

LEMMA RequestHolds ==
  ASSUME RowsInv, NEW c \in Containers, Serve(c), Serves(rows, rows', revision)
  PROVE  Preserves(rows, revision, rows', revision')
<1>1. revision' = revision /\ revision \in Nat
  BY DEF Serve, RowsInv, BaseInv
<1> QED
  BY <1>1, ServesHolds

LEMMA ServedIsAhead ==
  ASSUME RowsInv, NEW c \in Containers, Serve(c)
  PROVE  Ahead(c)
<1>1. /\ revision \in 0 .. Latest /\ RowsAt(rows, revision)
      /\ box[c].release \in Nat /\ box[c].release <= revision
  BY DEF Serve, RowsInv, BaseInv, Box
<1> QED
  BY <1>1 DEF Ahead

LEMMA StepsHold ==
  ASSUME RowsInv, [BaseNext]_baseVars
  PROVE  Preserves(rows, revision, rows', revision')
<1>0. revision \in Nat /\ RowsAt(rows, revision)
  BY DEF RowsInv, BaseInv
<1>1. CASE UNCHANGED <<revision, rows>>
  BY <1>0, <1>1, SameRows
<1>2. ASSUME NEW c \in Containers \cup {Job}, Finish(c)
      PROVE  Preserves(rows, revision, rows', revision')
  BY <1>2, FinishHolds
<1>3. ASSUME NEW n \in Releases, Downgrade(n)
      PROVE  Preserves(rows, revision, rows', revision')
  BY <1>3, DowngradeHolds
<1>4. ASSUME NEW c \in Containers, AddUser(c)
      PROVE  Preserves(rows, revision, rows', revision')
  BY <1>4, AddUserServes, ServedIsAhead, RequestHolds DEF AddUser
<1>5. ASSUME NEW c \in Containers, MoveProject(c)
      PROVE  Preserves(rows, revision, rows', revision')
  BY <1>5, MoveProjectServes, ServedIsAhead, RequestHolds DEF MoveProject
<1>6. ASSUME NEW c \in Containers, NEW w \in Workspaces, Subscribe(c, w)
      PROVE  Preserves(rows, revision, rows', revision')
  BY <1>6, SubscribeServes, ServedIsAhead, RequestHolds DEF Subscribe
<1>7. ASSUME NEW c \in Containers, NEW m \in Currencies, ChooseCurrency(c, m)
      PROVE  Preserves(rows, revision, rows', revision')
  BY <1>7, ChooseServes, ServedIsAhead, RequestHolds DEF ChooseCurrency
<1>8. ASSUME NEW c \in Containers, NEW kind \in {"stone", "general"}, NEW m \in Currencies,
             NEW parts \in 0 .. 2, AddQuote(c, kind, m, parts)
      PROVE  Preserves(rows, revision, rows', revision')
  <2>1. Serve(c)
    BY <1>8 DEF AddQuote
  <2>2. Ahead(c)
    BY <2>1, ServedIsAhead
  <2>3. Serves(rows, rows', revision)
    BY <1>8, <2>2, AddQuoteServes
  <2> QED BY <2>1, <2>3, RequestHolds
<1>9. ASSUME NEW c \in Containers, NEW quoted \in BOOLEAN, AddProject(c, quoted)
      PROVE  Preserves(rows, revision, rows', revision')
  BY <1>9, AddProjectServes, ServedIsAhead, RequestHolds DEF AddProject
<1>10. "GBP" \in Currencies /\ "EUR" \in Currencies
  BY DEF Currencies
<1>11. ASSUME NEW c \in Containers \cup {Job}, (\E v \in Releases : Deploy(c, v)) \/ Begin(c) \/ Crash(c)
       PROVE  Preserves(rows, revision, rows', revision')
  BY <1>1, <1>11 DEF Deploy, Begin, Crash
<1>12. ASSUME NEW c \in Containers, NEW parts \in 0 .. 2,
              AddQuote(c, "stone", "GBP", parts) \/ AddQuote(c, "general", "EUR", parts)
       PROVE  Preserves(rows, revision, rows', revision')
  BY <1>8, <1>10, <1>12
<1> QED
  BY <1>1, <1>2, <1>3, <1>4, <1>5, <1>6, <1>7, <1>9, <1>11, <1>12, SMTT(40) DEF BaseNext, baseVars

LEMMA RowsKept == ASSUME RowsInv, [BaseNext]_baseVars PROVE RowsInv'
<1>1. BaseInv' /\ RowsAt(rows', revision')
  BY BaseKept, StepsHold DEF RowsInv, Preserves
<1>2. revision' \in 0 .. Latest /\ \A c \in Containers \cup {Job} : box'[c].release \in {0} \cup Releases
  <2> USE DEF RowsInv, BaseInv
  <2>0. Releases \subseteq 0 .. Latest
    BY MigrationsAssumption, ChainLinks
  <2>1. CASE UNCHANGED <<revision, box>>
    BY <2>1
  <2>2. ASSUME NEW c \in Containers \cup {Job}, NEW v \in Releases, Deploy(c, v)
        PROVE  revision' = revision /\ \A d \in Containers \cup {Job} : box'[d].release \in {0} \cup Releases
    BY <2>2 DEF Deploy, Box, Off
  <2>3. ASSUME NEW c \in Containers \cup {Job}, Begin(c)
        PROVE  revision' = revision /\ \A d \in Containers \cup {Job} : box'[d].release \in {0} \cup Releases
    BY <2>3 DEF Begin, Box
  <2>4. ASSUME NEW c \in Containers \cup {Job}, Finish(c)
        PROVE  /\ revision' \in {revision} \cup Releases
               /\ \A d \in Containers \cup {Job} : box'[d].release \in {0} \cup Releases
    <3>1. revision' \in {revision} \cup Releases
      <4>1. box[c].release \in {0} \cup Releases /\ box[c].seen \in Nat
        BY DEF Box
      <4> QED BY <2>4, <4>1 DEF Finish
    <3>2. box[c].release \in {0} \cup Releases /\ box[c] \in Box
      OBVIOUS
    <3>3. PICK b : box' = [box EXCEPT ![c] = b] /\ b.release \in {0} \cup Releases
      <4>1. [box[c] EXCEPT !.phase = "refused"].release = box[c].release
        BY <3>2 DEF Box
      <4>2. Off.release = 0 /\ Serving(box[c].release).release = box[c].release
        BY DEF Off, Serving
      <4>3. \/ box' = [box EXCEPT ![c] = [box[c] EXCEPT !.phase = "refused"]]
            \/ box' = [box EXCEPT ![c] = Off]
            \/ box' = [box EXCEPT ![c] = Serving(box[c].release)]
        BY <2>4 DEF Finish
      <4> QED BY <3>2, <4>1, <4>2, <4>3
    <3> QED BY <3>1, <3>3
  <2>5. ASSUME NEW c \in Containers \cup {Job}, Crash(c)
        PROVE  revision' = revision /\ \A d \in Containers \cup {Job} : box'[d].release \in {0} \cup Releases
    BY <2>5 DEF Crash, Box, Off
  <2>6. ASSUME NEW n \in Releases, Downgrade(n)
        PROVE  revision' \in Releases /\ UNCHANGED box
    BY <2>6 DEF Downgrade
  <2>7. ASSUME NEW c \in Containers, Serve(c) PROVE UNCHANGED <<revision, box>>
    BY <2>7 DEF Serve
  <2> QED
    BY <2>0, <2>1, <2>2, <2>3, <2>4, <2>5, <2>6, <2>7
       DEF BaseNext, baseVars, AddUser, MoveProject, Subscribe, ChooseCurrency, AddQuote, AddProject
<1>3. lock' \in {"free"} \cup Containers
  BY DEF RowsInv, BaseNext, baseVars, Deploy, Begin, Finish, Crash, Downgrade, Unlocked, Serve,
         AddUser, MoveProject, Subscribe, ChooseCurrency, AddQuote, AddProject
<1> QED
  BY <1>1, <1>2, <1>3 DEF RowsInv

LEMMA RowsSound == ASSUME RowsInv PROVE BaseTypeOK /\ RowsAreWhole
<1>1. Cardinality(rows.quotes) <= 1 /\ Cardinality(rows.projects) <= 1
  BY RowsAreTyped DEF RowsInv
<1>2. BaseTypeOK
  BY <1>1 DEF BaseTypeOK, RowsInv, BaseInv, Box, RowsAt, Rows
<1>3. revision \in Nat /\ RowsAt(rows, revision)
  BY DEF RowsInv, BaseInv
<1>4. \A q \in rows.quotes : QuoteCurrency(rows) = q.currency
  BY <1>3, TheQuote DEF RowsAt
<1>5. ASSUME NEW q \in rows.quotes, ~ q.late
      PROVE  /\ revision >= 20 => q.lines = q.parts \/ (q.dropped /\ q.extras = 0 /\ q.lines = 1)
             /\ revision >= 24 => Null \notin {q.kind, q.currency}
  <2>1. QuoteAt(q, revision) /\ q.extras \in 0 .. 1 /\ q.dropped \in BOOLEAN
    BY <1>3 DEF RowsAt, Rows, Quote
  <2> QED BY <1>3, <1>5, <2>1 DEF QuoteAt
<1>6. ASSUME NEW p \in rows.projects, ~ p.late
      PROVE  /\ revision >= 33 => p.flow # Null
             /\ p.flow = "legacy" => p.stage = p.status
             /\ revision >= 41 => p.currency # Null
             /\ revision >= 41 /\ p.quoted => p.currency = QuoteCurrency(rows)
  <2>1. ProjectAt(p, rows, revision)
    BY <1>3 DEF RowsAt
  <2> QED BY <1>4, <1>6, <2>1 DEF ProjectAt
<1>7. RowsAreWhole
  BY <1>3, <1>5, <1>6 DEF RowsAreWhole, RowsAt
<1> QED
  BY <1>2, <1>7


(***************************************************************************)
(* The theorems: of each part by itself, and of the office that the runs   *)
(* check, where a behaviour is about one of them.                          *)
(***************************************************************************)

(* Each step of the office is a step of a part or leaves it as it was.     *)
LEMMA OfficeSteps ==
  ASSUME [MCNext]_officeVars
  PROVE  [DeskNext]_deskVars /\ [DiaryNext]_diaryVars /\ [BundleNext]_bundleVars
<1>1. CASE UNCHANGED officeVars
  BY <1>1 DEF officeVars
<1>2. CASE focus = "database" /\ BaseNext /\ Elsewhere
  BY <1>2 DEF Elsewhere
<1>3. CASE focus = "documents" /\ DocumentsNext /\ Elsewhere
  BY <1>3 DEF Elsewhere, DeskNext
<1>4. CASE focus = "logo" /\ LogoNext /\ Elsewhere
  BY <1>4 DEF Elsewhere, DeskNext
<1>5. CASE focus = "portal" /\ PortalNext /\ Elsewhere
  BY <1>5 DEF Elsewhere, DeskNext
<1>6. CASE focus = "visits" /\ VisitsNext /\ Elsewhere
  BY <1>6 DEF Elsewhere, DiaryNext
<1>7. CASE focus = "enquiries" /\ (JobNext \/ ProjectsMove) /\ Elsewhere
  BY <1>7 DEF Elsewhere, DiaryNext
<1>8. CASE focus = "trial" /\ (JobNext \/ TrialMoves) /\ Elsewhere
  BY <1>8 DEF Elsewhere, DiaryNext
<1>9. CASE focus = "bundle" /\ BundleNext /\ Elsewhere
  BY <1>9 DEF Elsewhere
<1> QED
  BY <1>1, <1>2, <1>3, <1>4, <1>5, <1>6, <1>7, <1>8, <1>9 DEF MCNext

(***************************************************************************)
(* TradeWorkflows                                                          *)
(***************************************************************************)

\* Some stage has the role, and the first that does is the k-th.
FirstIs(spec, role, k) ==
  k \in 1 .. Len(spec) /\ spec[k][2] = role /\ \A j \in 1 .. k - 1 : spec[j][2] # role

\* What the catalogue must say of a trade's stages.
IsLineup(spec) ==
  /\ Len(spec) \in Nat \ {0} /\ spec = [i \in 1 .. Len(spec) |-> spec[i]]
  /\ \A i, j \in 1 .. Len(spec) : spec[i][1] = spec[j][1] => i = j
  /\ \A i \in 1 .. Len(spec) : spec[i][1] \notin {"on_hold", "cancelled"}
  /\ spec[1] = <<"enquiry", "lead">> /\ spec[Len(spec)] = <<"complete", "completed">>
  /\ \E q, a, w \in 1 .. Len(spec) :
       /\ FirstIs(spec, "quoted", q) /\ FirstIs(spec, "approved", a)
       /\ FirstIs(spec, "in_progress", w) /\ q < a /\ a < w

LEMMA TwoMore ==
  ASSUME NEW S, NEW s \in Seq(S), NEW u \in S, NEW v \in S, NEW n, n = Len(s)
  PROVE  /\ n \in Nat
         /\ Len(s \o <<u, v>>) = n + 2 /\ s \o <<u, v>> \in Seq(S)
         /\ \A i \in 1 .. n : (s \o <<u, v>>)[i] = s[i]
         /\ (s \o <<u, v>>)[n + 1] = u /\ (s \o <<u, v>>)[n + 2] = v
<1> DEFINE e == <<u, v>>
<1>1. e \in Seq(S) /\ Len(e) = 2 /\ e[1] = u /\ e[2] = v
  OBVIOUS
<1> HIDE DEF e
<1>0. n \in Nat
  OBVIOUS
<1>a. s \o e \in Seq(S)
  BY <1>1
<1>b. Len(s \o e) = Len(s) + Len(e)
  BY <1>1, ConcatProperties
<1>2. n \in Nat /\ Len(s \o e) = n + 2 /\ s \o e \in Seq(S)
  BY <1>0, <1>1, <1>a, <1>b
<1>3. \A i \in 1 .. n + 2 : (s \o e)[i] = IF i <= n THEN s[i] ELSE e[i - n]
  BY <1>1, <1>2
<1>4. (s \o e)[n + 1] = e[1] /\ (s \o e)[n + 2] = e[2]
  BY <1>2, <1>3
<1>5. \A i \in 1 .. n : (s \o e)[i] = s[i]
  BY <1>2, <1>3
<1> QED
  BY <1>1, <1>2, <1>4, <1>5 DEF e

\* The template t has the n stages of the line-up, two more, and these edges.
Seeded(spec, n, t) ==
  /\ n \in Nat \ {0} /\ Len(t.stages) = n + 2
  /\ \A i \in 1 .. n : t.stages[i] = spec[i]
  /\ t.stages[n + 1] = <<"on_hold", "on_hold">> /\ t.stages[n + 2] = <<"cancelled", "cancelled">>
  /\ t.terminal = {spec[n][1], "cancelled"}
  /\ t.edges = {<<spec[i][1], spec[i + 1][1]>> : i \in 1 .. n - 1}
                 \cup ({spec[i][1] : i \in 1 .. n - 1} \X {"on_hold", "cancelled"})
                 \cup {<<"on_hold", "cancelled">>}

LEMMA SeedsAre ==
  ASSUME NEW spec, IsLineup(spec)
  PROVE  Seeded(spec, Len(spec), SeedTemplate(spec))
<1>0. PICK n, t : n = Len(spec) /\ t = SeedTemplate(spec)
  OBVIOUS
<1> DEFINE hold == <<"on_hold", "on_hold">>
           gone == <<"cancelled", "cancelled">>
           all  == {spec[i] : i \in 1 .. n} \cup {hold, gone}
<1>1. n \in Nat \ {0} /\ spec \in Seq(all)
  <2>1. n \in Nat \ {0} /\ spec = [i \in 1 .. n |-> spec[i]]
    BY <1>0 DEF IsLineup
  <2>2. \A i \in 1 .. n : spec[i] \in all
    OBVIOUS
  <2> HIDE DEF all
  <2>3. [i \in 1 .. n |-> spec[i]] \in Seq(all)
    BY <2>1, <2>2
  <2> QED BY <2>1, <2>3
<1>2. /\ t.stages = spec \o <<<<"on_hold", "on_hold">>, <<"cancelled", "cancelled">>>>
      /\ t.terminal = {spec[n][1], "cancelled"}
  BY <1>0, <1>1 DEF SeedTemplate
<1>4. /\ Len(t.stages) = n + 2
      /\ \A i \in 1 .. n : t.stages[i] = spec[i]
      /\ t.stages[n + 1] = <<"on_hold", "on_hold">> /\ t.stages[n + 2] = <<"cancelled", "cancelled">>
  <2>1. hold \in all /\ gone \in all
    OBVIOUS
  <2> HIDE DEF all, hold, gone
  <2>2. /\ Len(spec \o <<hold, gone>>) = n + 2
        /\ \A i \in 1 .. n : (spec \o <<hold, gone>>)[i] = spec[i]
        /\ (spec \o <<hold, gone>>)[n + 1] = hold /\ (spec \o <<hold, gone>>)[n + 2] = gone
    BY <1>0, <1>1, <2>1, TwoMore
  <2>3. t.stages = spec \o <<hold, gone>>
    BY <1>2 DEF hold, gone
  <2> QED BY <2>2, <2>3 DEF hold, gone
<1>5. t.edges = {<<spec[i][1], spec[i + 1][1]>> : i \in 1 .. n - 1}
                        \cup ({spec[i][1] : i \in 1 .. n - 1} \X {"on_hold", "cancelled"})
                        \cup {<<"on_hold", "cancelled">>}
  <2> DEFINE key    == [i \in 1 .. n |-> spec[i][1]]
             active == {key[i] : i \in 1 .. n - 1}
  <2>1. t.edges = {<<key[i], key[i + 1]>> : i \in 1 .. n - 1}
                    \cup (active \X {"on_hold", "cancelled"}) \cup {<<"on_hold", "cancelled">>}
    <3>1. n = Len(spec)
      BY <1>0
    <3>2. t = SeedTemplate(spec)
      BY <1>0
    <3> QED BY <3>1, <3>2, SMT DEF SeedTemplate
  <2>2. \A i \in 1 .. n - 1 : key[i] = spec[i][1] /\ key[i + 1] = spec[i + 1][1]
    BY <1>1
  <2> HIDE DEF key
  <2>3. active = {spec[i][1] : i \in 1 .. n - 1}
    <3>1. \A i \in 1 .. n - 1 : key[i] = spec[i][1]
      BY <2>2
    <3> QED BY <3>1, Zenon
  <2> HIDE DEF active
  <2>4. {<<key[i], key[i + 1]>> : i \in 1 .. n - 1} = {<<spec[i][1], spec[i + 1][1]>> : i \in 1 .. n - 1}
    BY <2>2
  <2> QED BY <2>1, <2>3, <2>4
<1> QED
  BY <1>0, <1>1, <1>2, <1>4, <1>5 DEF Seeded

LEMMA FirstIsIt ==
  ASSUME NEW spec, IsLineup(spec), NEW t, t = SeedTemplate(spec), NEW role, NEW k, FirstIs(spec, role, k)
  PROVE  First(t, role) = k /\ role \in Roles(t)
<1> DEFINE n == Len(spec)
<1>1. /\ n \in Nat /\ Len(t.stages) = n + 2 /\ \A i \in 1 .. n : t.stages[i] = spec[i]
  BY SeedsAre DEF Seeded
<1>2. k \in 1 .. n + 2 /\ t.stages[k][2] = role /\ \A j \in 1 .. k - 1 : t.stages[j][2] # role
  BY <1>1 DEF FirstIs
<1> HIDE DEF n
<1> DEFINE Is(i) == i \in 1 .. n + 2 /\ t.stages[i][2] = role /\ \A j \in 1 .. i - 1 : t.stages[j][2] # role
<1>3. First(t, role) = CHOOSE i \in 1 .. n + 2 : t.stages[i][2] = role /\ \A j \in 1 .. i - 1 : t.stages[j][2] # role
  BY <1>1 DEF First
<1>4. \A i : Is(i) <=> i = k
  <2>1. ASSUME NEW i, Is(i) PROVE i = k
    <3>1. CASE i < k
      BY <1>1, <1>2, <2>1, <3>1
    <3>2. CASE k < i
      BY <1>1, <1>2, <2>1, <3>2
    <3> QED BY <1>1, <1>2, <2>1, <3>1, <3>2
  <2> QED BY <1>2, <2>1
<1>5. role \in Roles(t)
  BY <1>1, <1>2 DEF Roles
<1> QED
  BY <1>3, <1>4, <1>5

(* _seed_template() in 0f93d11b04a4 makes a flow of every list of distinct *)
(* stages that begins with the enquiry, ends with completion and is quoted,*)
(* approved and worked on in this order: one stage per key, no way out of  *)
(* the end, both side stages within reach of every other stage.            *)
THEOREM SeededIsAFlow ==
  ASSUME NEW spec, IsLineup(spec)
  PROVE  IsFlow(SeedTemplate(spec))
<1>0. PICK t, n : t = SeedTemplate(spec) /\ n = Len(spec)
  OBVIOUS
<1>1. /\ n \in Nat \ {0} /\ Len(t.stages) = n + 2
      /\ \A i \in 1 .. n : t.stages[i] = spec[i]
      /\ \A i \in 1 .. n : t.stages[i][1] \notin {"on_hold", "cancelled"}
      /\ t.stages[n + 1][1] = "on_hold" /\ t.stages[n + 2][1] = "cancelled"
      /\ t.terminal = {spec[n][1], "cancelled"}
      /\ t.edges = {<<spec[i][1], spec[i + 1][1]>> : i \in 1 .. n - 1}
                        \cup ({spec[i][1] : i \in 1 .. n - 1} \X {"on_hold", "cancelled"})
                        \cup {<<"on_hold", "cancelled">>}
  <2>1. n = Len(spec) /\ t = SeedTemplate(spec)
    BY <1>0
  <2>2. /\ n \in Nat \ {0} /\ Len(t.stages) = n + 2
        /\ \A i \in 1 .. n : t.stages[i] = spec[i]
        /\ t.stages[n + 1] = <<"on_hold", "on_hold">> /\ t.stages[n + 2] = <<"cancelled", "cancelled">>
        /\ t.terminal = {spec[n][1], "cancelled"}
        /\ t.edges = {<<spec[i][1], spec[i + 1][1]>> : i \in 1 .. n - 1}
                        \cup ({spec[i][1] : i \in 1 .. n - 1} \X {"on_hold", "cancelled"})
                        \cup {<<"on_hold", "cancelled">>}
    BY <2>1, SeedsAre DEF Seeded
  <2>3. \A i \in 1 .. n : spec[i][1] \notin {"on_hold", "cancelled"}
    BY <2>1 DEF IsLineup
  <2> QED BY <2>2, <2>3
<1>2. \A i \in 1 .. n + 2 : i \in 1 .. n \/ i = n + 1 \/ i = n + 2
  BY <1>1
<1>3. \A i, j \in 1 .. n : t.stages[i][1] = t.stages[j][1] => i = j
  <2>1. \A i, j \in 1 .. n : spec[i][1] = spec[j][1] => i = j
    BY <1>0 DEF IsLineup
  <2>2. \A i \in 1 .. n : t.stages[i] = spec[i]
    BY <1>1
  <2> QED BY <2>1, <2>2
<1>4. \A i, j \in 1 .. n + 2 : t.stages[i][1] = t.stages[j][1] => i = j
  <2>1. /\ \A i \in 1 .. n : t.stages[i][1] # "on_hold" /\ t.stages[i][1] # "cancelled"
        /\ t.stages[n + 1][1] = "on_hold" /\ t.stages[n + 2][1] = "cancelled"
    BY <1>1
  <2> QED BY <1>2, <1>3, <2>1
<1>5. ASSUME NEW i \in 1 .. n + 2, NEW j \in 1 .. n + 2
      PROVE  <<t.stages[i][1], t.stages[j][1]>> \in t.edges <=>
               \/ i < n /\ j \in {i + 1, n + 1, n + 2}
               \/ i = n + 1 /\ j = n + 2
  <2> DEFINE a == t.stages[i][1]
             b == t.stages[j][1]
  <2>1. <<a, b>> \in t.edges <=>
          \/ \E k \in 1 .. n - 1 : a = spec[k][1] /\ b = spec[k + 1][1]
          \/ (\E k \in 1 .. n - 1 : a = spec[k][1]) /\ b \in {"on_hold", "cancelled"}
          \/ a = "on_hold" /\ b = "cancelled"
    BY <1>1
  <2>2. \A k \in 1 .. n - 1 : k \in 1 .. n /\ k + 1 \in 1 .. n /\ k \in 1 .. n + 2 /\ k + 1 \in 1 .. n + 2
    BY <1>1
  <2>3. \A k \in 1 .. n - 1 : (a = spec[k][1] <=> i = k) /\ (b = spec[k + 1][1] <=> j = k + 1)
    BY <1>1, <1>4, <2>2
  <2>4. /\ b = "on_hold" <=> j = n + 1
        /\ b = "cancelled" <=> j = n + 2
        /\ a = "on_hold" <=> i = n + 1
    BY <1>1, <1>2
  <2> HIDE DEF a, b
  <2>5. (\E k \in 1 .. n - 1 : a = spec[k][1]) <=> i < n
    BY <1>1, <2>3
  <2>6. (\E k \in 1 .. n - 1 : a = spec[k][1] /\ b = spec[k + 1][1]) <=> i < n /\ j = i + 1
    <3>1. ASSUME NEW k \in 1 .. n - 1, a = spec[k][1], b = spec[k + 1][1] PROVE i < n /\ j = i + 1
      BY <1>1, <2>3, <3>1
    <3>2. ASSUME i < n, j = i + 1 PROVE \E k \in 1 .. n - 1 : a = spec[k][1] /\ b = spec[k + 1][1]
      <4>1. i \in 1 .. n - 1
        BY <1>1, <3>2
      <4> QED BY <2>3, <3>2, <4>1
    <3> QED BY <3>1, <3>2
  <2> QED BY <2>1, <2>4, <2>5, <2>6 DEF a, b
<1>6. \A e \in t.edges : e[1] \in Keys(t) \ t.terminal /\ e[2] \in Keys(t)
  <2>1. Keys(t) = {t.stages[i][1] : i \in 1 .. n + 2}
    BY <1>1 DEF Keys
  <2>2. {"on_hold", "cancelled"} \subseteq Keys(t)
    BY <1>1, <2>1
  <2>3. \A k \in 1 .. n : spec[k][1] \in Keys(t)
    BY <1>1, <2>1
  <2>4. \A k \in 1 .. n - 1 : spec[k][1] \notin t.terminal
    <3>1. \A k \in 1 .. n - 1 : k \in 1 .. n /\ n \in 1 .. n /\ k # n
      BY <1>1
    <3>2. \A k \in 1 .. n : spec[k][1] \notin {"on_hold", "cancelled"}
      BY <1>0 DEF IsLineup
    <3>3. \A i, j \in 1 .. n : spec[i][1] = spec[j][1] => i = j
      BY <1>0 DEF IsLineup
    <3>4. t.terminal = {spec[n][1], "cancelled"}
      BY <1>1
    <3> QED BY <3>1, <3>2, <3>3, <3>4
  <2>5. "on_hold" \notin t.terminal
    BY <1>1
  <2>6. \A k \in 1 .. n - 1 : k \in 1 .. n /\ k + 1 \in 1 .. n
    BY <1>1
  <2> QED BY <1>1, <2>2, <2>3, <2>4, <2>5, <2>6
<1>7. t.stages[1] = <<"enquiry", "lead">> /\ t.stages[n] = <<"complete", "completed">>
  <2>1. 1 \in 1 .. n /\ n \in 1 .. n /\ \A i \in 1 .. n : t.stages[i] = spec[i]
    BY <1>1
  <2>2. spec[1] = <<"enquiry", "lead">> /\ spec[n] = <<"complete", "completed">>
    BY <1>0 DEF IsLineup
  <2> QED BY <2>1, <2>2
<1>8. /\ First(t, "quoted") < First(t, "approved") /\ First(t, "approved") < First(t, "in_progress")
      /\ "in_progress" \in Roles(t)
  <2>1. PICK q, a, w \in 1 .. Len(spec) :
          /\ FirstIs(spec, "quoted", q) /\ FirstIs(spec, "approved", a)
          /\ FirstIs(spec, "in_progress", w) /\ q < a /\ a < w
    BY DEF IsLineup
  <2>2. First(t, "quoted") = q /\ First(t, "approved") = a
    BY <1>0, <2>1, FirstIsIt
  <2>3. First(t, "in_progress") = w /\ "in_progress" \in Roles(t)
    BY <1>0, <2>1, FirstIsIt
  <2> QED BY <2>1, <2>2, <2>3
<1> QED
  <2>1. Len(t.stages) - 2 = n
    BY <1>1
  <2> QED BY <1>0, <1>1, <1>4, <1>5, <1>6, <1>7, <1>8, <2>1 DEF IsFlow

(* The stages of older projects are such a list.                           *)
LEMMA LegacyLineup == IsLineup(LegacySpec)
<1> DEFINE s == LegacySpec
<1>1. /\ s[1] = <<"enquiry", "lead">> /\ s[2] = <<"quoted", "quoted">> /\ s[3] = <<"booked", "approved">>
      /\ s[4] = <<"templated", "in_progress">> /\ s[5] = <<"fabricated", "in_progress">>
      /\ s[6] = <<"installed", "in_progress">> /\ s[7] = <<"complete", "completed">>
      /\ Len(s) = 7 /\ s = [i \in 1 .. 7 |-> s[i]]
  BY DEF LegacySpec
<1> HIDE DEF s
<1>2. \A i \in 1 .. 7 : i \in {1, 2, 3, 4, 5, 6, 7}
  OBVIOUS
<1>3. \A i, j \in 1 .. 7 : s[i][1] = s[j][1] => i = j
  BY <1>1, <1>2
<1>4. \A i \in 1 .. 7 : s[i][1] \notin {"on_hold", "cancelled"}
  BY <1>1, <1>2
<1>5. FirstIs(s, "quoted", 2) /\ FirstIs(s, "approved", 3) /\ FirstIs(s, "in_progress", 4)
  <2>1. /\ \A j \in 1 .. 1 : j = 1
        /\ \A j \in 1 .. 2 : j \in {1, 2}
        /\ \A j \in 1 .. 3 : j \in {1, 2, 3}
    OBVIOUS
  <2> QED BY <1>1, <2>1 DEF FirstIs
<1>6. IsLineup(s)
  BY <1>1, <1>3, <1>4, <1>5 DEF IsLineup
<1> QED
  BY <1>6 DEF s

(* The template of projects that are older than workflows is a flow.       *)
THEOREM LegacyIsAFlow == IsFlow(LegacyTemplate)
  BY LegacyLineup, SeededIsAFlow DEF LegacyTemplate

(* Documents, logo, link, thread, export and purge: whatever requests      *)
(* overlap, fail and die, the logo that a workspace shows is there, a row  *)
(* has its bytes, no file is left unnamed, a purge is complete and the     *)
(* staff are told of every message.                                        *)
THEOREM DeskStaysSound == DeskSpec => [](DeskTypeOK /\ DeskIsSound)
<1>1. DeskInit => DeskInv
  BY InitDeskInv
<1>2. DeskInv /\ [DeskNext]_deskVars => DeskInv'
  BY DeskKept
<1>3. DeskInv => DeskTypeOK /\ DeskIsSound
  BY DeskSound
<1> QED
  BY <1>1, <1>2, <1>3, PTL DEF DeskSpec

(* Visits, tasks, follow-ups and trial reminders: what happened is logged, *)
(* a project is followed up once, and a reminder is due and accounted for, *)
(* whatever runs of the job overlap and stop.                              *)
THEOREM DiaryStaysSound == DiarySpec => [](DiaryTypeOK /\ DiaryIsSound)
<1>1. DiaryInit => DiaryInv
  BY InitDiary
<1>2. DiaryInv /\ [DiaryNext]_diaryVars => DiaryInv'
  BY DiaryKept
<1>3. DiaryInv => DiaryTypeOK /\ DiaryIsSound
  BY DiarySound
<1> QED
  BY <1>1, <1>2, <1>3, PTL DEF DiarySpec

(* Recovery: a manifest is a snapshot, archives and manifests match, and a *)
(* restore is exact or leaves nothing, whoever runs, fails and is killed.  *)
THEOREM BundlesStaySound == BundleSpec => [](BundleTypeOK /\ BundlesAreSound)
<1>1. BundleInit => BundleInv
  BY InitBundle
<1>2. BundleInv /\ [BundleNext]_bundleVars => BundleInv'
  BY BundleKept
<1>3. BundleInv => BundleTypeOK /\ BundlesAreSound
  BY BundleSound
<1> QED
  BY <1>1, <1>2, <1>3, PTL DEF BundleSpec

(* A portal link that is no longer active lets no message begin, however   *)
(* requests to revoke it, its expiry and posts are interleaved.            *)
THEOREM RevokedStaysRevoked == DeskSpec => RevokedMeansRevoked
<1>1. DeskInit => DeskInv
  BY InitDeskInv
<1>2. DeskInv /\ [DeskNext]_deskVars => DeskInv'
  BY DeskKept
<1>3. DeskInv /\ [DeskNext]_deskVars => [NoneBegins]_deskVars
  BY RevocationHolds DEF DeskInv
<1>4. [][NoneBegins]_deskVars => RevokedMeansRevoked
  BY DEF NoneBegins, RevokedMeansRevoked
<1> QED
  BY <1>1, <1>2, <1>3, <1>4, PTL DEF DeskSpec

(* The recovery bundles keep what they promise in the office.              *)
THEOREM OfficeRecovers == MCSpec => []BundlesAreSound
<1>1. MCInit => BundleInv
  BY InitBundle DEF MCInit
<1>2. BundleInv /\ [MCNext]_officeVars => BundleInv'
  BY OfficeSteps, BundleKept
<1>3. BundleInv => BundlesAreSound
  BY BundleSound
<1> QED
  BY <1>1, <1>2, <1>3, PTL DEF MCSpec

(* A container never serves in front of a database that lacks a revision   *)
(* its code relies on, whichever containers and release jobs raced to      *)
(* upgrade it, whatever failed on the way, with or without the lock.       *)
THEOREM ContainersServeWhatTheyKnow == BaseSpec => []ServesWhatItKnows
<1>1. BaseInit => BaseInv
  BY InitBase
<1>2. BaseInv /\ [BaseNext]_baseVars => BaseInv'
  BY BaseKept
<1>3. BaseInv => ServesWhatItKnows
  BY DEF BaseInv, ServesWhatItKnows
<1> QED
  BY <1>1, <1>2, <1>3, PTL DEF BaseSpec

(* The database: whichever containers and release jobs race, die and are   *)
(* rolled out or back in whatever order, the backfills' promises hold of   *)
(* every row, those that older and newer releases write meanwhile included.*)
THEOREM RowsStayWhole == BaseSpec => [](BaseTypeOK /\ RowsAreWhole)
<1>1. BaseInit => RowsInv
  BY InitRows
<1>2. RowsInv /\ [BaseNext]_baseVars => RowsInv'
  BY RowsKept
<1>3. RowsInv => BaseTypeOK /\ RowsAreWhole
  BY RowsSound
<1> QED
  BY <1>1, <1>2, <1>3, PTL DEF BaseSpec

\* What the three action properties of Migrations say of a step.
QuotesStay ==
  \A q \in rows.quotes : \E r \in rows'.quotes :
    /\ q.kind = "general" => r.kind = "general"
    /\ r.lines < q.lines => revision' < 20

FreeStays ==
  \A w \in Workspaces : rows.sub[w] = "free" => rows'.sub[w] = "free" \/ revision' < revision

NoneLockedOut ==
  revision < 32 /\ revision' >= 32 => \A w \in rows.tenants : rows'.sub[w] = "free"

LEMMA StepsTakeNothing ==
  ASSUME RowsInv, [BaseNext]_baseVars
  PROVE  QuotesStay /\ FreeStays /\ NoneLockedOut
  BY StepsHold DEF Preserves, Survive, Spares, QuotesStay, FreeStays, NoneLockedOut

(* No revision loses a quote that the older form cannot hold, and its      *)
(* lines go only with their table; a free subscription stays free but by a *)
(* downgrade; and the release of the paid plans meters no workspace.       *)
THEOREM RevisionsTakeNothingBack == BaseSpec => QuotesSurvive /\ FreeStaysFree /\ NobodyIsLockedOut
<1>1. BaseInit => RowsInv
  BY InitRows
<1>2. RowsInv /\ [BaseNext]_baseVars => RowsInv'
  BY RowsKept
<1>3. RowsInv /\ [BaseNext]_baseVars => [QuotesStay]_baseVars /\ [FreeStays]_baseVars /\ [NoneLockedOut]_baseVars
  BY StepsTakeNothing
<1>4. /\ [][QuotesStay]_baseVars => QuotesSurvive
      /\ [][FreeStays]_baseVars => FreeStaysFree
      /\ [][NoneLockedOut]_baseVars => NobodyIsLockedOut
  BY DEF QuotesStay, FreeStays, NoneLockedOut, QuotesSurvive, FreeStaysFree, NobodyIsLockedOut
<1> QED
  BY <1>1, <1>2, <1>3, <1>4, PTL DEF BaseSpec

LEMMA OfficeMigrates == [MCNext]_officeVars => [BaseNext]_baseVars
  BY DEF MCNext, officeVars, Elsewhere

(* The four parts stay well formed in the office as the run checks it.     *)
THEOREM OfficeIsTyped == MCSpec => []OfficeTypeOK
<1>1. MCInit => RowsInv /\ DeskInv /\ DiaryInv /\ BundleInv
  BY InitRows, InitDeskInv, InitDiary, InitBundle DEF MCInit
<1>2. RowsInv /\ DeskInv /\ DiaryInv /\ BundleInv /\ [MCNext]_officeVars
        => (RowsInv /\ DeskInv /\ DiaryInv /\ BundleInv)'
  BY OfficeMigrates, OfficeSteps, RowsKept, DeskKept, DiaryKept, BundleKept
<1>3. RowsInv /\ DeskInv /\ DiaryInv /\ BundleInv => OfficeTypeOK
  BY RowsSound, DeskSound, DiarySound, BundleSound DEF OfficeTypeOK
<1> QED
  BY <1>1, <1>2, <1>3, PTL DEF MCSpec

(* The database is sound in the office.  That the chain replays and that   *)
(* the catalogue is sound speaks of two fixed tables and of no variable:   *)
(* TLC evaluates both in full, and they are hypotheses here.               *)
THEOREM DatabaseStaysSound ==
  ASSUME ChainReplays, CatalogueIsSound
  PROVE  MCSpec => []DatabaseIsSound
<1>1. MCInit => RowsInv
  BY InitRows DEF MCInit
<1>2. RowsInv /\ [MCNext]_officeVars => RowsInv'
  BY OfficeMigrates, RowsKept
<1>3. RowsInv => DatabaseIsSound
  BY RowsSound DEF DatabaseIsSound
<1> QED
  BY <1>1, <1>2, <1>3, PTL DEF MCSpec

(* What the office takes back, and all it does.  No request, upgrade or    *)
(* crash takes a line from a quote, the mark from a free subscription, a   *)
(* workspace's access or a revocation.  A downgrade keeps every quote and  *)
(* its kind, but takes the lines of them all if it ends below quote_items, *)
(* and the marks if it goes back past them: those two the statement lets   *)
(* pass.                                                                   *)
THEOREM OfficeTakesNothingBack == MCSpec => NothingIsTakenBack
<1>1. MCInit => RowsInv /\ DeskInv
  BY InitRows, InitDeskInv DEF MCInit
<1>2. RowsInv /\ DeskInv /\ [MCNext]_officeVars => (RowsInv /\ DeskInv)'
  BY OfficeMigrates, OfficeSteps, RowsKept, DeskKept
<1>3. RowsInv /\ DeskInv /\ [MCNext]_officeVars
        => /\ [QuotesStay]_baseVars /\ [FreeStays]_baseVars /\ [NoneLockedOut]_baseVars
           /\ [NoneBegins]_deskVars
  BY OfficeMigrates, OfficeSteps, StepsTakeNothing, RevocationHolds DEF DeskInv
<1>4. /\ [][QuotesStay]_baseVars => QuotesSurvive
      /\ [][FreeStays]_baseVars => FreeStaysFree
      /\ [][NoneLockedOut]_baseVars => NobodyIsLockedOut
      /\ [][NoneBegins]_deskVars => RevokedMeansRevoked
  BY DEF QuotesStay, FreeStays, NoneLockedOut, NoneBegins,
         QuotesSurvive, FreeStaysFree, NobodyIsLockedOut, RevokedMeansRevoked
<1> QED
  BY <1>1, <1>2, <1>3, <1>4, PTL DEF MCSpec, NothingIsTakenBack

(* The desk, the diary and the gate keep what they promise in the office.  *)
THEOREM OfficeIsSound == MCSpec => []PartsAreSound
<1>1. MCInit => DeskInv /\ DiaryInv /\ BaseInv
  BY InitDeskInv, InitDiary, InitBase DEF MCInit
<1>2. DeskInv /\ DiaryInv /\ BaseInv /\ [MCNext]_officeVars => (DeskInv /\ DiaryInv /\ BaseInv)'
  <2>1. [MCNext]_officeVars => [BaseNext]_baseVars
    BY DEF MCNext, officeVars, Elsewhere
  <2> QED BY <2>1, OfficeSteps, DeskKept, DiaryKept, BaseKept
<1>3. DeskInv /\ DiaryInv /\ BaseInv => PartsAreSound
  BY DeskSound, DiarySound DEF PartsAreSound, BaseInv, ServesWhatItKnows
<1> QED
  BY <1>1, <1>2, <1>3, PTL DEF MCSpec
=============================================================================
