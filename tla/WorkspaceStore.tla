--------------------------- MODULE WorkspaceStore ---------------------------
(***************************************************************************)
(* The storage under the agents' workspaces (crates/sentinel-fs) and the   *)
(* world snapshots that keep it alive (snapshot.rs, orchestrator.rs).      *)
(*                                                                         *)
(* An inode names its bytes in one of two stores.  Legacy files live in a  *)
(* content-addressed directory, one file per blob; the metadata database   *)
(* counts the inodes that name a blob, queues a blob without references    *)
(* for deletion, and lets a snapshot pin it.  Everything written through a *)
(* mounted workspace goes to the artifact plane: an object is a list of    *)
(* chunks, the plane counts how often manifests name a chunk, and roots    *)
(* keep an object.  The two databases and the directory share no           *)
(* transaction, so a write, a snapshot, a restore and a collection are     *)
(* several steps, and the daemon may die between any two of them.          *)
(*                                                                         *)
(* `writer` is the holder of the LayerManager's lock, a file system        *)
(* request.  `job` is the holder of the owner tick barrier: a snapshot     *)
(* with its retention, a restore, a collection of blobs, an operator's     *)
(* trash request.  The collection of chunks and the agent homes go to the  *)
(* plane directly; there each transaction is one step.                     *)
(*                                                                         *)
(* Abstracted: bytes, sizes, names and extents; an inode without its       *)
(* content changes nothing here, so directories, links, renames and        *)
(* unlink, which keeps the row, are left out.  The age of a trash entry    *)
(* and the grace period are a choice of entries that have expired.         *)
(* Metadata is written with Immediate durability, the default.             *)
(***************************************************************************)
EXTENDS Integers, Sequences, FiniteSets, Functions

CONSTANTS
    Inode,         \* inode numbers
    Blob,          \* hashes of legacy blobs
    Chunk,         \* hashes of chunks
    MaxObjects,    \* bound on the object ids handed out
    MaxSnaps,      \* bound on the snapshots taken
    MaxManifest,   \* bound on the chunks of one object
    None           \* no content, no snapshot

Object == 1..MaxObjects
Snap == 1..MaxSnaps
Content == Blob \cup Object \cup {None}

ASSUME StoreAssumption ==
    /\ IsFiniteSet(Inode)
    /\ {MaxObjects, MaxSnaps, MaxManifest} \subseteq Nat
    /\ Blob \cap Object = {}
    /\ None \notin Blob \cup Object
    /\ None \notin [inodes : [Inode -> Content], refs : [Blob -> Nat], trash : SUBSET Blob]

VARIABLES
    inodes,    \* FS_INODES: what each inode row names
    refs,      \* CAS_REFCOUNT
    trash,     \* FS_TRASH_QUEUE of the metadata database
    pins,      \* FS_SNAPSHOT_BLOB_REFS
    files,     \* the blobs in the directory
    manifest,  \* FS_MANIFESTS, on the objects that exist
    roots,     \* FS_WORKSPACE_ROOTS; a root's name holds its object
    chunks,    \* FS_CHUNKS
    counts,    \* FS_CHUNK_REFCOUNT
    waste,     \* FS_TRASH_QUEUE of the plane
    homes,     \* owned_object_ids of the running homes
    orphans,   \* what gc_chunks has read
    saved,     \* the world snapshots in the event store
    objects,   \* the object counter
    snaps,     \* snapshots begun
    writer,    \* the request under the LayerManager's lock
    job        \* the operation under the tick barrier

meta == <<inodes, refs, trash>>
plane == <<manifest, roots, chunks, counts, waste, objects>>
homeVars == <<homes, orphans>>
vars == <<meta, pins, files, plane, homeVars, saved, snaps, writer, job>>

NoWriter == [pc |-> "idle", inode |-> None, object |-> None]
NoJob == [pc |-> "idle", snap |-> None, dump |-> None, target |-> None, todo |-> {}]

Occurs(c, m) == Cardinality({k \in DOMAIN m : m[k] = c})
Live == DOMAIN manifest

\* The tables a snapshot copies, and what a copy names in each store.
Dump == [inodes |-> inodes, refs |-> refs, trash |-> trash]
BlobsOf(d) == Range(d.inodes) \cap Blob
ObjectsOf(d) == Range(d.inodes) \cap Object

\* A read of this content succeeds.
Readable(c) ==
    \/ c = None
    \/ c \in files
    \/ c \in Live /\ Range(manifest[c]) \subseteq chunks

\* What a restore checks of a copy before it changes anything.
BlobsThere(d) == \A b \in Blob : d.refs[b] > 0 => b \in files
ObjectsThere(d) == \A o \in ObjectsOf(d) : Readable(o)
Valid(d) == BlobsThere(d) /\ ObjectsThere(d)

\* The LayerManager's lock is free.
Unlocked == writer.pc = "idle" /\ job.pc \notin {"create", "remove"}

\* The daemon comes up on files written before the plane was introduced.
Init ==
    /\ inodes \in [Inode -> Blob \cup {None}]
    /\ refs = [b \in Blob |-> Cardinality({i \in Inode : inodes[i] = b})]
    /\ files = Range(inodes) \cap Blob
    /\ trash = {} /\ pins = {}
    /\ manifest = <<>> /\ roots = {} /\ chunks = {} /\ waste = {}
    /\ counts = [c \in Chunk |-> 0]
    /\ homes = {} /\ orphans = {}
    /\ saved = [s \in Snap |-> None]
    /\ objects = 0 /\ snaps = 0
    /\ writer = NoWriter /\ job = NoJob

-----------------------------------------------------------------------------
(* The artifact plane: each operator is one durable transaction.           *)

Manifests == UNION {[1..n -> Chunk] : n \in 1..MaxManifest}

\* An object with manifest m, of which the chunks in fresh are stored unless
\* they are there already: store_object, and the end of publish_workspace.
StoreObject(m, fresh) ==
    /\ objects < MaxObjects
    /\ objects' = objects + 1
    /\ manifest' = [o \in Live \cup {objects'} |-> IF o = objects' THEN m ELSE manifest[o]]
    /\ chunks' = chunks \cup fresh
    /\ counts' = [c \in Chunk |-> counts[c] + Occurs(c, m)]
    /\ waste' = waste \ Range(m)

\* Mutant: an object goes with the first of its roots.
ReleaseObjectWithRoot(o, left) ==
    /\ roots' = left
    /\ IF o \notin Live
       THEN UNCHANGED <<manifest, counts>>
       ELSE /\ manifest' = Restrict(manifest, Live \ {o})
            /\ counts' = [c \in Chunk |->
                             IF counts[c] > Occurs(c, manifest[o])
                             THEN counts[c] - Occurs(c, manifest[o]) ELSE 0]
    /\ UNCHANGED <<chunks, waste, objects>>

\* release_object_in_transaction, with `left` the roots that remain.
ReleaseObject(o, left) ==
    /\ roots' = left
    /\ IF o \notin Live \/ \E r \in left : r[3] = o
       THEN UNCHANGED <<manifest, counts>>
       ELSE /\ manifest' = Restrict(manifest, Live \ {o})
            /\ counts' = [c \in Chunk |->
                             IF counts[c] > Occurs(c, manifest[o])
                             THEN counts[c] - Occurs(c, manifest[o]) ELSE 0]
    /\ UNCHANGED <<chunks, waste, objects>>

\* An agent's home is walked into the plane, and released by the next walk or
\* with the workload.  The list of its objects is in memory.
WalkHome ==
    /\ \E m \in Manifests : StoreObject(m, Range(m))
    /\ homes' = homes \cup {objects'}
    /\ UNCHANGED <<meta, pins, files, roots, orphans, saved, snaps, writer, job>>

ReleaseHome(o) ==
    /\ o \in homes
    /\ homes' = homes \ {o}
    /\ ReleaseObject(o, roots)
    /\ UNCHANGED <<meta, pins, files, orphans, saved, snaps, writer, job>>

\* gc_chunks reads the chunks without a count, then queues those that are
\* still without one.
ReadOrphans ==
    /\ orphans = {}
    /\ orphans' = {c \in chunks : counts[c] = 0}
    /\ UNCHANGED <<meta, pins, files, plane, homes, saved, snaps, writer, job>>

QueueOrphans ==
    /\ orphans # {}
    /\ waste' = waste \cup {c \in orphans : counts[c] = 0}
    /\ orphans' = {}
    /\ UNCHANGED <<meta, pins, files, manifest, roots, chunks, counts, objects, homes,
                   saved, snaps, writer, job>>

\* gc_trash of the plane: of the expired entries, those with a count leave
\* the queue and the others leave the index with it.
FreeChunks ==
    /\ \E expired \in SUBSET waste :
        /\ expired # {}
        /\ waste' = waste \ expired
        /\ chunks' = chunks \ {c \in expired : counts[c] = 0}
    /\ UNCHANGED <<meta, pins, files, manifest, roots, counts, objects, homeVars,
                   saved, snaps, writer, job>>

\* restore_from_trash of the plane gives a queued chunk a count of its own.
RestoreChunk(c) ==
    /\ c \in waste
    /\ waste' = waste \ {c}
    /\ counts' = [counts EXCEPT ![c] = IF @ = 0 THEN 1 ELSE @]
    /\ UNCHANGED <<meta, pins, files, manifest, roots, chunks, objects, homeVars,
                   saved, snaps, writer, job>>

\* store_pulled_chunk: a chunk of a peer is indexed with a count of its own.
PullChunk(c) ==
    /\ c \notin chunks
    /\ chunks' = chunks \cup {c}
    /\ counts' = [counts EXCEPT ![c] = @ + 1]
    /\ UNCHANGED <<meta, pins, files, manifest, roots, waste, objects, homeVars,
                   saved, snaps, writer, job>>

-----------------------------------------------------------------------------
(* A write through the mount: publish, retain, adopt, under the lock.      *)

\* Publication on top of what the inode holds, or of the object published
\* before in the same flush; a chunk kept from the base has to be there.  (An
\* object without chunks, an empty file, needs nothing and is left out.)
Publish(i) ==
    /\ \/ Unlocked
       \/ writer.pc = "adopt" /\ writer.inode = i
    /\ LET base == IF writer.pc = "adopt" THEN writer.object ELSE inodes[i]
           kept == IF base \in Live THEN {<<>>, manifest[base]} ELSE {<<>>}
       IN  /\ base \in Object => base \in Live
           /\ \E k \in kept, new \in Manifests \cup {<<>>} :
                /\ Len(k \o new) \in 1..MaxManifest
                /\ Range(k) \subseteq chunks
                /\ StoreObject(k \o new, Range(new))
    /\ writer' = [pc |-> "retain", inode |-> i, object |-> objects']
    /\ UNCHANGED <<meta, pins, files, roots, homeVars, saved, snaps, job>>

\* The root is named after inode and object: it replaces no earlier one.
Retain ==
    /\ writer.pc = "retain"
    /\ writer.object \in Live
    /\ roots' = roots \cup {<<"inode", writer.inode, writer.object>>}
    /\ writer' = [writer EXCEPT !.pc = "adopt"]
    /\ UNCHANGED <<meta, pins, files, manifest, chunks, counts, waste, objects, homeVars,
                   saved, snaps, job>>

\* commit_namespace: the row and the account of the blob it no longer names.
Adopt ==
    /\ writer.pc = "adopt"
    /\ inodes' = [inodes EXCEPT ![writer.inode] = writer.object]
    /\ LET b == inodes[writer.inode]
       IN  IF b \in Blob
           THEN /\ refs' = [refs EXCEPT ![b] = IF @ = 0 THEN 0 ELSE @ - 1]
                /\ trash' = IF refs[b] <= 1 THEN trash \cup {b} ELSE trash
           ELSE UNCHANGED <<refs, trash>>
    /\ writer' = NoWriter
    /\ UNCHANGED <<pins, files, plane, homeVars, saved, snaps, job>>

\* An error, or the loss of the scope, between two steps of a write.
GiveUp ==
    /\ writer # NoWriter
    /\ writer' = NoWriter
    /\ UNCHANGED <<meta, pins, files, plane, homeVars, saved, snaps, job>>

-----------------------------------------------------------------------------
(* Snapshots: copy under the lock, pin, retain, save.                      *)

\* create_and_store, alone or as the first part of a restore, whose target
\* has been read and validated.
CopyTables(target) ==
    /\ job.pc = "idle" /\ Unlocked /\ snaps < MaxSnaps
    /\ target # None => saved[target] # None /\ Valid(saved[target])
    /\ snaps' = snaps + 1
    /\ job' = [pc |-> "pin", snap |-> snaps', dump |-> Dump, target |-> target, todo |-> {}]
    /\ UNCHANGED <<meta, pins, files, plane, homeVars, saved, writer>>

PinBlobs ==
    /\ job.pc = "pin"
    /\ pins' = pins \cup ({job.snap} \X BlobsOf(job.dump))
    /\ job' = [job EXCEPT !.pc = "retain", !.todo = ObjectsOf(job.dump)]
    /\ UNCHANGED <<meta, files, plane, homeVars, saved, snaps, writer>>

RetainObject ==
    /\ job.pc = "retain"
    /\ \E o \in job.todo \cap Live :
        /\ roots' = roots \cup {<<"snapshot", job.snap, o>>}
        /\ job' = [job EXCEPT !.todo = @ \ {o}]
    /\ UNCHANGED <<meta, pins, files, manifest, chunks, counts, waste, objects, homeVars,
                   saved, snaps, writer>>

Save ==
    /\ job.pc = "retain" /\ job.todo = {}
    /\ saved' = [saved EXCEPT ![job.snap] = job.dump]
    /\ job' = IF job.target = None THEN NoJob ELSE [job EXCEPT !.pc = "restore"]
    /\ UNCHANGED <<meta, pins, files, plane, homeVars, snaps, writer>>

\* Retention deletes the row of an old snapshot first, and then its pins and
\* roots; of these each may fail, which only delays a collection.
Retire(s) ==
    /\ job.pc = "idle" /\ saved[s] # None
    /\ saved' = [saved EXCEPT ![s] = None]
    /\ job' = [NoJob EXCEPT !.pc = "unpin", !.snap = s, !.todo = ObjectsOf(saved[s])]
    /\ UNCHANGED <<meta, pins, files, plane, homeVars, snaps, writer>>

Unpin ==
    /\ job.pc = "unpin"
    /\ \/ pins' = {p \in pins : p[1] # job.snap}
       \/ UNCHANGED pins
    /\ job' = [job EXCEPT !.pc = "release"]
    /\ UNCHANGED <<meta, files, plane, homeVars, saved, snaps, writer>>

ReleaseRoot ==
    /\ job.pc = "release"
    /\ \E o \in job.todo :
        /\ \/ ReleaseObject(o, roots \ {<<"snapshot", job.snap, o>>})
           \/ UNCHANGED plane
        /\ job' = IF job.todo = {o} THEN NoJob ELSE [job EXCEPT !.todo = @ \ {o}]
    /\ UNCHANGED <<meta, pins, files, homeVars, saved, snaps, writer>>

-----------------------------------------------------------------------------
(* Restores: one transaction replaces the tables by those of a copy.       *)

Install(d) ==
    /\ inodes' = d.inodes
    /\ refs' = d.refs
    /\ trash' = d.trash

\* restore_metadata, once the snapshot of the present has been saved.
CommitRestore ==
    /\ job.pc = "restore" /\ Unlocked
    /\ Install(saved[job.target])
    /\ job' = [job EXCEPT !.pc = "restored"]
    /\ UNCHANGED <<pins, files, plane, homeVars, saved, snaps, writer>>

\* A later step of the restore fails: the snapshot taken first is installed.
Rollback ==
    /\ job.pc \in {"restore", "restored"} /\ Unlocked
    /\ Valid(saved[job.snap])
    /\ Install(saved[job.snap])
    /\ job' = NoJob
    /\ UNCHANGED <<pins, files, plane, homeVars, saved, snaps, writer>>

-----------------------------------------------------------------------------
(* Collection of blobs, and the operator's trash requests.                 *)

\* Mutant: pins are not looked at.
ReadExpiredPinned ==
    /\ job.pc = "idle"
    /\ \E expired \in SUBSET {b \in trash : refs[b] = 0} :
        /\ expired # {}
        /\ job' = [NoJob EXCEPT !.pc = "unlink", !.todo = expired]
    /\ UNCHANGED <<meta, pins, files, plane, homeVars, saved, snaps, writer>>

\* gc_trash reads the pins and the queue, unlinks the files, and only then
\* takes the entries out of the queue.
ReadExpired ==
    /\ job.pc = "idle"
    /\ \E expired \in SUBSET {b \in trash : refs[b] = 0 /\ b \notin {p[2] : p \in pins}} :
        /\ expired # {}
        /\ job' = [NoJob EXCEPT !.pc = "unlink", !.todo = expired]
    /\ UNCHANGED <<meta, pins, files, plane, homeVars, saved, snaps, writer>>

Unlink ==
    /\ job.pc = "unlink"
    /\ \E b \in job.todo \cap files : files' = files \ {b}
    /\ UNCHANGED <<meta, pins, plane, homeVars, saved, snaps, writer, job>>

ClearQueue ==
    /\ job.pc = "unlink" /\ job.todo \cap files = {}
    /\ trash' = trash \ {b \in job.todo : refs[b] = 0}
    /\ job' = NoJob
    /\ UNCHANGED <<inodes, refs, pins, files, plane, homeVars, saved, snaps, writer>>

\* set_trash_timestamp puts a hash in the queue, whatever names it.
SetTrashAge(b) ==
    /\ job.pc = "idle"
    /\ trash' = trash \cup {b}
    /\ UNCHANGED <<inodes, refs, pins, files, plane, homeVars, saved, snaps, writer, job>>

\* create_legacy_trash_fixture, under barrier and lock: store the blob unless
\* it is there, create a file with it, remove the file.
StoreFixture(b) ==
    /\ job.pc = "idle" /\ Unlocked
    /\ files' = files \cup {b}
    /\ job' = [NoJob EXCEPT !.pc = "create", !.todo = {b}]
    /\ UNCHANGED <<meta, pins, plane, homeVars, saved, snaps, writer>>

CreateFixture ==
    /\ job.pc = "create"
    /\ \E b \in job.todo, i \in Inode :
        /\ inodes[i] = None
        /\ inodes' = [inodes EXCEPT ![i] = b]
        /\ refs' = [refs EXCEPT ![b] = @ + 1]
        /\ trash' = IF refs[b] = 0 THEN trash \ {b} ELSE trash
        /\ job' = [job EXCEPT !.pc = "remove", !.target = i]
    /\ UNCHANGED <<pins, files, plane, homeVars, saved, snaps, writer>>

RemoveFixture ==
    /\ job.pc = "remove"
    /\ \E b \in job.todo :
        /\ inodes' = [inodes EXCEPT ![job.target] = None]
        /\ refs' = [refs EXCEPT ![b] = IF @ = 0 THEN 0 ELSE @ - 1]
        /\ trash' = IF refs[b] <= 1 THEN trash \cup {b} ELSE trash \ {b}
    /\ job' = NoJob
    /\ UNCHANGED <<pins, files, plane, homeVars, saved, snaps, writer>>

\* A job ends: a restore that succeeded, a retirement with nothing left to
\* release, or any step that returned an error.
EndJob ==
    /\ job # NoJob
    /\ job' = NoJob
    /\ UNCHANGED <<meta, pins, files, plane, homeVars, saved, snaps, writer>>

\* The daemon dies; what it had in memory is gone.
Crash ==
    /\ writer' = NoWriter /\ job' = NoJob
    /\ homes' = {} /\ orphans' = {}
    /\ UNCHANGED <<meta, pins, files, plane, saved, snaps>>

-----------------------------------------------------------------------------

PlaneStep ==
    \/ WalkHome \/ ReadOrphans \/ QueueOrphans \/ FreeChunks
    \/ \E o \in homes : ReleaseHome(o)
    \/ \E c \in Chunk : RestoreChunk(c) \/ PullChunk(c)

WriteStep == (\E i \in Inode : Publish(i)) \/ Retain \/ Adopt \/ GiveUp

JobStep ==
    \/ \E t \in Snap \cup {None} : CopyTables(t)
    \/ PinBlobs \/ RetainObject \/ Save
    \/ (\E s \in Snap : Retire(s)) \/ Unpin \/ ReleaseRoot
    \/ CommitRestore \/ Rollback
    \/ ReadExpired \/ Unlink \/ ClearQueue
    \/ \E b \in Blob : SetTrashAge(b) \/ StoreFixture(b)
    \/ CreateFixture \/ RemoveFixture \/ EndJob

Next == PlaneStep \/ WriteStep \/ JobStep \/ Crash

Spec == Init /\ [][Next]_vars

-----------------------------------------------------------------------------

\* Every file of every workspace can be read: whatever a collection, a
\* retention, a restore, a write given up half-way or a crash between two
\* stores has removed, no inode names it.
LiveIsReadable == \A i \in Inode : Readable(inodes[i])

\* Every world snapshot that can still be listed can be restored, with all the
\* bytes it names: its blobs and objects outlast the files that named them
\* when it was taken, and whatever was restored or retired since.
SnapshotsRestorable ==
    \A s \in Snap : saved[s] # None =>
        /\ Valid(saved[s])
        /\ \A i \in Inode : Readable(saved[s].inodes[i])
=============================================================================
