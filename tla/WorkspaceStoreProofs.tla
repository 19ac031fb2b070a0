------------------------ MODULE WorkspaceStoreProofs ------------------------
(***************************************************************************)
(* Proofs about the stores under the agents' workspaces, for any number of *)
(* files, blobs, chunks, objects and snapshots.                            *)
(*                                                                         *)
(* The argument has two halves.  A blob is unlinked only when no row names *)
(* it and no snapshot pins it, and the references in the database, in      *)
(* every copy of it and after every restore are the exact number of rows.  *)
(* A chunk is freed only when its count is zero, and the count is never    *)
(* below the number of places in manifests that name it; an object leaves  *)
(* the plane only without a root, and whatever an inode has ever named     *)
(* keeps the root of that inode.                                           *)
(***************************************************************************)
EXTENDS WorkspaceStore, FiniteSetTheorems, TLAPS

Table == [inodes : [Inode -> Content], refs : [Blob -> Nat], trash : SUBSET Blob]

Naming(f, b) == {i \in Inode : f[i] = b}

\* The references of a copy are the number of its rows.
Exact(d) ==
    /\ d \in Table
    /\ \A b \in Blob : d.refs[b] = Cardinality(Naming(d.inodes, b))

\* Every object that a row names has been retained for an inode.
Rooted(R, f) ==
    \A i \in Inode : f[i] \in Object => \E j \in Inode : <<"inode", j, f[i]>> \in R

JobPc == {"idle", "pin", "retain", "restore", "restored", "unpin", "release", "unlink",
          "create", "remove"}

JobType ==
    [pc : JobPc, snap : Snap \cup {None}, dump : Table \cup {None},
     target : Snap \cup Inode \cup {None}, todo : SUBSET (Blob \cup Object)]

WriterType ==
    [pc : {"idle", "retain", "adopt"}, inode : Inode \cup {None}, object : Object \cup {None}]

ControlInv ==
    /\ job \in JobType /\ writer \in WriterType
    /\ snaps \in 0..MaxSnaps
    /\ writer.pc # "idle" =>
          /\ writer.inode \in Inode /\ writer.object \in Object
          /\ job.pc \notin {"create", "remove"}
    /\ job.pc \in {"pin", "retain", "restore", "restored"} =>
          /\ job.snap \in Snap
          /\ job.target # None => job.target \in Snap /\ saved[job.target] # None
    /\ job.pc \in {"pin", "retain"} => saved[job.snap] = None /\ job.snap <= snaps
    /\ job.pc \in {"restore", "restored"} => saved[job.snap] # None /\ job.target # None
    /\ job.pc \in {"unpin", "release"} => job.snap \in Snap /\ saved[job.snap] = None
    /\ \A s \in Snap : s > snaps => saved[s] = None

\* A blob that a row, or a row of a snapshot, names is in the directory; what a
\* collection is about to unlink is named by none of them.
BlobInv ==
    /\ Exact(Dump) /\ BlobsOf(Dump) \subseteq files
    /\ saved \in [Snap -> Table \cup {None}]
    /\ \A s \in Snap : saved[s] # None =>
          /\ Exact(saved[s]) /\ BlobsOf(saved[s]) \subseteq files
          /\ {s} \X BlobsOf(saved[s]) \subseteq pins
    /\ job.pc \in {"pin", "retain"} => Exact(job.dump) /\ BlobsOf(job.dump) \subseteq files
    /\ job.pc = "retain" => {job.snap} \X BlobsOf(job.dump) \subseteq pins
    /\ job.pc = "unlink" =>
          \A b \in job.todo : b \in Blob /\ refs[b] = 0 /\ b \notin {p[2] : p \in pins}
    /\ job.pc = "create" => \E b \in Blob \cap files : job.todo = {b}
    /\ job.pc = "remove" =>
          /\ job.target \in Inode
          /\ job.todo = {inodes[job.target]} /\ inodes[job.target] \in Blob

\* The places in the manifests f that name a chunk.
Places(f, o, c) == {k \in DOMAIN f[o] : f[o][k] = c}
Uses(f, c) == UNION {{<<o, k>> : k \in Places(f, o, c)} : o \in DOMAIN f}

\* The plane: what is counted, what is there.
PlaneInv ==
    /\ objects \in 0..MaxObjects
    /\ Live \subseteq 1..objects
    /\ \A o \in Live : manifest[o] \in Seq(Chunk)
    /\ counts \in [Chunk -> Nat]
    /\ \A c \in Chunk :
          /\ IsFiniteSet(Uses(manifest, c))
          /\ Cardinality(Uses(manifest, c)) <= counts[c]
    /\ \A o \in Live : Range(manifest[o]) \subseteq chunks

\* Roots keep objects, and everything a row names has one.
RootInv ==
    /\ \A r \in roots : r[3] \in Live
    /\ writer.pc = "adopt" => <<"inode", writer.inode, writer.object>> \in roots
    /\ Rooted(roots, inodes)
    /\ \A s \in Snap : saved[s] # None => Rooted(roots, saved[s].inodes)
    /\ job.pc \in {"pin", "retain"} => Rooted(roots, job.dump.inodes)

StoreInv == ControlInv /\ BlobInv /\ PlaneInv /\ RootInv

-----------------------------------------------------------------------------
(* Counting                                                                *)

LEMMA TaggedSet ==
    ASSUME NEW o, NEW K, IsFiniteSet(K)
    PROVE  /\ IsFiniteSet({<<o, k>> : k \in K})
           /\ Cardinality({<<o, k>> : k \in K}) = Cardinality(K)
<1> DEFINE T == {<<o, k>> : k \in K}
           f == [k \in K |-> <<o, k>>]
<1>1. f \in [K -> T]
  BY Zenon
<1>2. \A x, y \in K : f[x] = f[y] => x = y
  BY Zenon
<1>3. \A t \in T : \E k \in K : f[k] = t
  BY Zenon
<1>4. f \in Bijection(K, T)
  BY <1>1, <1>2, <1>3, Zenon DEF Bijection, Injection, Surjection, IsInjective
<1>5. ExistsBijection(K, T)
  BY <1>4, Zenon DEF ExistsBijection
<1>6. QED
  BY <1>5, FS_Bijection, Zenon

LEMMA PlacesFinite ==
    ASSUME NEW m \in Seq(Chunk), NEW c
    PROVE  /\ IsFiniteSet({k \in DOMAIN m : m[k] = c})
           /\ Occurs(c, m) \in Nat
<1>1. IsFiniteSet(1..Len(m))
  BY FS_Interval, SMTT(30)
<1>2. {k \in DOMAIN m : m[k] = c} \in SUBSET (1..Len(m))
  BY SMTT(30)
<1>3. IsFiniteSet({k \in DOMAIN m : m[k] = c})
  BY <1>1, <1>2, FS_Subset, Zenon
<1>4. QED
  BY <1>3, FS_CardinalityType, Zenon DEF Occurs

LEMMA UsesPairs ==
    ASSUME NEW f, NEW c
    PROVE  \A x, k : <<x, k>> \in Uses(f, c) <=> x \in DOMAIN f /\ k \in Places(f, x, c)
  BY SMTT(30) DEF Uses

LEMMA UsesArePairs ==
    ASSUME NEW f, NEW c, NEW u \in Uses(f, c)
    PROVE  \E x, k : u = <<x, k>>
  BY Zenon DEF Uses

\* A new object adds as many uses of a chunk as its manifest names it.
LEMMA UsesAdded ==
    ASSUME NEW f, NEW o, o \notin DOMAIN f, NEW m \in Seq(Chunk), NEW c,
           NEW g, DOMAIN g = DOMAIN f \cup {o}, g[o] = m, \A x \in DOMAIN f : g[x] = f[x],
           IsFiniteSet(Uses(f, c))
    PROVE  /\ IsFiniteSet(Uses(g, c))
           /\ Cardinality(Uses(g, c)) <= Cardinality(Uses(f, c)) + Occurs(c, m)
<1> DEFINE K == {k \in DOMAIN m : m[k] = c}
           T == {<<o, k>> : k \in K}
<1>1. Uses(g, c) = Uses(f, c) \cup T
  <2>1. Places(g, o, c) = K
    BY Zenon DEF Places
  <2>2. \A x \in DOMAIN f : Places(g, x, c) = Places(f, x, c)
    BY Zenon DEF Places
  <2>3. DOMAIN g = DOMAIN f \cup {o}
    BY Zenon
  <2>4. ASSUME NEW u PROVE u \in Uses(g, c) <=> u \in Uses(f, c) \cup T
    <3>1. CASE \E x, k : u = <<x, k>>
      <4>1. PICK x, k : u = <<x, k>>
        BY <3>1, Zenon
      <4>2. u \in Uses(g, c) <=> x \in DOMAIN g /\ k \in Places(g, x, c)
        BY <4>1, UsesPairs, Zenon
      <4>3. u \in Uses(f, c) <=> x \in DOMAIN f /\ k \in Places(f, x, c)
        BY <4>1, UsesPairs, Zenon
      <4>4. u \in T <=> x = o /\ k \in K
        BY <4>1, Zenon
      <4> HIDE DEF T, K
      <4>5. QED
        BY <2>1, <2>2, <2>3, <4>2, <4>3, <4>4, Zenon
    <3>2. CASE ~ \E x, k : u = <<x, k>>
      <4>1. u \notin T
        BY <3>2, Zenon
      <4>2. u \notin Uses(f, c)
        BY <3>2, UsesArePairs, SMTT(30)
      <4>3. u \notin Uses(g, c)
        BY <3>2, UsesArePairs, SMTT(30)
      <4> HIDE DEF T
      <4>4. QED
        BY <4>1, <4>2, <4>3, Zenon
    <3>3. QED
      BY <3>1, <3>2, Zenon
  <2>5. QED
    BY <2>4, Zenon
<1>2. IsFiniteSet(K)
  BY PlacesFinite, Zenon
<1>3. IsFiniteSet(T) /\ Cardinality(T) = Occurs(c, m)
  <2>1. Cardinality(K) = Occurs(c, m)
    BY Zenon DEF Occurs
  <2> HIDE DEF K
  <2>2. QED
    BY ONLY <1>2, <2>1, TaggedSet, Zenon
<1> HIDE DEF T, K
<1>4. /\ IsFiniteSet(Uses(f, c) \cup T)
      /\ Cardinality(Uses(f, c) \cup T) =
            Cardinality(Uses(f, c)) + Cardinality(T) - Cardinality(Uses(f, c) \cap T)
  BY <1>3, FS_Union, Zenon
<1>5. /\ Cardinality(Uses(f, c)) \in Nat /\ Cardinality(T) \in Nat
      /\ Cardinality(Uses(f, c) \cap T) \in Nat
  BY <1>3, FS_CardinalityType, FS_Intersection, Zenon
<1>6. Cardinality(Uses(f, c) \cup T) <= Cardinality(Uses(f, c)) + Cardinality(T)
  BY <1>4, <1>5, SMTT(30)
<1>7. QED
  BY <1>1, <1>3, <1>4, <1>6, Zenon

\* An object that goes takes exactly as many with it.
LEMMA UsesRemoved ==
    ASSUME NEW f, NEW o \in DOMAIN f, f[o] \in Seq(Chunk), NEW c,
           NEW g, g = Restrict(f, DOMAIN f \ {o}),
           IsFiniteSet(Uses(f, c))
    PROVE  /\ IsFiniteSet(Uses(g, c))
           /\ Cardinality(Uses(f, c)) \in Nat /\ Cardinality(Uses(g, c)) \in Nat
           /\ Cardinality(Uses(g, c)) = Cardinality(Uses(f, c)) - Occurs(c, f[o])
<1> DEFINE K == Places(f, o, c)
           T == {<<o, k>> : k \in K}
<1>1. Uses(g, c) = Uses(f, c) \ T
  <2>1. DOMAIN g = DOMAIN f \ {o} /\ \A x \in DOMAIN g : g[x] = f[x]
    BY Zenon DEF Restrict
  <2>2. \A x \in DOMAIN g : Places(g, x, c) = Places(f, x, c)
    BY <2>1, Zenon DEF Places
  <2>3. ASSUME NEW u PROVE u \in Uses(g, c) <=> u \in Uses(f, c) \ T
    <3>1. CASE \E x, k : u = <<x, k>>
      <4>1. PICK x, k : u = <<x, k>>
        BY <3>1, Zenon
      <4>2. u \in Uses(g, c) <=> x \in DOMAIN g /\ k \in Places(g, x, c)
        BY <4>1, UsesPairs, Zenon
      <4>3. u \in Uses(f, c) <=> x \in DOMAIN f /\ k \in Places(f, x, c)
        BY <4>1, UsesPairs, Zenon
      <4>4. u \in T <=> x = o /\ k \in Places(f, o, c)
        BY <4>1, Zenon
      <4> HIDE DEF T
      <4>5. QED
        BY <2>1, <2>2, <4>2, <4>3, <4>4, Zenon
    <3>2. CASE ~ \E x, k : u = <<x, k>>
      <4>1. u \notin T
        BY <3>2, Zenon
      <4>2. u \notin Uses(f, c)
        BY <3>2, UsesArePairs, SMTT(30)
      <4>3. u \notin Uses(g, c)
        BY <3>2, UsesArePairs, SMTT(30)
      <4> HIDE DEF T
      <4>4. QED
        BY <4>1, <4>2, <4>3, Zenon
    <3>3. QED
      BY <3>1, <3>2, Zenon
  <2>4. QED
    BY <2>3, Zenon
<1>2. IsFiniteSet(K) /\ Cardinality(K) = Occurs(c, f[o])
  BY PlacesFinite, Zenon DEF Places, Occurs
<1>3. IsFiniteSet(T) /\ Cardinality(T) = Occurs(c, f[o])
  BY <1>2, TaggedSet, Zenon
<1>4. Uses(f, c) \cap T = T
  BY Zenon DEF Uses
<1> HIDE DEF T, K
<1>5. /\ IsFiniteSet(Uses(f, c) \ T)
      /\ Cardinality(Uses(f, c) \ T) = Cardinality(Uses(f, c)) - Cardinality(Uses(f, c) \cap T)
  BY FS_Difference, Zenon
<1>6. Cardinality(Uses(f, c)) \in Nat /\ Cardinality(Uses(f, c) \ T) \in Nat
  BY <1>5, FS_CardinalityType, Zenon
<1>7. QED
  BY <1>1, <1>3, <1>4, <1>5, <1>6, Zenon

\* A chunk that some manifest names has a count.
LEMMA UsedIsCounted ==
    ASSUME PlaneInv, NEW o \in Live, NEW c \in Range(manifest[o])
    PROVE  c \in Chunk /\ counts[c] > 0
<1>1. PICK k \in DOMAIN manifest[o] : manifest[o][k] = c
  BY Zenon DEF Range
<1>2. c \in Chunk
  BY <1>1, SMTT(30) DEF PlaneInv
<1>3. <<o, k>> \in Uses(manifest, c)
  BY <1>1, SMTT(30) DEF Uses, Places, Live
<1>4. IsFiniteSet(Uses(manifest, c)) /\ Cardinality(Uses(manifest, c)) <= counts[c]
  BY <1>2, Zenon DEF PlaneInv
<1>5. Cardinality(Uses(manifest, c)) \in Nat /\ Cardinality(Uses(manifest, c)) # 0
  BY <1>3, <1>4, FS_EmptySet, FS_CardinalityType, Zenon
<1>6. counts[c] \in Nat
  BY <1>2, Zenon DEF PlaneInv
<1>7. QED
  BY <1>2, <1>4, <1>5, <1>6, SMTT(30)

-----------------------------------------------------------------------------
(* The plane                                                               *)

LEMMA PlaneStore ==
    ASSUME PlaneInv, NEW m \in Seq(Chunk), NEW fresh, Range(m) \subseteq chunks \cup fresh,
           StoreObject(m, fresh)
    PROVE  /\ PlaneInv'
           /\ Live \subseteq Live' /\ objects' \in Object
<1>1. /\ objects \in Nat /\ MaxObjects \in Nat /\ objects < MaxObjects
      /\ objects' = objects + 1 /\ objects' \notin Live
  BY StoreAssumption, SMTT(30) DEF PlaneInv, StoreObject
<1>2. /\ manifest' = [o \in Live \cup {objects'} |-> IF o = objects' THEN m ELSE manifest[o]]
      /\ chunks' = chunks \cup fresh
      /\ counts' = [c \in Chunk |-> counts[c] + Occurs(c, m)]
  BY Zenon DEF StoreObject
<1>3. Live' = Live \cup {objects'}
  BY <1>2, Zenon DEF Live
<1>4. Live' \subseteq 1..objects'
  BY <1>1, <1>3, SMTT(30) DEF PlaneInv
<1>5. \A o \in Live' : manifest'[o] \in Seq(Chunk) /\ Range(manifest'[o]) \subseteq chunks'
  <2>1. manifest'[objects'] = m
    BY <1>2, Zenon
  <2>2. \A o \in Live : manifest'[o] = manifest[o]
    BY <1>1, <1>2, Zenon
  <2>3. QED
    BY <1>2, <1>3, <2>1, <2>2, Zenon DEF PlaneInv
<1>6. ASSUME NEW c \in Chunk
      PROVE  /\ IsFiniteSet(Uses(manifest', c))
             /\ counts'[c] \in Nat /\ Cardinality(Uses(manifest', c)) <= counts'[c]
  <2>1. /\ IsFiniteSet(Uses(manifest, c)) /\ Cardinality(Uses(manifest, c)) <= counts[c]
        /\ counts[c] \in Nat
    BY Zenon DEF PlaneInv
  <2>2. /\ IsFiniteSet(Uses(manifest', c))
        /\ Cardinality(Uses(manifest', c)) <= Cardinality(Uses(manifest, c)) + Occurs(c, m)
    <3>1. PICK f, g, o : f = manifest /\ g = manifest' /\ o = objects'
      BY Zenon
    <3>2. /\ o \notin DOMAIN f /\ DOMAIN g = DOMAIN f \cup {o}
          /\ g[o] = m /\ \A x \in DOMAIN f : g[x] = f[x]
      BY <1>1, <1>2, <3>1, Zenon DEF Live
    <3>3. IsFiniteSet(Uses(f, c))
      BY <2>1, <3>1, Zenon
    <3>4. /\ IsFiniteSet(Uses(g, c))
          /\ Cardinality(Uses(g, c)) <= Cardinality(Uses(f, c)) + Occurs(c, m)
      BY ONLY <3>2, <3>3, m \in Seq(Chunk), UsesAdded, Zenon
    <3>5. QED
      BY <3>1, <3>4, Zenon
  <2>3. /\ Cardinality(Uses(manifest, c)) \in Nat /\ Cardinality(Uses(manifest', c)) \in Nat
        /\ Occurs(c, m) \in Nat
    BY <2>1, <2>2, FS_CardinalityType, PlacesFinite, Zenon
  <2>4. counts'[c] = counts[c] + Occurs(c, m)
    BY <1>2, Zenon
  <2>5. QED
    BY <2>1, <2>2, <2>3, <2>4, SMTT(30)
<1>7. counts' \in [Chunk -> Nat]
  BY <1>2, <1>6, Zenon
<1>8. PlaneInv'
  BY <1>1, <1>4, <1>5, <1>6, <1>7, SMTT(30) DEF PlaneInv
<1>9. QED
  BY <1>1, <1>3, <1>8, SMTT(30) DEF Object

LEMMA PlaneRelease ==
    ASSUME PlaneInv, NEW o, NEW left, ReleaseObject(o, left)
    PROVE  /\ PlaneInv' /\ roots' = left
           /\ \A r \in left : r[3] \in Live => r[3] \in Live'
<1>0. roots' = left /\ chunks' = chunks /\ objects' = objects
  BY Zenon DEF ReleaseObject
<1>1. CASE o \notin Live \/ \E r \in left : r[3] = o
  <2>1. manifest' = manifest /\ counts' = counts
    BY <1>1, Zenon DEF ReleaseObject
  <2>2. QED
    BY <1>0, <2>1, Zenon DEF PlaneInv, Live
<1>2. CASE ~ (o \notin Live \/ \E r \in left : r[3] = o)
  <2>1. /\ o \in Live /\ manifest' = Restrict(manifest, Live \ {o})
        /\ counts' = [c \in Chunk |->
                         IF counts[c] > Occurs(c, manifest[o])
                         THEN counts[c] - Occurs(c, manifest[o]) ELSE 0]
    BY <1>2, Zenon DEF ReleaseObject
  <2>2. Live' = Live \ {o} /\ \A x \in Live' : manifest'[x] = manifest[x]
    BY <2>1, Zenon DEF Live, Restrict
  <2>3. ASSUME NEW c \in Chunk
        PROVE  /\ IsFiniteSet(Uses(manifest', c))
               /\ counts'[c] \in Nat /\ Cardinality(Uses(manifest', c)) <= counts'[c]
    <3>1. /\ IsFiniteSet(Uses(manifest, c)) /\ Cardinality(Uses(manifest, c)) <= counts[c]
          /\ counts[c] \in Nat /\ manifest[o] \in Seq(Chunk)
      BY <2>1, Zenon DEF PlaneInv
    <3>2. /\ IsFiniteSet(Uses(manifest', c))
          /\ Cardinality(Uses(manifest, c)) \in Nat /\ Cardinality(Uses(manifest', c)) \in Nat
          /\ Cardinality(Uses(manifest', c)) =
                Cardinality(Uses(manifest, c)) - Occurs(c, manifest[o])
      <4>1. PICK f, g : f = manifest /\ g = manifest'
        BY Zenon
      <4>2. o \in DOMAIN f /\ g = Restrict(f, DOMAIN f \ {o})
        BY <2>1, <4>1, Zenon DEF Live
      <4>3. QED
        BY <3>1, <4>1, <4>2, UsesRemoved, Zenon
    <3>3. Occurs(c, manifest[o]) \in Nat
      BY <3>1, PlacesFinite, Zenon
    <3>4. counts'[c] = IF counts[c] > Occurs(c, manifest[o])
                       THEN counts[c] - Occurs(c, manifest[o]) ELSE 0
      BY <2>1, Zenon
    <3>5. QED
      BY <3>1, <3>2, <3>3, <3>4, SMTT(30)
  <2>4. counts' \in [Chunk -> Nat]
    BY <2>1, <2>3, Zenon
  <2>5. PlaneInv'
    BY <1>0, <2>2, <2>3, <2>4, Zenon DEF PlaneInv
  <2>6. QED
    BY <1>0, <1>2, <2>2, <2>5, Zenon
<1>3. QED
  BY <1>1, <1>2, Zenon

LEMMA PlaneKept ==
    ASSUME PlaneInv, manifest' = manifest, objects' = objects, counts' \in [Chunk -> Nat],
           \A c \in Chunk : counts[c] <= counts'[c],
           \A o \in Live : Range(manifest[o]) \subseteq chunks'
    PROVE  PlaneInv' /\ Live' = Live
<1>1. Live' = Live
  BY Zenon DEF Live
<1>2. ASSUME NEW c \in Chunk
      PROVE  Cardinality(Uses(manifest, c)) <= counts'[c]
  <2>1. /\ Cardinality(Uses(manifest, c)) \in Nat
        /\ Cardinality(Uses(manifest, c)) <= counts[c] /\ counts[c] \in Nat
    BY FS_CardinalityType, Zenon DEF PlaneInv
  <2>2. counts[c] <= counts'[c] /\ counts'[c] \in Nat
    BY Zenon
  <2>3. QED
    BY <2>1, <2>2, SMTT(30)
<1>3. QED
  BY <1>1, <1>2, Zenon DEF PlaneInv

\* Roots of inodes are never taken away.
LEMMA RootedMore ==
    ASSUME NEW R, NEW S, NEW f, Rooted(R, f),
           \A i, o : <<"inode", i, o>> \in R => <<"inode", i, o>> \in S
    PROVE  Rooted(S, f)
  BY Zenon DEF Rooted

\* What an inode, or a row of a snapshot, names can be read.
LEMMA RootedIsReadable ==
    ASSUME PlaneInv, RootInv, NEW f, Rooted(roots, f), NEW i \in Inode, f[i] \in Object
    PROVE  Readable(f[i])
<1>1. f[i] \in Live
  <2>1. PICK j \in Inode : <<"inode", j, f[i]>> \in roots
    BY Zenon DEF Rooted
  <2>2. QED
    BY <2>1, Zenon DEF RootInv
<1>2. QED
  BY <1>1, Zenon DEF PlaneInv, Readable
\* A transaction of the plane that leaves the roots alone, and the objects
\* that they keep.
LEMMA PlaneAlone ==
    ASSUME StoreInv, PlaneInv', \A r \in roots : r[3] \in Live => r[3] \in Live',
           UNCHANGED <<meta, pins, files, roots, saved, snaps, writer, job>>
    PROVE  StoreInv'
<1>0. /\ inodes' = inodes /\ refs' = refs /\ trash' = trash /\ pins' = pins /\ files' = files
      /\ roots' = roots /\ saved' = saved /\ snaps' = snaps /\ writer' = writer /\ job' = job
  BY Zenon DEF meta
<1>1. ControlInv'
  BY <1>0, SMTT(30) DEF StoreInv, ControlInv
<1>2. BlobInv'
  BY <1>0, Zenon DEF StoreInv, BlobInv, Dump
<1>3. RootInv'
  BY <1>0, Zenon DEF StoreInv, RootInv
<1>4. QED
  BY <1>1, <1>2, <1>3, Zenon DEF StoreInv

LEMMA ManifestsAreSeqs == \A m \in Manifests : m \in Seq(Chunk)
<1>1. ASSUME NEW m \in Manifests PROVE m \in Seq(Chunk)
  <2>1. PICK n \in 1..MaxManifest : m \in [1..n -> Chunk]
    BY Zenon DEF Manifests
  <2>2. n \in Nat
    BY <2>1, StoreAssumption, SMTT(30)
  <2>3. QED
    BY <2>1, <2>2, SMTT(30)
<1>2. QED
  BY <1>1, Zenon

LEMMA PlaneStepKeeps == ASSUME StoreInv, PlaneStep PROVE StoreInv'
<1>0. PlaneInv /\ RootInv
  BY Zenon DEF StoreInv
<1>1. CASE WalkHome
  <2>1. PICK m \in Manifests : StoreObject(m, Range(m))
    BY <1>1, Zenon DEF WalkHome
  <2>2. m \in Seq(Chunk) /\ Range(m) \subseteq chunks \cup Range(m)
    BY ManifestsAreSeqs, Zenon
  <2>3. PlaneInv' /\ Live \subseteq Live'
    BY <1>0, <2>1, <2>2, PlaneStore, Zenon
  <2>4. QED
    BY <1>1, <2>3, PlaneAlone, Zenon DEF WalkHome
<1>2. CASE ReadOrphans
  <2>1. UNCHANGED plane
    BY <1>2, Zenon DEF ReadOrphans
  <2>2. PlaneInv' /\ Live' = Live
    BY <1>0, <2>1, Zenon DEF plane, PlaneInv, Live
  <2>3. QED
    BY <1>2, <2>2, PlaneAlone, Zenon DEF ReadOrphans, plane
<1>3. CASE QueueOrphans
  <2>1. PlaneInv' /\ Live' = Live
    BY <1>0, <1>3, Zenon DEF QueueOrphans, PlaneInv, Live
  <2>2. QED
    BY <1>3, <2>1, PlaneAlone, Zenon DEF QueueOrphans
<1>4. CASE FreeChunks
  <2>1. PICK expired \in SUBSET waste : chunks' = chunks \ {c \in expired : counts[c] = 0}
    BY <1>4, Zenon DEF FreeChunks
  <2>2. manifest' = manifest /\ objects' = objects /\ counts' = counts
    BY <1>4, Zenon DEF FreeChunks
  <2>3. ASSUME NEW o \in Live, NEW c \in Range(manifest[o]) PROVE c \in chunks'
    <3>1. c \in chunks
      BY <1>0, Zenon DEF PlaneInv
    <3>2. c \in Chunk /\ counts[c] > 0
      BY <1>0, UsedIsCounted, Zenon
    <3>3. counts[c] \in Nat
      BY <1>0, <3>2, Zenon DEF PlaneInv
    <3>4. QED
      BY <2>1, <3>1, <3>2, <3>3, SMTT(30)
  <2>4. counts' \in [Chunk -> Nat] /\ \A c \in Chunk : counts[c] <= counts'[c]
    BY <1>0, <2>2, SMTT(30) DEF PlaneInv
  <2>5. \A o \in Live : Range(manifest[o]) \subseteq chunks'
    BY <2>3, Zenon
  <2>6. PlaneInv' /\ Live' = Live
    BY <1>0, <2>2, <2>4, <2>5, PlaneKept, Zenon
  <2>7. QED
    BY <1>4, <2>6, PlaneAlone, Zenon DEF FreeChunks
<1>5. CASE \E o \in homes : ReleaseHome(o)
  <2>1. PICK o \in homes : ReleaseHome(o)
    BY <1>5, Zenon
  <2>2. ReleaseObject(o, roots)
    BY <2>1, Zenon DEF ReleaseHome
  <2>3. PlaneInv' /\ roots' = roots /\ \A r \in roots : r[3] \in Live => r[3] \in Live'
    BY <1>0, <2>2, PlaneRelease, Zenon
  <2>4. QED
    BY <2>1, <2>3, PlaneAlone, Zenon DEF ReleaseHome
<1>6. CASE \E c \in Chunk : RestoreChunk(c) \/ PullChunk(c)
  <2>1. PICK d \in Chunk : RestoreChunk(d) \/ PullChunk(d)
    BY <1>6, Zenon
  <2>2. manifest' = manifest /\ objects' = objects /\ chunks \subseteq chunks'
    BY <2>1, Zenon DEF RestoreChunk, PullChunk
  <2>3. counts' \in [Chunk -> Nat] /\ \A c \in Chunk : counts[c] <= counts'[c]
    <3>1. counts \in [Chunk -> Nat]
      BY <1>0, Zenon DEF PlaneInv
    <3>2. CASE RestoreChunk(d)
      BY <3>1, <3>2, SMTT(30) DEF RestoreChunk
    <3>3. CASE PullChunk(d)
      BY <3>1, <3>3, SMTT(30) DEF PullChunk
    <3>4. QED
      BY <2>1, <3>2, <3>3, Zenon
  <2>4. \A o \in Live : Range(manifest[o]) \subseteq chunks'
    BY <1>0, <2>2, Zenon DEF PlaneInv
  <2>5. PlaneInv' /\ Live' = Live
    BY <1>0, <2>2, <2>3, <2>4, PlaneKept, Zenon
  <2>6. UNCHANGED <<meta, pins, files, roots, saved, snaps, writer, job>>
    BY <2>1, Zenon DEF RestoreChunk, PullChunk
  <2>7. QED
    BY <2>5, <2>6, PlaneAlone, Zenon
<1>7. QED
  BY <1>1, <1>2, <1>3, <1>4, <1>5, <1>6, Zenon DEF PlaneStep
-----------------------------------------------------------------------------
(* Rows and references                                                     *)

LEMMA NamingFinite ==
    ASSUME NEW f, NEW b
    PROVE  IsFiniteSet(Naming(f, b)) /\ Cardinality(Naming(f, b)) \in Nat
<1>1. Naming(f, b) \in SUBSET Inode
  BY Zenon DEF Naming
<1>2. QED
  BY <1>1, StoreAssumption, FS_Subset, FS_CardinalityType, Zenon

\* No references, no rows.
LEMMA UnreferencedIsUnnamed ==
    ASSUME NEW d, Exact(d), NEW b \in Blob, d.refs[b] = 0
    PROVE  b \notin BlobsOf(d)
<1>1. Naming(d.inodes, b) = {}
  <2>1. Cardinality(Naming(d.inodes, b)) = 0
    BY Zenon DEF Exact
  <2>2. QED
    BY <2>1, NamingFinite, FS_EmptySet, Zenon
<1>2. d.inodes \in [Inode -> Content]
  BY Zenon DEF Exact, Table
<1>3. QED
  BY <1>1, <1>2, Zenon DEF Naming, BlobsOf, Range

\* A row that names a blob no longer: the blob's references go down by one.
Lowered(d, i) ==
    IF d.inodes[i] \in Blob
    THEN [d.refs EXCEPT ![d.inodes[i]] = IF @ = 0 THEN 0 ELSE @ - 1] ELSE d.refs

LEMMA RowLeaves ==
    ASSUME NEW d, Exact(d), NEW i \in Inode, NEW v \in Content, v \notin Blob,
           NEW f, f = [d.inodes EXCEPT ![i] = v],
           NEW q, q = Lowered(d, i), NEW t \in SUBSET Blob
    PROVE  /\ Exact([inodes |-> f, refs |-> q, trash |-> t])
           /\ BlobsOf([inodes |-> f, refs |-> q, trash |-> t]) \subseteq BlobsOf(d)
           /\ \A b \in Blob : d.refs[b] = 0 => q[b] = 0
<1> USE DEF Lowered
<1> DEFINE e == [inodes |-> f, refs |-> q, trash |-> t]
           w == d.inodes[i]
<1>1. /\ d.inodes \in [Inode -> Content] /\ d.refs \in [Blob -> Nat]
      /\ \A b \in Blob : d.refs[b] = Cardinality(Naming(d.inodes, b))
  BY Zenon DEF Exact, Table
<1>2. f \in [Inode -> Content] /\ q \in [Blob -> Nat]
  BY <1>1, SMTT(30)
<1>3. e.inodes = f /\ e.refs = q /\ e \in Table
  BY <1>2, Zenon DEF Table
<1>4. ASSUME NEW b \in Blob PROVE q[b] = Cardinality(Naming(f, b))
  <2>1. CASE b = w
    <3>1. Naming(f, b) = Naming(d.inodes, b) \ {i} /\ i \in Naming(d.inodes, b)
      BY <1>1, <2>1, Zenon DEF Naming
    <3>2. Cardinality(Naming(f, b)) = Cardinality(Naming(d.inodes, b)) - 1
      <4>1. IsFiniteSet(Naming(d.inodes, b))
        BY NamingFinite, Zenon
      <4>2. Cardinality(Naming(d.inodes, b) \ {i}) =
              IF i \in Naming(d.inodes, b) THEN Cardinality(Naming(d.inodes, b)) - 1
              ELSE Cardinality(Naming(d.inodes, b))
        BY ONLY <4>1, FS_RemoveElement, Zenon
      <4>3. QED
        BY ONLY <3>1, <4>2, Zenon
    <3>3. Cardinality(Naming(f, b)) \in Nat /\ Cardinality(Naming(d.inodes, b)) \in Nat
      BY NamingFinite, Zenon
    <3>4. q[b] = IF d.refs[b] = 0 THEN 0 ELSE d.refs[b] - 1
      BY <1>1, <2>1, Zenon
    <3>5. d.refs[b] = Cardinality(Naming(d.inodes, b))
      BY <1>1, Zenon
    <3>6. QED
      BY <3>2, <3>3, <3>4, <3>5, SMTT(30)
  <2>2. CASE b # w
    <3>1. Naming(f, b) = Naming(d.inodes, b)
      BY <1>1, <2>2, Zenon DEF Naming
    <3>2. q[b] = d.refs[b]
      BY <1>1, <2>2, Zenon
    <3>3. QED
      BY <1>1, <3>1, <3>2, Zenon
  <2>3. QED
    BY <2>1, <2>2, Zenon
<1>5. \A b \in Blob : d.refs[b] = 0 => q[b] = 0
  BY <1>1, Zenon
<1>6. BlobsOf(e) \subseteq BlobsOf(d)
  BY <1>1, <1>3, Zenon DEF BlobsOf, Range
<1>7. QED
  BY <1>3, <1>4, <1>5, <1>6, Zenon DEF Exact

\* A row that comes to name a blob.
Raised(d, b) == [d.refs EXCEPT ![b] = @ + 1]

LEMMA RowComes ==
    ASSUME NEW d, Exact(d), NEW i \in Inode, d.inodes[i] \notin Blob, NEW b \in Blob,
           NEW f, f = [d.inodes EXCEPT ![i] = b],
           NEW q, q = Raised(d, b), NEW t \in SUBSET Blob
    PROVE  /\ Exact([inodes |-> f, refs |-> q, trash |-> t])
           /\ \A x \in BlobsOf([inodes |-> f, refs |-> q, trash |-> t]) : x \in BlobsOf(d) \/ x = b
<1> USE DEF Raised
<1> DEFINE e == [inodes |-> f, refs |-> q, trash |-> t]
<1>1. /\ d.inodes \in [Inode -> Content] /\ d.refs \in [Blob -> Nat]
      /\ \A c \in Blob : d.refs[c] = Cardinality(Naming(d.inodes, c))
  BY Zenon DEF Exact, Table
<1>2. f \in [Inode -> Content] /\ q \in [Blob -> Nat]
  BY <1>1, SMTT(30) DEF Content
<1>3. e.inodes = f /\ e.refs = q /\ e \in Table
  BY <1>2, Zenon DEF Table
<1>4. ASSUME NEW c \in Blob PROVE q[c] = Cardinality(Naming(f, c))
  <2>1. CASE c = b
    <3>1. Naming(f, c) = Naming(d.inodes, c) \cup {i} /\ i \notin Naming(d.inodes, c)
      BY <1>1, <2>1, Zenon DEF Naming
    <3>2. Cardinality(Naming(f, c)) = Cardinality(Naming(d.inodes, c)) + 1
      BY <3>1, NamingFinite, FS_AddElement, Zenon
    <3>3. QED
      BY <1>1, <2>1, <3>2, Zenon
  <2>2. CASE c # b
    <3>1. Naming(f, c) = Naming(d.inodes, c)
      BY <1>1, <2>2, Zenon DEF Naming
    <3>2. q[c] = d.refs[c]
      BY <1>1, <2>2, Zenon
    <3>3. QED
      BY <1>1, <3>1, <3>2, Zenon
  <2>3. QED
    BY <2>1, <2>2, Zenon
<1>5. \A x \in BlobsOf(e) : x \in BlobsOf(d) \/ x = b
  BY <1>1, <1>3, Zenon DEF BlobsOf, Range
<1>6. QED
  BY <1>3, <1>4, <1>5, Zenon DEF Exact
-----------------------------------------------------------------------------
(* Writes                                                                  *)

LEMMA PublishKeeps == ASSUME StoreInv, NEW i \in Inode, Publish(i) PROVE StoreInv'
<1>0. PlaneInv /\ RootInv /\ ControlInv /\ BlobInv
  BY Zenon DEF StoreInv
<1> DEFINE base == IF writer.pc = "adopt" THEN writer.object ELSE inodes[i]
           kept == IF base \in Live THEN {<<>>, manifest[base]} ELSE {<<>>}
<1>1. PICK k \in kept, new \in Manifests \cup {<<>>} :
        Range(k) \subseteq chunks /\ StoreObject(k \o new, Range(new))
  BY Zenon DEF Publish
<1>2. <<>> \in Seq(Chunk)
  BY SMTT(30)
<1>3. k \in Seq(Chunk)
  <2>1. k = <<>> \/ (base \in Live /\ k = manifest[base])
    BY <1>1, Zenon
  <2> HIDE DEF base
  <2>2. QED
    BY <1>0, <1>2, <2>1, Zenon DEF PlaneInv
<1> HIDE DEF kept, base
<1>4. new \in Seq(Chunk)
  BY <1>1, <1>2, ManifestsAreSeqs, Zenon
<1>5. k \o new \in Seq(Chunk) /\ Range(k \o new) \subseteq chunks \cup Range(new)
  <2>1. ASSUME NEW j \in DOMAIN (k \o new)
        PROVE  (k \o new)[j] \in Range(k) \cup Range(new)
    <3>1. CASE j <= Len(k)
      BY <1>3, <1>4, <3>1, SMTT(30) DEF Range
    <3>2. CASE ~ (j <= Len(k))
      <4>1. /\ j \in Nat /\ j - Len(k) \in 1..Len(new)
            /\ (k \o new)[j] = new[j - Len(k)]
        BY <1>3, <1>4, <3>2, SMTT(30)
      <4>2. QED
        BY <1>4, <4>1, SMTT(30) DEF Range
    <3>3. QED
      BY <3>1, <3>2, Zenon
  <2>2. QED
    BY <1>1, <1>3, <1>4, <2>1, SMTT(30) DEF Range
<1>6. PlaneInv' /\ Live \subseteq Live' /\ objects' \in Object
  BY <1>0, <1>1, <1>5, PlaneStore, Zenon
<1>7. /\ inodes' = inodes /\ refs' = refs /\ trash' = trash /\ pins' = pins /\ files' = files
      /\ roots' = roots /\ saved' = saved /\ snaps' = snaps /\ job' = job
      /\ writer' = [pc |-> "retain", inode |-> i, object |-> objects']
  BY Zenon DEF Publish, meta
<1>8. ControlInv'
  <2>1. writer' \in WriterType /\ writer'.inode \in Inode /\ writer'.object \in Object
    BY <1>6, <1>7, Zenon DEF WriterType
  <2>2. job.pc \notin {"create", "remove"}
    BY <1>0, Zenon DEF Publish, Unlocked, ControlInv
  <2>3. QED
    BY <1>0, <1>7, <2>1, <2>2, Zenon DEF ControlInv
<1>9. BlobInv'
  BY <1>0, <1>7, Zenon DEF BlobInv, Dump
<1>10. RootInv'
  <2>1. writer'.pc # "adopt"
    BY <1>7, Zenon
  <2>2. QED
    BY <1>0, <1>6, <1>7, <2>1, Zenon DEF RootInv
<1>11. QED
  BY <1>6, <1>8, <1>9, <1>10, Zenon DEF StoreInv

LEMMA RetainKeeps == ASSUME StoreInv, Retain PROVE StoreInv'
<1>0. PlaneInv /\ RootInv /\ ControlInv /\ BlobInv
  BY Zenon DEF StoreInv
<1>1. /\ inodes' = inodes /\ refs' = refs /\ trash' = trash /\ pins' = pins /\ files' = files
      /\ saved' = saved /\ snaps' = snaps /\ job' = job
      /\ manifest' = manifest /\ chunks' = chunks /\ counts' = counts /\ objects' = objects
      /\ writer.object \in Live /\ writer.pc = "retain"
      /\ roots' = roots \cup {<<"inode", writer.inode, writer.object>>}
  BY Zenon DEF Retain, meta
<1>2. writer' \in WriterType /\ writer'.inode = writer.inode /\ writer'.object = writer.object
  <2>1. writer' = [writer EXCEPT !.pc = "adopt"]
    BY Zenon DEF Retain
  <2>2. QED
    BY <1>0, <2>1, Zenon DEF ControlInv, WriterType
<1>3. ControlInv'
  BY <1>0, <1>1, <1>2, Zenon DEF ControlInv
<1>4. BlobInv'
  BY <1>0, <1>1, Zenon DEF BlobInv, Dump
<1>5. PlaneInv' /\ Live' = Live
  BY <1>0, <1>1, Zenon DEF PlaneInv, Live
<1>6. RootInv'
  <2>1. \A r \in roots' : r[3] \in Live'
    BY <1>0, <1>1, <1>5, SMTT(30) DEF RootInv
  <2>2. \A x, o : <<"inode", x, o>> \in roots => <<"inode", x, o>> \in roots'
    BY <1>1, Zenon
  <2>3. <<"inode", writer'.inode, writer'.object>> \in roots'
    BY <1>1, <1>2, Zenon
  <2>4. \A f : Rooted(roots, f) => Rooted(roots', f)
    BY <2>2, RootedMore, Zenon
  <2>5. QED
    BY <1>0, <1>1, <2>1, <2>3, <2>4, Zenon DEF RootInv
<1>7. QED
  BY <1>3, <1>4, <1>5, <1>6, Zenon DEF StoreInv

LEMMA GiveUpKeeps ==
    ASSUME StoreInv, writer' = writer \/ writer' = NoWriter, job' = job \/ job' = NoJob,
           UNCHANGED <<meta, pins, files, plane, saved, snaps>>
    PROVE  StoreInv'
<1>0. PlaneInv /\ RootInv /\ ControlInv /\ BlobInv
  BY Zenon DEF StoreInv
<1>1. /\ inodes' = inodes /\ refs' = refs /\ trash' = trash /\ pins' = pins /\ files' = files
      /\ saved' = saved /\ snaps' = snaps
      /\ manifest' = manifest /\ chunks' = chunks /\ counts' = counts /\ objects' = objects
      /\ roots' = roots
  BY Zenon DEF meta, plane
<1>2. /\ writer' \in WriterType
      /\ writer'.pc = "idle" \/ writer' = writer
  BY <1>0, SMTT(30) DEF WriterType, NoWriter, ControlInv
<1>3. /\ job' \in JobType
      /\ job'.pc = "idle" \/ job' = job
  BY <1>0, SMTT(30) DEF JobType, JobPc, NoJob, ControlInv
<1>4. ControlInv'
  BY <1>0, <1>1, <1>2, <1>3, SMTT(30) DEF ControlInv
<1>5. BlobInv'
  BY <1>0, <1>1, <1>3, Zenon DEF BlobInv, Dump
<1>6. PlaneInv' /\ Live' = Live
  BY <1>0, <1>1, Zenon DEF PlaneInv, Live
<1>7. RootInv'
  BY <1>0, <1>1, <1>2, <1>3, <1>6, Zenon DEF RootInv
<1>8. QED
  BY <1>4, <1>5, <1>6, <1>7, Zenon DEF StoreInv
LEMMA AdoptKeeps == ASSUME StoreInv, Adopt PROVE StoreInv'
<1>0. PlaneInv /\ RootInv /\ ControlInv /\ BlobInv
  BY Zenon DEF StoreInv
<1>1. /\ pins' = pins /\ files' = files /\ saved' = saved /\ snaps' = snaps /\ job' = job
      /\ manifest' = manifest /\ chunks' = chunks /\ counts' = counts /\ objects' = objects
      /\ roots' = roots /\ writer.pc = "adopt" /\ writer' = NoWriter
  BY Zenon DEF Adopt, plane
<1>2. /\ writer.inode \in Inode /\ writer.object \in Object
      /\ job.pc \notin {"create", "remove"}
      /\ <<"inode", writer.inode, writer.object>> \in roots
  BY <1>0, <1>1, Zenon DEF ControlInv, RootInv
<1>3. PICK i, v : i = writer.inode /\ v = writer.object
  BY Zenon
<1>4. /\ Exact(Dump) /\ Dump.inodes = inodes /\ Dump.refs = refs /\ Dump.trash = trash
      /\ inodes \in [Inode -> Content] /\ refs \in [Blob -> Nat] /\ trash \in SUBSET Blob
  BY <1>0, Zenon DEF BlobInv, Dump, Exact, Table
<1>5. /\ inodes' = [inodes EXCEPT ![i] = v]
      /\ refs' = IF inodes[i] \in Blob
                 THEN [refs EXCEPT ![inodes[i]] = IF @ = 0 THEN 0 ELSE @ - 1] ELSE refs
      /\ trash' \in SUBSET Blob
  BY <1>3, <1>4, SMTT(30) DEF Adopt
<1>6. i \in Inode /\ v \in Content /\ v \notin Blob /\ v \in Object
  BY <1>2, <1>3, StoreAssumption, Zenon DEF Content
<1>7. /\ Exact(Dump') /\ BlobsOf(Dump') \subseteq BlobsOf(Dump)
      /\ \A b \in Blob : refs[b] = 0 => refs'[b] = 0
  <2>1. PICK d, f, q, t : d = Dump /\ f = inodes' /\ q = refs' /\ t = trash'
    BY Zenon
  <2>2. /\ Exact(d) /\ f = [d.inodes EXCEPT ![i] = v] /\ t \in SUBSET Blob
        /\ q = Lowered(d, i)
    BY <1>4, <1>5, <2>1, Zenon DEF Lowered
  <2>3. /\ Exact([inodes |-> f, refs |-> q, trash |-> t])
        /\ BlobsOf([inodes |-> f, refs |-> q, trash |-> t]) \subseteq BlobsOf(d)
        /\ \A b \in Blob : d.refs[b] = 0 => q[b] = 0
    BY ONLY <1>6, <2>2, RowLeaves, ZenonT(30)
  <2>4. Dump' = [inodes |-> f, refs |-> q, trash |-> t]
    BY <2>1, Zenon DEF Dump
  <2>5. QED
    BY <1>4, <2>1, <2>3, <2>4, Zenon
<1>8. ControlInv'
  <2>1. writer' \in WriterType /\ writer'.pc = "idle"
    BY <1>1, Zenon DEF WriterType, NoWriter
  <2>2. QED
    BY <1>0, <1>1, <2>1, Zenon DEF ControlInv
<1>9. BlobInv'
  BY <1>0, <1>1, <1>2, <1>7, Zenon DEF BlobInv
<1>10. PlaneInv' /\ Live' = Live
  BY <1>0, <1>1, Zenon DEF PlaneInv, Live
<1>11. RootInv'
  <2>1. Rooted(roots, inodes')
    BY <1>0, <1>2, <1>3, <1>4, <1>5, Zenon DEF RootInv, Rooted
  <2>2. writer'.pc # "adopt"
    BY <1>1, Zenon DEF NoWriter
  <2>3. QED
    BY <1>0, <1>1, <1>10, <2>1, <2>2, Zenon DEF RootInv
<1>12. QED
  BY <1>8, <1>9, <1>10, <1>11, Zenon DEF StoreInv

LEMMA WriteStepKeeps == ASSUME StoreInv, WriteStep PROVE StoreInv'
<1>1. CASE GiveUp
  BY <1>1, GiveUpKeeps, Zenon DEF GiveUp
<1>2. QED
  BY <1>1, PublishKeeps, RetainKeeps, AdoptKeeps, Zenon DEF WriteStep
-----------------------------------------------------------------------------
(* Snapshots                                                               *)

LEMMA CopyTablesKeeps ==
    ASSUME StoreInv, NEW t \in Snap \cup {None}, CopyTables(t) PROVE StoreInv'
<1>0. PlaneInv /\ RootInv /\ ControlInv /\ BlobInv
  BY Zenon DEF StoreInv
<1>1. /\ inodes' = inodes /\ refs' = refs /\ trash' = trash /\ pins' = pins /\ files' = files
      /\ saved' = saved /\ writer' = writer /\ roots' = roots
      /\ manifest' = manifest /\ chunks' = chunks /\ counts' = counts /\ objects' = objects
      /\ snaps < MaxSnaps /\ snaps' = snaps + 1
      /\ t # None => saved[t] # None
  BY Zenon DEF CopyTables, meta, plane
<1>2. Exact(Dump) /\ Dump \in Table /\ BlobsOf(Dump) \subseteq files
  BY <1>0, Zenon DEF BlobInv, Exact
<1>3. snaps' \in Snap /\ snaps \in Nat /\ snaps' \in 0..MaxSnaps
  BY <1>0, <1>1, StoreAssumption, SMTT(30) DEF ControlInv, Snap
<1>4. /\ job'.pc = "pin" /\ job'.snap = snaps' /\ job'.dump = Dump /\ job'.target = t
      /\ job' \in JobType
  BY <1>2, <1>3, Zenon DEF CopyTables, JobType, JobPc
<1>5. ControlInv'
  <2>1. saved[snaps'] = None
    BY <1>0, <1>1, <1>3, SMTT(30) DEF ControlInv
  <2>2. snaps' <= snaps' /\ \A s \in Snap : s > snaps' => s > snaps
    BY <1>1, <1>3, SMTT(30) DEF Snap
  <2>3. QED
    BY <1>0, <1>1, <1>3, <1>4, <2>1, <2>2, Zenon DEF ControlInv
<1>6. BlobInv'
  <2>1. Dump' = Dump
    BY <1>1, Zenon DEF Dump
  <2>2. QED
    BY <1>0, <1>1, <1>2, <1>4, <2>1, Zenon DEF BlobInv
<1>7. PlaneInv' /\ Live' = Live
  BY <1>0, <1>1, Zenon DEF PlaneInv, Live
<1>8. RootInv'
  <2>1. Rooted(roots, Dump.inodes)
    BY <1>0, Zenon DEF RootInv, Dump
  <2>2. QED
    BY <1>0, <1>1, <1>4, <1>7, <2>1, Zenon DEF RootInv
<1>9. QED
  BY <1>5, <1>6, <1>7, <1>8, Zenon DEF StoreInv

LEMMA PinBlobsKeeps == ASSUME StoreInv, PinBlobs PROVE StoreInv'
<1>0. PlaneInv /\ RootInv /\ ControlInv /\ BlobInv
  BY Zenon DEF StoreInv
<1>1. /\ inodes' = inodes /\ refs' = refs /\ trash' = trash /\ files' = files
      /\ saved' = saved /\ snaps' = snaps /\ writer' = writer /\ roots' = roots
      /\ manifest' = manifest /\ chunks' = chunks /\ counts' = counts /\ objects' = objects
      /\ pins' = pins \cup ({job.snap} \X BlobsOf(job.dump)) /\ job.pc = "pin"
  BY Zenon DEF PinBlobs, meta, plane
<1>2. /\ job'.pc = "retain" /\ job'.snap = job.snap /\ job'.dump = job.dump
      /\ job'.target = job.target /\ job' \in JobType
  <2>1. job \in JobType
    BY <1>0, Zenon DEF ControlInv
  <2>2. ObjectsOf(job.dump) \in SUBSET (Blob \cup Object)
    BY Zenon DEF ObjectsOf
  <2>3. job' = [job EXCEPT !.pc = "retain", !.todo = ObjectsOf(job.dump)]
    BY Zenon DEF PinBlobs
  <2>4. QED
    BY <2>1, <2>2, <2>3, Zenon DEF JobType, JobPc
<1>3. ControlInv'
  BY <1>0, <1>1, <1>2, Zenon DEF ControlInv
<1>4. BlobInv'
  <2>1. Dump' = Dump
    BY <1>1, Zenon DEF Dump
  <2>2. QED
    BY <1>0, <1>1, <1>2, <2>1, Zenon DEF BlobInv
<1>5. PlaneInv' /\ Live' = Live
  BY <1>0, <1>1, Zenon DEF PlaneInv, Live
<1>6. RootInv'
  BY <1>0, <1>1, <1>2, <1>5, Zenon DEF RootInv
<1>7. QED
  BY <1>3, <1>4, <1>5, <1>6, Zenon DEF StoreInv

LEMMA RetainObjectKeeps == ASSUME StoreInv, RetainObject PROVE StoreInv'
<1>0. PlaneInv /\ RootInv /\ ControlInv /\ BlobInv
  BY Zenon DEF StoreInv
<1>1. /\ inodes' = inodes /\ refs' = refs /\ trash' = trash /\ files' = files /\ pins' = pins
      /\ saved' = saved /\ snaps' = snaps /\ writer' = writer
      /\ manifest' = manifest /\ chunks' = chunks /\ counts' = counts /\ objects' = objects
      /\ job.pc = "retain"
  BY Zenon DEF RetainObject, meta
<1>2. PICK o \in job.todo \cap Live :
        /\ roots' = roots \cup {<<"snapshot", job.snap, o>>}
        /\ job' = [job EXCEPT !.todo = @ \ {o}]
  BY Zenon DEF RetainObject
<1>3. /\ job'.pc = job.pc /\ job'.snap = job.snap /\ job'.dump = job.dump
      /\ job'.target = job.target /\ job' \in JobType
  BY <1>0, <1>2, Zenon DEF ControlInv, JobType, JobPc
<1>4. ControlInv'
  BY <1>0, <1>1, <1>3, Zenon DEF ControlInv
<1>5. BlobInv'
  <2>1. Dump' = Dump
    BY <1>1, Zenon DEF Dump
  <2>2. QED
    BY <1>0, <1>1, <1>3, <2>1, Zenon DEF BlobInv
<1>6. PlaneInv' /\ Live' = Live
  BY <1>0, <1>1, Zenon DEF PlaneInv, Live
<1>7. RootInv'
  <2>1. \A r \in roots' : r[3] \in Live'
    BY <1>0, <1>2, <1>6, SMTT(30) DEF RootInv
  <2>2. \A x, p : <<"inode", x, p>> \in roots => <<"inode", x, p>> \in roots'
    BY <1>2, Zenon
  <2>3. \A f : Rooted(roots, f) => Rooted(roots', f)
    BY <2>2, RootedMore, Zenon
  <2>4. QED
    BY <1>0, <1>1, <1>3, <2>1, <2>2, <2>3, Zenon DEF RootInv
<1>8. QED
  BY <1>4, <1>5, <1>6, <1>7, Zenon DEF StoreInv
LEMMA SaveKeeps == ASSUME StoreInv, Save PROVE StoreInv'
<1>0. PlaneInv /\ RootInv /\ ControlInv /\ BlobInv
  BY Zenon DEF StoreInv
<1>1. /\ inodes' = inodes /\ refs' = refs /\ trash' = trash /\ files' = files /\ pins' = pins
      /\ snaps' = snaps /\ writer' = writer /\ roots' = roots
      /\ manifest' = manifest /\ chunks' = chunks /\ counts' = counts /\ objects' = objects
      /\ job.pc = "retain" /\ saved' = [saved EXCEPT ![job.snap] = job.dump]
  BY Zenon DEF Save, meta, plane
<1>2. /\ job.snap \in Snap /\ saved \in [Snap -> Table \cup {None}] /\ job \in JobType
      /\ Exact(job.dump) /\ job.dump \in Table /\ job.dump # None
      /\ BlobsOf(job.dump) \subseteq files /\ {job.snap} \X BlobsOf(job.dump) \subseteq pins
      /\ Rooted(roots, job.dump.inodes) /\ job.snap <= snaps
  <2>1. Exact(job.dump) /\ job.dump \in Table
    BY <1>0, <1>1, Zenon DEF BlobInv, Exact
  <2>2. job.dump # None
    BY <2>1, StoreAssumption, Zenon DEF Table
  <2>3. QED
    BY <1>0, <1>1, <2>1, <2>2, Zenon DEF ControlInv, BlobInv, RootInv
<1>3. /\ saved' \in [Snap -> Table \cup {None}] /\ saved'[job.snap] = job.dump
      /\ \A s \in Snap : s # job.snap => saved'[s] = saved[s]
  BY <1>1, <1>2, Zenon
<1>4. /\ job' \in JobType
      /\ \/ job'.pc = "idle"
         \/ /\ job'.pc = "restore" /\ job'.snap = job.snap /\ job'.target = job.target
            /\ job.target # None
  <2>1. CASE job.target = None
    <3>1. job' = NoJob
      BY <2>1, Zenon DEF Save
    <3>2. QED
      BY <3>1, Zenon DEF NoJob, JobType, JobPc
  <2>2. CASE job.target # None
    <3>1. job' = [job EXCEPT !.pc = "restore"]
      BY <2>2, Zenon DEF Save
    <3>2. QED
      BY <1>2, <2>2, <3>1, Zenon DEF JobType, JobPc
  <2>3. QED
    BY <2>1, <2>2, Zenon
<1>5. ControlInv'
  <2>1. \A s \in Snap : s > snaps' => saved'[s] = None
    <3>1. ASSUME NEW s \in Snap, s > snaps PROVE saved'[s] = None
      <4>1. s # job.snap
        BY <1>0, <1>2, <3>1, SMTT(30) DEF ControlInv, Snap
      <4>2. QED
        BY <1>0, <1>3, <3>1, <4>1, Zenon DEF ControlInv
    <3>2. QED
      BY <1>1, <3>1, Zenon
  <2>2. job'.pc = "restore" =>
          /\ job'.snap \in Snap /\ saved'[job'.snap] # None
          /\ job'.target \in Snap /\ saved'[job'.target] # None /\ job'.target # None
    BY <1>0, <1>1, <1>2, <1>3, <1>4, Zenon DEF ControlInv
  <2>3. QED
    BY <1>0, <1>1, <1>4, <2>1, <2>2, Zenon DEF ControlInv
<1>6. BlobInv'
  <2>1. Dump' = Dump
    BY <1>1, Zenon DEF Dump
  <2>2. ASSUME NEW s \in Snap, saved'[s] # None
        PROVE  /\ Exact(saved'[s]) /\ BlobsOf(saved'[s]) \subseteq files
               /\ {s} \X BlobsOf(saved'[s]) \subseteq pins
    <3>1. CASE s = job.snap
      BY <1>2, <1>3, <3>1, Zenon
    <3>2. CASE s # job.snap
      BY <1>0, <1>3, <2>2, <3>2, Zenon DEF BlobInv
    <3>3. QED
      BY <3>1, <3>2, Zenon
  <2>3. QED
    BY <1>0, <1>1, <1>3, <1>4, <2>1, <2>2, Zenon DEF BlobInv
<1>7. PlaneInv' /\ Live' = Live
  BY <1>0, <1>1, Zenon DEF PlaneInv, Live
<1>8. RootInv'
  <2>1. ASSUME NEW s \in Snap, saved'[s] # None PROVE Rooted(roots, saved'[s].inodes)
    <3>1. CASE s = job.snap
      BY <1>2, <1>3, <3>1, Zenon
    <3>2. CASE s # job.snap
      BY <1>0, <1>3, <2>1, <3>2, Zenon DEF RootInv
    <3>3. QED
      BY <3>1, <3>2, Zenon
  <2>2. QED
    BY <1>0, <1>1, <1>4, <1>7, <2>1, Zenon DEF RootInv
<1>9. QED
  BY <1>5, <1>6, <1>7, <1>8, Zenon DEF StoreInv

LEMMA RetireKeeps == ASSUME StoreInv, NEW t \in Snap, Retire(t) PROVE StoreInv'
<1>0. PlaneInv /\ RootInv /\ ControlInv /\ BlobInv
  BY Zenon DEF StoreInv
<1>1. /\ inodes' = inodes /\ refs' = refs /\ trash' = trash /\ files' = files /\ pins' = pins
      /\ snaps' = snaps /\ writer' = writer /\ roots' = roots
      /\ manifest' = manifest /\ chunks' = chunks /\ counts' = counts /\ objects' = objects
      /\ saved' = [saved EXCEPT ![t] = None]
  BY Zenon DEF Retire, meta, plane
<1>2. /\ saved' \in [Snap -> Table \cup {None}] /\ saved'[t] = None
      /\ \A s \in Snap : s # t => saved'[s] = saved[s]
  BY <1>0, <1>1, Zenon DEF BlobInv
<1>3. job'.pc = "unpin" /\ job'.snap = t /\ job' \in JobType
  <2>1. ObjectsOf(saved[t]) \in SUBSET (Blob \cup Object)
    BY Zenon DEF ObjectsOf
  <2>2. job' = [NoJob EXCEPT !.pc = "unpin", !.snap = t, !.todo = ObjectsOf(saved[t])]
    BY Zenon DEF Retire
  <2>3. QED
    BY <2>1, <2>2, Zenon DEF NoJob, JobType, JobPc
<1>4. ControlInv'
  <2>1. \A s \in Snap : saved'[s] = saved[s] \/ saved'[s] = None
    BY <1>2, Zenon
  <2>2. QED
    BY <1>0, <1>1, <1>2, <1>3, <2>1, Zenon DEF ControlInv
<1>5. BlobInv'
  <2>1. Dump' = Dump
    BY <1>1, Zenon DEF Dump
  <2>2. \A s \in Snap : saved'[s] # None => saved'[s] = saved[s]
    BY <1>2, Zenon
  <2>3. QED
    BY <1>0, <1>1, <1>2, <1>3, <2>1, <2>2, Zenon DEF BlobInv
<1>6. PlaneInv' /\ Live' = Live
  BY <1>0, <1>1, Zenon DEF PlaneInv, Live
<1>7. RootInv'
  <2>1. \A s \in Snap : saved'[s] # None => saved'[s] = saved[s]
    BY <1>2, Zenon
  <2>2. QED
    BY <1>0, <1>1, <1>3, <1>6, <2>1, Zenon DEF RootInv
<1>8. QED
  BY <1>4, <1>5, <1>6, <1>7, Zenon DEF StoreInv

LEMMA UnpinKeeps == ASSUME StoreInv, Unpin PROVE StoreInv'
<1>0. PlaneInv /\ RootInv /\ ControlInv /\ BlobInv
  BY Zenon DEF StoreInv
<1>1. /\ inodes' = inodes /\ refs' = refs /\ trash' = trash /\ files' = files
      /\ saved' = saved /\ snaps' = snaps /\ writer' = writer /\ roots' = roots
      /\ manifest' = manifest /\ chunks' = chunks /\ counts' = counts /\ objects' = objects
      /\ job.pc = "unpin" /\ (pins' = {p \in pins : p[1] # job.snap} \/ pins' = pins)
  BY Zenon DEF Unpin, meta, plane
<1>2. /\ job'.pc = "release" /\ job'.snap = job.snap /\ job' \in JobType
      /\ saved[job.snap] = None
  <2>1. job' = [job EXCEPT !.pc = "release"]
    BY Zenon DEF Unpin
  <2>2. QED
    BY <1>0, <1>1, <2>1, Zenon DEF ControlInv, JobType, JobPc
<1>3. ControlInv'
  BY <1>0, <1>1, <1>2, Zenon DEF ControlInv
<1>4. BlobInv'
  <2>1. Dump' = Dump
    BY <1>1, Zenon DEF Dump
  <2>2. ASSUME NEW s \in Snap, saved[s] # None PROVE {s} \X BlobsOf(saved[s]) \subseteq pins'
    <3>1. s # job.snap
      BY <1>2, <2>2, Zenon
    <3>2. ASSUME NEW b \in BlobsOf(saved[s]) PROVE <<s, b>> \in pins'
      <4>1. <<s, b>> \in pins
        BY <1>0, <2>2, Zenon DEF BlobInv
      <4>2. QED
        BY <1>1, <3>1, <4>1, Zenon
    <3>3. QED
      BY <3>2, SMTT(30)
  <2>3. QED
    BY <1>0, <1>1, <1>2, <2>1, <2>2, Zenon DEF BlobInv
<1>5. PlaneInv' /\ Live' = Live
  BY <1>0, <1>1, Zenon DEF PlaneInv, Live
<1>6. RootInv'
  BY <1>0, <1>1, <1>2, <1>5, Zenon DEF RootInv
<1>7. QED
  BY <1>3, <1>4, <1>5, <1>6, Zenon DEF StoreInv
LEMMA ReleaseRootKeeps == ASSUME StoreInv, ReleaseRoot PROVE StoreInv'
<1>0. PlaneInv /\ RootInv /\ ControlInv /\ BlobInv
  BY Zenon DEF StoreInv
<1>1. /\ inodes' = inodes /\ refs' = refs /\ trash' = trash /\ files' = files /\ pins' = pins
      /\ saved' = saved /\ snaps' = snaps /\ writer' = writer /\ job.pc = "release"
  BY Zenon DEF ReleaseRoot, meta
<1>2. PICK o \in job.todo :
        /\ \/ ReleaseObject(o, roots \ {<<"snapshot", job.snap, o>>})
           \/ UNCHANGED plane
        /\ job' = IF job.todo = {o} THEN NoJob ELSE [job EXCEPT !.todo = @ \ {o}]
  BY Zenon DEF ReleaseRoot
<1>3. /\ job' \in JobType
      /\ job'.pc = "idle" \/ (job'.pc = "release" /\ job'.snap = job.snap)
  <2>1. CASE job' = NoJob
    BY <2>1, Zenon DEF NoJob, JobType, JobPc
  <2>2. CASE job' = [job EXCEPT !.todo = @ \ {o}]
    BY <1>0, <1>1, <2>2, Zenon DEF ControlInv, JobType, JobPc
  <2>3. QED
    BY <1>2, <2>1, <2>2, Zenon
<1>4. ControlInv'
  BY <1>0, <1>1, <1>3, Zenon DEF ControlInv
<1>5. BlobInv'
  <2>1. Dump' = Dump
    BY <1>1, Zenon DEF Dump
  <2>2. QED
    BY <1>0, <1>1, <1>3, <2>1, Zenon DEF BlobInv
<1>6. /\ PlaneInv' /\ \A r \in roots' : r[3] \in Live'
      /\ \A x, p : <<"inode", x, p>> \in roots => <<"inode", x, p>> \in roots'
  <2>1. CASE ReleaseObject(o, roots \ {<<"snapshot", job.snap, o>>})
    <3>1. PICK left : left = roots \ {<<"snapshot", job.snap, o>>}
      BY Zenon
    <3>2. /\ PlaneInv' /\ roots' = left
          /\ \A r \in left : r[3] \in Live => r[3] \in Live'
      <4>1. ReleaseObject(o, left)
        BY <2>1, <3>1, Zenon
      <4>2. QED
        BY <1>0, <4>1, PlaneRelease, Zenon
    <3>3. \A x, p : <<"inode", x, p>> # <<"snapshot", job.snap, o>>
      BY Zenon
    <3>4. QED
      BY <1>0, <3>1, <3>2, <3>3, Zenon DEF RootInv
  <2>2. CASE UNCHANGED plane
    BY <1>0, <2>2, Zenon DEF plane, PlaneInv, Live, RootInv
  <2>3. QED
    BY <1>2, <2>1, <2>2, Zenon
<1>7. RootInv'
  <2>1. \A f : Rooted(roots, f) => Rooted(roots', f)
    BY <1>6, RootedMore, Zenon
  <2>2. QED
    BY <1>0, <1>1, <1>3, <1>6, <2>1, Zenon DEF RootInv
<1>8. QED
  BY <1>4, <1>5, <1>6, <1>7, Zenon DEF StoreInv

-----------------------------------------------------------------------------
(* Restores                                                                *)

\* A saved copy replaces the tables while no write is under way.
LEMMA InstallKeeps ==
    ASSUME StoreInv, NEW t \in Snap, saved[t] # None, Install(saved[t]), writer.pc = "idle",
           job' \in JobType, job'.pc \in {"idle", "restored"},
           job'.pc = "restored" =>
              /\ job'.snap \in Snap /\ saved[job'.snap] # None
              /\ job'.target \in Snap /\ saved[job'.target] # None /\ job'.target # None,
           UNCHANGED <<pins, files, plane, saved, snaps, writer>>
    PROVE  StoreInv'
<1>0. PlaneInv /\ RootInv /\ ControlInv /\ BlobInv
  BY Zenon DEF StoreInv
<1>1. /\ files' = files /\ pins' = pins /\ roots' = roots
      /\ saved' = saved /\ snaps' = snaps /\ writer' = writer
      /\ manifest' = manifest /\ chunks' = chunks /\ counts' = counts /\ objects' = objects
  BY Zenon DEF plane
<1>2. /\ Exact(saved[t]) /\ BlobsOf(saved[t]) \subseteq files
      /\ Rooted(roots, saved[t].inodes)
  BY <1>0, Zenon DEF BlobInv, RootInv
<1>3. Dump' = saved[t] /\ inodes' = saved[t].inodes
  <2>1. saved[t] \in Table
    BY <1>2, Zenon DEF Exact
  <2>2. QED
    BY <2>1, Zenon DEF Install, Dump, Table
<1>4. ControlInv'
  BY <1>0, <1>1, Zenon DEF ControlInv
<1>5. BlobInv'
  BY <1>0, <1>1, <1>2, <1>3, Zenon DEF BlobInv
<1>6. PlaneInv' /\ Live' = Live
  BY <1>0, <1>1, Zenon DEF PlaneInv, Live
<1>7. RootInv'
  BY <1>0, <1>1, <1>2, <1>3, <1>6, Zenon DEF RootInv
<1>8. QED
  BY <1>4, <1>5, <1>6, <1>7, Zenon DEF StoreInv

LEMMA CommitRestoreKeeps == ASSUME StoreInv, CommitRestore PROVE StoreInv'
<1>0. ControlInv
  BY Zenon DEF StoreInv
<1>1. job.pc = "restore" /\ writer.pc = "idle" /\ job' = [job EXCEPT !.pc = "restored"]
  BY Zenon DEF CommitRestore, Unlocked
<1>2. /\ job.snap \in Snap /\ saved[job.snap] # None
      /\ job.target \in Snap /\ saved[job.target] # None /\ job.target # None
  BY <1>0, <1>1, Zenon DEF ControlInv
<1>3. /\ job' \in JobType /\ job'.pc = "restored" /\ job'.snap = job.snap
      /\ job'.target = job.target
  BY <1>0, <1>1, Zenon DEF ControlInv, JobType, JobPc
<1>4. PICK t \in Snap : t = job.target
  BY <1>2, Zenon
<1>5. QED
  BY <1>1, <1>2, <1>3, <1>4, InstallKeeps, Zenon DEF CommitRestore

LEMMA RollbackKeeps == ASSUME StoreInv, Rollback PROVE StoreInv'
<1>0. ControlInv
  BY Zenon DEF StoreInv
<1>1. job.pc \in {"restore", "restored"} /\ writer.pc = "idle" /\ job' = NoJob
  BY Zenon DEF Rollback, Unlocked
<1>2. job.snap \in Snap /\ saved[job.snap] # None
  BY <1>0, <1>1, Zenon DEF ControlInv
<1>3. job' \in JobType /\ job'.pc = "idle"
  BY <1>1, Zenon DEF NoJob, JobType, JobPc
<1>4. PICK t \in Snap : t = job.snap
  BY <1>2, Zenon
<1>5. QED
  BY <1>1, <1>2, <1>3, <1>4, InstallKeeps, Zenon DEF Rollback
-----------------------------------------------------------------------------
(* Collections and trash requests                                          *)

LEMMA ReadExpiredKeeps == ASSUME StoreInv, ReadExpired PROVE StoreInv'
<1>0. PlaneInv /\ RootInv /\ ControlInv /\ BlobInv
  BY Zenon DEF StoreInv
<1>1. /\ inodes' = inodes /\ refs' = refs /\ trash' = trash /\ files' = files /\ pins' = pins
      /\ saved' = saved /\ snaps' = snaps /\ writer' = writer /\ roots' = roots
      /\ manifest' = manifest /\ chunks' = chunks /\ counts' = counts /\ objects' = objects
  BY Zenon DEF ReadExpired, meta, plane
<1>2. PICK expired \in SUBSET {b \in trash : refs[b] = 0 /\ b \notin {p[2] : p \in pins}} :
        job' = [NoJob EXCEPT !.pc = "unlink", !.todo = expired]
  BY Zenon DEF ReadExpired
<1>3. trash \in SUBSET Blob
  BY <1>0, Zenon DEF BlobInv, Dump, Exact, Table
<1>4. job'.pc = "unlink" /\ job'.todo = expired /\ job' \in JobType
  BY <1>2, <1>3, Zenon DEF NoJob, JobType, JobPc
<1>5. ControlInv'
  BY <1>0, <1>1, <1>4, Zenon DEF ControlInv
<1>6. BlobInv'
  <2>1. Dump' = Dump
    BY <1>1, Zenon DEF Dump
  <2>2. QED
    BY <1>0, <1>1, <1>2, <1>3, <1>4, <2>1, Zenon DEF BlobInv
<1>7. PlaneInv' /\ Live' = Live
  BY <1>0, <1>1, Zenon DEF PlaneInv, Live
<1>8. RootInv'
  BY <1>0, <1>1, <1>4, <1>7, Zenon DEF RootInv
<1>9. QED
  BY <1>5, <1>6, <1>7, <1>8, Zenon DEF StoreInv

LEMMA UnlinkKeeps == ASSUME StoreInv, Unlink PROVE StoreInv'
<1>0. PlaneInv /\ RootInv /\ ControlInv /\ BlobInv
  BY Zenon DEF StoreInv
<1>1. /\ inodes' = inodes /\ refs' = refs /\ trash' = trash /\ pins' = pins
      /\ saved' = saved /\ snaps' = snaps /\ writer' = writer /\ roots' = roots /\ job' = job
      /\ manifest' = manifest /\ chunks' = chunks /\ counts' = counts /\ objects' = objects
      /\ job.pc = "unlink"
  BY Zenon DEF Unlink, meta, plane
<1>2. PICK b \in job.todo : files' = files \ {b}
  BY Zenon DEF Unlink
<1>3. b \in Blob /\ refs[b] = 0 /\ b \notin {p[2] : p \in pins}
  BY <1>0, <1>1, Zenon DEF BlobInv
<1>4. BlobsOf(Dump) \subseteq files'
  <2>1. Exact(Dump) /\ Dump.refs[b] = 0
    BY <1>0, <1>3, Zenon DEF BlobInv, Dump
  <2>2. b \notin BlobsOf(Dump)
    <3>1. PICK d : d = Dump
      BY Zenon
    <3>2. b \notin BlobsOf(d)
      BY <1>3, <2>1, <3>1, UnreferencedIsUnnamed, Zenon
    <3>3. QED
      BY <3>1, <3>2, Zenon
  <2>3. QED
    BY <1>0, <1>2, <2>2, Zenon DEF BlobInv
<1>5. ASSUME NEW s \in Snap, saved[s] # None PROVE BlobsOf(saved[s]) \subseteq files'
  <2>1. {s} \X BlobsOf(saved[s]) \subseteq pins /\ BlobsOf(saved[s]) \subseteq files
    BY <1>0, <1>5, Zenon DEF BlobInv
  <2>2. b \notin BlobsOf(saved[s])
    <3>1. SUFFICES ASSUME b \in BlobsOf(saved[s]) PROVE FALSE
      BY Zenon
    <3>2. <<s, b>> \in pins
      BY <2>1, <3>1, Zenon
    <3>3. b = <<s, b>>[2]
      BY Zenon
    <3>4. QED
      BY <1>3, <3>2, <3>3, Zenon
  <2>3. QED
    BY <1>2, <2>1, <2>2, Zenon
<1>6. ControlInv'
  BY <1>0, <1>1, Zenon DEF ControlInv
<1>7. BlobInv'
  <2>1. Dump' = Dump
    BY <1>1, Zenon DEF Dump
  <2>2. QED
    BY <1>0, <1>1, <1>4, <1>5, <2>1, Zenon DEF BlobInv
<1>8. PlaneInv' /\ Live' = Live
  BY <1>0, <1>1, Zenon DEF PlaneInv, Live
<1>9. RootInv'
  BY <1>0, <1>1, <1>8, Zenon DEF RootInv
<1>10. QED
  BY <1>6, <1>7, <1>8, <1>9, Zenon DEF StoreInv

\* The queue itself decides nothing that the rows or the copies need.
LEMMA QueueKeeps ==
    ASSUME StoreInv, trash' \in SUBSET Blob, inodes' = inodes, refs' = refs,
           job.pc # "unlink" => job' = job, job.pc = "unlink" => job' = NoJob,
           UNCHANGED <<pins, files, plane, saved, snaps, writer>>
    PROVE  StoreInv'
<1>0. PlaneInv /\ RootInv /\ ControlInv /\ BlobInv
  BY Zenon DEF StoreInv
<1>1. /\ files' = files /\ pins' = pins /\ roots' = roots
      /\ saved' = saved /\ snaps' = snaps /\ writer' = writer
      /\ manifest' = manifest /\ chunks' = chunks /\ counts' = counts /\ objects' = objects
  BY Zenon DEF plane
<1>2. job' \in JobType /\ (job'.pc = "idle" \/ (job' = job /\ job.pc # "unlink"))
  BY <1>0, SMTT(30) DEF ControlInv, NoJob, JobType, JobPc
<1>3. Exact(Dump') /\ BlobsOf(Dump') = BlobsOf(Dump)
  <2>1. /\ inodes \in [Inode -> Content] /\ refs \in [Blob -> Nat]
        /\ \A b \in Blob : refs[b] = Cardinality(Naming(inodes, b))
    BY <1>0, Zenon DEF BlobInv, Exact, Dump, Table
  <2>2. Dump' = [inodes |-> inodes, refs |-> refs, trash |-> trash']
    BY Zenon DEF Dump
  <2>3. QED
    BY <2>1, <2>2, Zenon DEF Dump, Exact, Table, BlobsOf
<1>4. ControlInv'
  BY <1>0, <1>1, <1>2, SMTT(30) DEF ControlInv
<1>5. BlobInv'
  BY <1>0, <1>1, <1>2, <1>3, Zenon DEF BlobInv
<1>6. PlaneInv' /\ Live' = Live
  BY <1>0, <1>1, Zenon DEF PlaneInv, Live
<1>7. RootInv'
  BY <1>0, <1>1, <1>2, <1>6, Zenon DEF RootInv
<1>8. QED
  BY <1>4, <1>5, <1>6, <1>7, Zenon DEF StoreInv

LEMMA StoreFixtureKeeps ==
    ASSUME StoreInv, NEW b \in Blob, StoreFixture(b) PROVE StoreInv'
<1>0. PlaneInv /\ RootInv /\ ControlInv /\ BlobInv
  BY Zenon DEF StoreInv
<1>1. /\ inodes' = inodes /\ refs' = refs /\ trash' = trash /\ pins' = pins
      /\ saved' = saved /\ snaps' = snaps /\ writer' = writer /\ roots' = roots
      /\ manifest' = manifest /\ chunks' = chunks /\ counts' = counts /\ objects' = objects
      /\ files' = files \cup {b} /\ writer.pc = "idle"
  BY Zenon DEF StoreFixture, meta, plane, Unlocked
<1>2. job'.pc = "create" /\ job'.todo = {b} /\ job' \in JobType
  <2>1. job' = [NoJob EXCEPT !.pc = "create", !.todo = {b}]
    BY Zenon DEF StoreFixture
  <2>2. QED
    BY <2>1, Zenon DEF NoJob, JobType, JobPc
<1>3. ControlInv'
  BY <1>0, <1>1, <1>2, Zenon DEF ControlInv
<1>4. BlobInv'
  <2>1. Dump' = Dump
    BY <1>1, Zenon DEF Dump
  <2>2. files \subseteq files' /\ b \in Blob \cap files'
    BY <1>1, Zenon
  <2>3. QED
    BY <1>0, <1>1, <1>2, <2>1, <2>2, Zenon DEF BlobInv
<1>5. PlaneInv' /\ Live' = Live
  BY <1>0, <1>1, Zenon DEF PlaneInv, Live
<1>6. RootInv'
  BY <1>0, <1>1, <1>2, <1>5, Zenon DEF RootInv
<1>7. QED
  BY <1>3, <1>4, <1>5, <1>6, Zenon DEF StoreInv
LEMMA CreateFixtureKeeps == ASSUME StoreInv, CreateFixture PROVE StoreInv'
<1>0. PlaneInv /\ RootInv /\ ControlInv /\ BlobInv
  BY Zenon DEF StoreInv
<1>1. /\ files' = files /\ pins' = pins /\ roots' = roots
      /\ saved' = saved /\ snaps' = snaps /\ writer' = writer
      /\ manifest' = manifest /\ chunks' = chunks /\ counts' = counts /\ objects' = objects
      /\ job.pc = "create"
  BY Zenon DEF CreateFixture, plane
<1>2. PICK b \in job.todo, i \in Inode :
        /\ inodes[i] = None
        /\ inodes' = [inodes EXCEPT ![i] = b]
        /\ refs' = [refs EXCEPT ![b] = @ + 1]
        /\ trash' = IF refs[b] = 0 THEN trash \ {b} ELSE trash
        /\ job' = [job EXCEPT !.pc = "remove", !.target = i]
  BY Zenon DEF CreateFixture
<1>3. b \in Blob /\ b \in files /\ job.todo = {b} /\ b \notin Object
  BY <1>0, <1>1, <1>2, StoreAssumption, Zenon DEF BlobInv
<1>4. /\ job'.pc = "remove" /\ job'.target = i /\ job'.todo = job.todo /\ job' \in JobType
  BY <1>0, <1>2, Zenon DEF ControlInv, JobType, JobPc
<1>5. /\ Exact(Dump) /\ Dump.inodes = inodes /\ Dump.refs = refs /\ Dump.trash = trash
      /\ inodes \in [Inode -> Content] /\ refs \in [Blob -> Nat] /\ trash \in SUBSET Blob
  BY <1>0, Zenon DEF BlobInv, Dump, Exact, Table
<1>6. Exact(Dump') /\ BlobsOf(Dump') \subseteq BlobsOf(Dump) \cup {b}
  <2>1. PICK d, f, q, t : d = Dump /\ f = inodes' /\ q = refs' /\ t = trash'
    BY Zenon
  <2>2. /\ Exact(d) /\ f = [d.inodes EXCEPT ![i] = b] /\ t \in SUBSET Blob
        /\ q = Raised(d, b) /\ d.inodes[i] \notin Blob
    BY <1>2, <1>5, <2>1, StoreAssumption, Zenon DEF Raised
  <2>3. /\ Exact([inodes |-> f, refs |-> q, trash |-> t])
        /\ \A x \in BlobsOf([inodes |-> f, refs |-> q, trash |-> t]) : x \in BlobsOf(d) \/ x = b
    <3>1. b \in Blob
      BY <1>3, Zenon
    <3>2. QED
      BY ONLY <3>1, i \in Inode, <2>2, RowComes, SMT
  <2>4. Dump' = [inodes |-> f, refs |-> q, trash |-> t]
    BY <2>1, Zenon DEF Dump
  <2>5. QED
    BY <2>1, <2>3, <2>4, Zenon
<1>7. ControlInv'
  BY <1>0, <1>1, <1>4, Zenon DEF ControlInv
<1>8. BlobInv'
  <2>1. BlobsOf(Dump') \subseteq files
    BY <1>0, <1>3, <1>6, Zenon DEF BlobInv
  <2>2. inodes'[i] = b
    BY <1>2, <1>5, Zenon
  <2>3. QED
    BY <1>0, <1>1, <1>3, <1>4, <1>6, <2>1, <2>2, Zenon DEF BlobInv
<1>9. PlaneInv' /\ Live' = Live
  BY <1>0, <1>1, Zenon DEF PlaneInv, Live
<1>10. RootInv'
  <2>1. Rooted(roots, inodes')
    BY <1>0, <1>2, <1>3, <1>5, Zenon DEF RootInv, Rooted
  <2>2. QED
    BY <1>0, <1>1, <1>4, <1>9, <2>1, Zenon DEF RootInv
<1>11. QED
  BY <1>7, <1>8, <1>9, <1>10, Zenon DEF StoreInv

LEMMA RemoveFixtureKeeps == ASSUME StoreInv, RemoveFixture PROVE StoreInv'
<1>0. PlaneInv /\ RootInv /\ ControlInv /\ BlobInv
  BY Zenon DEF StoreInv
<1>1. /\ files' = files /\ pins' = pins /\ roots' = roots
      /\ saved' = saved /\ snaps' = snaps /\ writer' = writer
      /\ manifest' = manifest /\ chunks' = chunks /\ counts' = counts /\ objects' = objects
      /\ job.pc = "remove" /\ job' = NoJob
  BY Zenon DEF RemoveFixture, plane
<1>2. PICK b \in job.todo :
        /\ inodes' = [inodes EXCEPT ![job.target] = None]
        /\ refs' = [refs EXCEPT ![b] = IF @ = 0 THEN 0 ELSE @ - 1]
        /\ trash' = IF refs[b] <= 1 THEN trash \cup {b} ELSE trash \ {b}
  BY Zenon DEF RemoveFixture
<1>3. job.target \in Inode /\ b = inodes[job.target] /\ b \in Blob
  BY <1>0, <1>1, <1>2, Zenon DEF BlobInv
<1>4. PICK i \in Inode : i = job.target
  BY <1>3, Zenon
<1>5. /\ Exact(Dump) /\ Dump.inodes = inodes /\ Dump.refs = refs /\ Dump.trash = trash
      /\ inodes \in [Inode -> Content] /\ refs \in [Blob -> Nat] /\ trash \in SUBSET Blob
  BY <1>0, Zenon DEF BlobInv, Dump, Exact, Table
<1>6. Exact(Dump') /\ BlobsOf(Dump') \subseteq BlobsOf(Dump)
  <2>1. PICK d, f, q, t : d = Dump /\ f = inodes' /\ q = refs' /\ t = trash'
    BY Zenon
  <2>2. /\ Exact(d) /\ f = [d.inodes EXCEPT ![i] = None] /\ t \in SUBSET Blob
        /\ q = Lowered(d, i)
    BY <1>2, <1>3, <1>4, <1>5, <2>1, Zenon DEF Lowered
  <2>3. None \in Content /\ None \notin Blob
    BY StoreAssumption, Zenon DEF Content
  <2>4. /\ Exact([inodes |-> f, refs |-> q, trash |-> t])
        /\ BlobsOf([inodes |-> f, refs |-> q, trash |-> t]) \subseteq BlobsOf(d)
    BY ONLY i \in Inode, <2>2, <2>3, RowLeaves, Zenon
  <2>5. Dump' = [inodes |-> f, refs |-> q, trash |-> t]
    BY <2>1, Zenon DEF Dump
  <2>6. QED
    BY <2>1, <2>4, <2>5, Zenon
<1>7. job' \in JobType /\ job'.pc = "idle"
  BY <1>1, Zenon DEF NoJob, JobType, JobPc
<1>8. ControlInv'
  BY <1>0, <1>1, <1>7, Zenon DEF ControlInv
<1>9. BlobInv'
  BY <1>0, <1>1, <1>6, <1>7, Zenon DEF BlobInv
<1>10. PlaneInv' /\ Live' = Live
  BY <1>0, <1>1, Zenon DEF PlaneInv, Live
<1>11. RootInv'
  <2>1. Rooted(roots, inodes')
    BY <1>0, <1>2, <1>5, StoreAssumption, Zenon DEF RootInv, Rooted
  <2>2. QED
    BY <1>0, <1>1, <1>7, <1>10, <2>1, Zenon DEF RootInv
<1>12. QED
  BY <1>8, <1>9, <1>10, <1>11, Zenon DEF StoreInv

LEMMA JobStepKeeps == ASSUME StoreInv, JobStep PROVE StoreInv'
<1>0. trash \in SUBSET Blob
  BY Zenon DEF StoreInv, BlobInv, Dump, Exact, Table
<1>1. CASE ClearQueue
  <2>1. trash' \in SUBSET Blob
    BY <1>0, <1>1, Zenon DEF ClearQueue
  <2>2. QED
    BY <1>1, <2>1, QueueKeeps, Zenon DEF ClearQueue
<1>2. CASE \E b \in Blob : SetTrashAge(b)
  <2>1. PICK b \in Blob : SetTrashAge(b)
    BY <1>2, Zenon
  <2>2. trash' \in SUBSET Blob /\ job.pc # "unlink"
    BY <1>0, <2>1, Zenon DEF SetTrashAge
  <2>3. QED
    BY <2>1, <2>2, QueueKeeps, Zenon DEF SetTrashAge
<1>3. CASE EndJob
  BY <1>3, GiveUpKeeps, Zenon DEF EndJob
<1>4. CASE (\E t \in Snap \cup {None} : CopyTables(t)) \/ \E s \in Snap : Retire(s)
  BY <1>4, CopyTablesKeeps, RetireKeeps, Zenon
<1>5. CASE \E b \in Blob : StoreFixture(b)
  BY <1>5, StoreFixtureKeeps, Zenon
<1>6. QED
  BY <1>1, <1>2, <1>3, <1>4, <1>5, PinBlobsKeeps, RetainObjectKeeps, SaveKeeps, UnpinKeeps,
     ReleaseRootKeeps, CommitRestoreKeeps, RollbackKeeps, ReadExpiredKeeps, UnlinkKeeps,
     CreateFixtureKeeps, RemoveFixtureKeeps, Zenon DEF JobStep
-----------------------------------------------------------------------------
(* The invariant and what it gives                                         *)

LEMMA StoreInit == Init => StoreInv
<1> SUFFICES ASSUME Init PROVE StoreInv
  BY Zenon
<1>1. /\ inodes \in [Inode -> Blob \cup {None}] /\ trash = {} /\ pins = {}
      /\ refs = [b \in Blob |-> Cardinality({i \in Inode : inodes[i] = b})]
      /\ files = Range(inodes) \cap Blob /\ manifest = <<>> /\ roots = {} /\ chunks = {}
      /\ counts = [c \in Chunk |-> 0] /\ saved = [s \in Snap |-> None]
      /\ objects = 0 /\ snaps = 0 /\ writer = NoWriter /\ job = NoJob
  BY Zenon DEF Init
<1>2. /\ job \in JobType /\ job.pc = "idle" /\ writer \in WriterType /\ writer.pc = "idle"
  BY <1>1, Zenon DEF NoJob, NoWriter, JobType, JobPc, WriterType
<1>3. ControlInv
  <2>1. MaxSnaps \in Nat
    BY StoreAssumption, Zenon
  <2>2. QED
    BY <1>1, <1>2, <2>1, SMTT(30) DEF ControlInv
<1>4. BlobInv
  <2>1. \A b \in Blob : refs[b] = Cardinality(Naming(inodes, b))
    BY <1>1, Zenon DEF Naming
  <2>2. refs \in [Blob -> Nat]
    BY <1>1, <2>1, NamingFinite, Zenon
  <2>3. Exact(Dump) /\ BlobsOf(Dump) \subseteq files
    BY <1>1, <2>1, <2>2, Zenon DEF Exact, Dump, Table, Content, BlobsOf
  <2>4. QED
    BY <1>1, <1>2, <2>3, Zenon DEF BlobInv
<1>5. PlaneInv
  <2>1. Live = {}
    BY <1>1, SMTT(30) DEF Live
  <2>2. ASSUME NEW c \in Chunk
        PROVE  IsFiniteSet(Uses(manifest, c)) /\ Cardinality(Uses(manifest, c)) = 0
    <3>1. Uses(manifest, c) = {}
      BY <2>1, Zenon DEF Uses, Live
    <3>2. QED
      BY <3>1, FS_EmptySet, Zenon
  <2>3. MaxObjects \in Nat
    BY StoreAssumption, Zenon
  <2>4. QED
    BY <1>1, <2>1, <2>2, <2>3, SMTT(30) DEF PlaneInv
<1>6. RootInv
  <2>1. Rooted(roots, inodes)
    BY <1>1, StoreAssumption, SMTT(30) DEF Rooted
  <2>2. QED
    BY <1>1, <1>2, <2>1, Zenon DEF RootInv
<1>7. QED
  BY <1>3, <1>4, <1>5, <1>6, Zenon DEF StoreInv

LEMMA StoreStep == StoreInv /\ [Next]_vars => StoreInv'
<1> SUFFICES ASSUME StoreInv, [Next]_vars PROVE StoreInv'
  BY Zenon
<1>1. CASE Crash
  BY <1>1, GiveUpKeeps, Zenon DEF Crash
<1>2. CASE UNCHANGED vars
  BY <1>2, GiveUpKeeps, Zenon DEF vars
<1>3. QED
  BY <1>1, <1>2, PlaneStepKeeps, WriteStepKeeps, JobStepKeeps, Zenon DEF Next

\* A copy whose rows are rooted and whose blobs are in the directory passes the
\* checks of a restore, and every row of it can be read.
LEMMA KeptIsRestorable ==
    ASSUME PlaneInv, RootInv, NEW d, Exact(d), BlobsOf(d) \subseteq files, Rooted(roots, d.inodes)
    PROVE  Valid(d) /\ \A i \in Inode : Readable(d.inodes[i])
<1>1. d.inodes \in [Inode -> Content] /\ d.refs \in [Blob -> Nat]
  BY Zenon DEF Exact, Table
<1>2. ASSUME NEW i \in Inode PROVE Readable(d.inodes[i])
  <2>1. CASE d.inodes[i] \in Blob
    <3>1. d.inodes[i] \in BlobsOf(d)
      BY <1>1, <2>1, Zenon DEF BlobsOf, Range
    <3>2. QED
      BY <3>1, Zenon DEF Readable
  <2>2. CASE d.inodes[i] \in Object
    <3>1. PICK f : f = d.inodes
      BY Zenon
    <3>2. Readable(f[i])
      BY <2>2, <3>1, RootedIsReadable, Zenon
    <3>3. QED
      BY <3>1, <3>2, Zenon
  <2>3. CASE d.inodes[i] = None
    BY <2>3, Zenon DEF Readable
  <2>4. QED
    BY <1>1, <2>1, <2>2, <2>3, Zenon DEF Content
<1>3. ASSUME NEW b \in Blob, d.refs[b] > 0 PROVE b \in files
  <2>1. Naming(d.inodes, b) # {}
    <3>1. SUFFICES ASSUME Naming(d.inodes, b) = {} PROVE FALSE
      BY Zenon
    <3>2. d.refs[b] = Cardinality({})
      BY <3>1, Zenon DEF Exact
    <3>3. Cardinality({}) = 0
      BY FS_EmptySet, Zenon
    <3>4. QED
      BY <1>3, <3>2, <3>3, SMTT(30)
  <2>2. QED
    BY <1>1, <2>1, Zenon DEF Naming, BlobsOf, Range
<1>4. ObjectsThere(d)
  BY <1>1, <1>2, Zenon DEF ObjectsThere, ObjectsOf, Range
<1>5. QED
  BY <1>2, <1>3, <1>4, Zenon DEF Valid, BlobsThere

\* Every file of every workspace can be read at any time, however writes,
\* collections of blobs and chunks, snapshots, retention, restores, failures
\* and crashes between the two databases and the directory interleave.
THEOREM FilesStayReadable == Spec => []LiveIsReadable
<1>1. StoreInv => LiveIsReadable
  <2> SUFFICES ASSUME StoreInv PROVE LiveIsReadable
    BY Zenon
  <2>1. PICK d : d = Dump
    BY Zenon
  <2>2. /\ PlaneInv /\ RootInv /\ Exact(d) /\ BlobsOf(d) \subseteq files
        /\ Rooted(roots, d.inodes) /\ d.inodes = inodes
    BY <2>1, Zenon DEF StoreInv, BlobInv, RootInv, Dump
  <2>3. \A i \in Inode : Readable(d.inodes[i])
    BY <2>2, KeptIsRestorable, Zenon
  <2>4. QED
    BY <2>2, <2>3, Zenon DEF LiveIsReadable
<1>2. QED
  BY <1>1, StoreInit, StoreStep, PTL DEF Spec

\* Every world snapshot that can be listed passes the validation of a restore
\* and names only bytes that are there, until retention has deleted its row.
THEOREM SnapshotsStayWhole == Spec => []SnapshotsRestorable
<1>1. StoreInv => SnapshotsRestorable
  <2> SUFFICES ASSUME StoreInv, NEW s \in Snap, saved[s] # None
               PROVE  Valid(saved[s]) /\ \A i \in Inode : Readable(saved[s].inodes[i])
    BY Zenon DEF SnapshotsRestorable
  <2>1. PICK d : d = saved[s]
    BY Zenon
  <2>2. /\ PlaneInv /\ RootInv /\ Exact(d) /\ BlobsOf(d) \subseteq files
        /\ Rooted(roots, d.inodes)
    BY <2>1, Zenon DEF StoreInv, BlobInv, RootInv
  <2>3. Valid(d) /\ \A i \in Inode : Readable(d.inodes[i])
    BY <2>2, KeptIsRestorable, Zenon
  <2>4. QED
    BY <2>1, <2>3, Zenon
<1>2. QED
  BY <1>1, StoreInit, StoreStep, PTL DEF Spec
=============================================================================
