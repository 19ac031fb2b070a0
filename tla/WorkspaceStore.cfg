\* Two files that may share a blob or a chunk; of two snapshots one can be the
\* rollback point of a restore to the other.
CONSTANTS
    Inode = {i1, i2}
    Blob = {b1}
    Chunk = {c1}
    MaxObjects = 2
    MaxSnaps = 2
    MaxManifest = 2
    None = None
SPECIFICATION Spec
SYMMETRY FileSymmetry
INVARIANT LiveIsReadable
INVARIANT SnapshotsRestorable
