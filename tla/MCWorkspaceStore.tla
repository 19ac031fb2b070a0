-------------------------- MODULE MCWorkspaceStore --------------------------
(* The stores under the workspaces on small sets of files.                 *)
EXTENDS WorkspaceStore, TLC

\* Files are interchangeable.
FileSymmetry == Permutations(Inode)
=============================================================================
