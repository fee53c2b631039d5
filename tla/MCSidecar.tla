------------------------------ MODULE MCSidecar ------------------------------
(***************************************************************************)
(* A short and a long version: registrations of one slot differ in length  *)
(* when their upstream hints or URLs do.  Nothing tells one inode or one   *)
(* writer from another.                                                    *)
(***************************************************************************)
EXTENDS Sidecar, TLC

MCVersions == {"short", "long"}
MCSize == [short |-> 1, long |-> 2]
MCSymmetry == Permutations(Inodes) \cup Permutations(Writers)
=============================================================================
