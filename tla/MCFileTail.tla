------------------------------- MODULE MCFileTail -------------------------------
EXTENDS FileTail, TLC

CONSTANTS i1, i2, i3

\* Nothing in the driver tells one inode number from another.
InodeSymmetry == Permutations(Inodes)
==================================================================================
