----------------------------- MODULE MCFSStorage -----------------------------
EXTENDS FSStorage, TLC

\* Two checkpoints of the same tick: the second life of a tick after a crash.
TickNumbers == [v \in Values |-> 1]

\* What a free inode still holds is never read again.
View == <<kind, up, [i \in Inodes \ Free |-> data[i]], synced \ Free,
          main, temp, disk, writer, reader, history>>

Symmetry == Permutations(Inodes) \cup Permutations(Values)
=============================================================================
