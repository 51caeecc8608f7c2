--------------------------- MODULE MCFileSystem ---------------------------
EXTENDS FileSystem

FileSymmetry == Permutations(FileNames) \cup Permutations(Handles)

\* What free blocks and deleted entries still say is written again before it is read
FileView ==
    <<disk.free, disk.defect, content, open,
      [b \in Blocks \ disk.free |->
         [next |-> disk.next[b],
          data |-> [i \in 1..BlockUnits |->
                      LET u == disk.data[b][i] IN
                      IF u.kind = "entry" /\ ~u.valid THEN [kind |-> "deleted"] ELSE u]]]>>
=============================================================================
