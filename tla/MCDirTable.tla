----------------------------- MODULE MCDirTable -----------------------------
(* The symmetry and the view under which TLC explores DirTable.             *)
EXTENDS DirTable, TLC

\* names are only compared
Symmetry == Permutations(Names \ LongNames) \cup Permutations(LongNames)

\* the words of live entries, "." and ".." included
InEntry(d, b, w) ==
    \/ b = first[d] /\ w < FirstChild
    \/ \E x \in Visited(d) :
          InodeAt(x) # 0 /\ b = x.b /\ w >= x.o /\ w < x.o + MetaAt(x).rec

\* of a word outside live entries Next never reads more than whether it would
\* make a free entry look like a NEXT, and of a free inode nothing
LiveView ==
    <<[b \in Blk |-> [w \in Word |->
          IF \E d \in LiveDirs : InEntry(d, b, w) THEN disk[b][w]
          ELSE IF disk[b][w].type = "NEXT" THEN "NEXT" ELSE "other"]],
      [i \in used |-> first[i]], {End(d) : d \in LiveDirs}>>
=============================================================================
