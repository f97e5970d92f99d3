---------------------------- MODULE ShellProofs ----------------------------
(* Theorems about Directory and about Shell, which works on it, for any     *)
(* names, inodes, paths and contents.                                       *)
EXTENDS Shell, WellFoundedInduction, TLAPS

(***************************************************************************)
(* Directory: its operations keep a tree.                                   *)
(***************************************************************************)

TreeInv ==
    /\ TypeOK
    /\ UniqueNames
    /\ OneEntry
    /\ OnlyDirectoriesHoldEntries
    /\ Rooted

\* Everything below a member of S, and S, is below the root: a closed set that
\* holds the root holds every directory.
LEMMA ClosedHoldsAll ==
    ASSUME Rooted, NEW S \in SUBSET Inode, Root \in S, Closed(S)
    PROVE  /\ \A i \in Inode : Listed(i) => i \in S
           /\ \A p \in Inode : IsDirectory(p) => p \in S
  BY RootAssumption DEF Rooted, Within, Listed, IsDirectory

\* The empty file system is a tree.
LEMMA InitTree == Init => TreeInv
  BY RootAssumption DEF Init, TreeInv, TypeOK, UniqueNames, OneEntry,
     OnlyDirectoriesHoldEntries, Rooted, Listed, Entry

\* write keeps the tree: its inode was nobody's and its name was free.
LEMMA CreateKeepsTree ==
    ASSUME TreeInv, NEW p \in Inode, NEW e \in Entry, Create(p, e)
    PROVE  TreeInv'
  <1> USE DEF TreeInv
  <1>1. /\ e[1] \in Names /\ e[2] \in FileType /\ e[3] \in Inode
        /\ \A d \in Inode : entry'[d] = entry[d] \cup (IF d = p THEN {e} ELSE {})
        /\ DOMAIN entry' = Inode
    BY DEF Create, TypeOK, Entry
  <1>2. TypeOK'
    BY <1>1 DEF TypeOK, Create
  <1>3. UniqueNames'
    BY <1>1 DEF UniqueNames, Create, Taken
  <1>4. OneEntry'
    BY <1>1 DEF OneEntry, Create, Listed
  <1>5. OnlyDirectoriesHoldEntries'
    BY <1>1 DEF OnlyDirectoriesHoldEntries, Create, IsDirectory
  <1>6. Rooted'
    <2> SUFFICES ASSUME NEW i \in Inode, Listed(i)',
                        NEW S \in SUBSET Inode, Root \in S, Closed(S)'
                 PROVE  i \in S
      BY DEF Rooted, Within
    <2>1. Closed(S)
      BY <1>1 DEF Closed
    <2>2. p \in S
      BY <2>1, ClosedHoldsAll DEF Create
    <2>3. CASE Listed(i)
      BY <2>1, <2>3, ClosedHoldsAll
    <2>4. CASE ~Listed(i)
      <3>1. i = e[3]
        BY <1>1, <2>4 DEF Listed
      <3> QED BY <1>1, <2>2, <3>1 DEF Closed
    <2> QED BY <2>3, <2>4
  <1> QED BY <1>2, <1>3, <1>4, <1>5, <1>6

\* delete keeps the tree: what goes away has nothing below it.
LEMMA RemoveKeepsTree ==
    ASSUME TreeInv, NEW p \in Inode, NEW e \in Entry, Remove(p, e)
    PROVE  TreeInv'
  <1> USE DEF TreeInv
  <1>1. /\ e \in entry[p] /\ entry[e[3]] = {} /\ e[3] \in Inode
        /\ \A d \in Inode : entry'[d] = entry[d] \ (IF d = p THEN {e} ELSE {})
        /\ DOMAIN entry' = Inode
    BY DEF Remove, Removable, TypeOK, Entry
  <1>2. TypeOK'
    BY <1>1 DEF TypeOK, Remove, Removable
  <1>3. UniqueNames'
    BY <1>1 DEF UniqueNames
  <1>4. OneEntry'
    BY <1>1 DEF OneEntry
  <1>5. OnlyDirectoriesHoldEntries'
    <2> SUFFICES ASSUME NEW d \in Inode, entry'[d] # {}
                 PROVE  IsDirectory(d)'
      BY DEF OnlyDirectoriesHoldEntries
    <2>1. IsDirectory(d) /\ d # e[3]
      BY <1>1 DEF OnlyDirectoriesHoldEntries
    <2>2. CASE d = Root
      BY <2>2 DEF IsDirectory
    <2>3. CASE d # Root
      <3>1. PICK c \in Inode : \E f \in entry[c] : f[2] = "DIR" /\ f[3] = d
        BY <2>1, <2>3 DEF IsDirectory
      <3>2. PICK f \in entry[c] : f[2] = "DIR" /\ f[3] = d
        BY <3>1
      <3>3. f \in entry'[c]
        BY <1>1, <2>1, <3>2
      <3> QED BY <3>2, <3>3 DEF IsDirectory
    <2> QED BY <2>2, <2>3
  <1>6. Rooted'
    <2> SUFFICES ASSUME NEW i \in Inode, Listed(i)',
                        NEW S \in SUBSET Inode, Root \in S, Closed(S)'
                 PROVE  i \in S
      BY DEF Rooted, Within
    <2>1. Closed(S \cup {e[3]})
      BY <1>1 DEF Closed
    <2>2. Listed(i) /\ i # e[3]
      BY <1>1 DEF Listed, OneEntry
    <2>3. S \cup {e[3]} \in SUBSET Inode /\ Root \in S \cup {e[3]}
      BY <1>1
    <2> QED BY <2>1, <2>2, <2>3, ClosedHoldsAll
  <1> QED BY <1>2, <1>3, <1>4, <1>5, <1>6

\* move_dir keeps the tree: the destination is not below what is moved, so it
\* is still below the root when the directory has left its old place.
LEMMA MoveKeepsTree ==
    ASSUME TreeInv, NEW p \in Inode, NEW q \in Inode, NEW e \in Entry, NEW n \in Names,
           Move(p, e, q, n)
    PROVE  TreeInv'
  <1> DEFINE f == <<n, "DIR", e[3]>>
  <1> USE DEF TreeInv
  <1>1. /\ e \in entry[p] /\ e[2] = "DIR" /\ e[3] \in Inode /\ e[3] # Root
        /\ f \in Entry /\ f[1] = n /\ f[2] = "DIR" /\ f[3] = e[3]
        /\ \A d \in Inode : entry'[d] = (entry[d] \ (IF d = p THEN {e} ELSE {}))
                                          \cup (IF d = q THEN {f} ELSE {})
        /\ DOMAIN entry' = Inode
    BY DEF Move, TypeOK, Entry, OneEntry, FileType
  <1>2. TypeOK'
    BY <1>1 DEF TypeOK, Move
  <1>3. UniqueNames'
    BY <1>1 DEF UniqueNames, Move, Taken
  <1>4. OneEntry'
    BY <1>1 DEF OneEntry
  <1> HIDE DEF f
  <1>5. \A d \in Inode : IsDirectory(d) => IsDirectory(d)'
    <2> SUFFICES ASSUME NEW d \in Inode, IsDirectory(d), d # Root
                 PROVE  IsDirectory(d)'
      BY DEF IsDirectory
    <2>1. PICK c \in Inode : \E g \in entry[c] : g[2] = "DIR" /\ g[3] = d
      BY DEF IsDirectory
    <2>2. PICK g \in entry[c] : g[2] = "DIR" /\ g[3] = d
      BY <2>1
    <2>3. CASE g = e
      BY <1>1, <2>2, <2>3 DEF IsDirectory
    <2>4. CASE g # e
      <3>1. g \in entry'[c]
        BY <1>1, <2>2, <2>4
      <3> QED BY <2>2, <3>1 DEF IsDirectory
    <2> QED BY <2>3, <2>4
  <1>6. OnlyDirectoriesHoldEntries'
    BY <1>1, <1>5 DEF OnlyDirectoriesHoldEntries, Move
  <1>7. Rooted'
    <2> SUFFICES ASSUME NEW i \in Inode, Listed(i)',
                        NEW S \in SUBSET Inode, Root \in S, Closed(S)'
                 PROVE  i \in S
      BY DEF Rooted, Within
    <2>1. PICK T \in SUBSET Inode : e[3] \in T /\ Closed(T) /\ q \notin T
      BY DEF Move, Within
    <2>2. Closed(S \cup T)
      BY <1>1, <2>1 DEF Closed
    <2>3. q \in S
      BY <2>1, <2>2, ClosedHoldsAll DEF Move
    <2>4. e[3] \in S
      BY <1>1, <2>3 DEF Closed
    <2>5. Closed(S)
      BY <1>1, <2>4 DEF Closed
    <2>6. Listed(i)
      BY <1>1 DEF Listed
    <2> QED BY <2>5, <2>6, ClosedHoldsAll
  <1> QED BY <1>2, <1>3, <1>4, <1>6, <1>7

\* TreeInv is inductive.
LEMMA TreeAlways == Spec => []TreeInv
  <1>1. TreeInv /\ [Next]_entry => TreeInv'
    <2> SUFFICES ASSUME TreeInv, [Next]_entry PROVE TreeInv'
      OBVIOUS
    <2>1. CASE Next
      BY <2>1, CreateKeepsTree, RemoveKeepsTree, MoveKeepsTree DEF Next
    <2>2. CASE UNCHANGED entry
      BY <2>2 DEF TreeInv, TypeOK, UniqueNames, OneEntry, OnlyDirectoriesHoldEntries,
                  Rooted, Listed, IsDirectory, Within, Closed
    <2> QED BY <2>1, <2>2
  <1> QED BY InitTree, <1>1, PTL DEF Spec

\* Entries are names, types and inodes (write, delete, move_dir).
THEOREM EntriesTyped == Spec => []TypeOK
  BY TreeAlways, PTL DEF TreeInv

\* No two entries of a directory have the same name (write, move_dir).
THEOREM NamesAreUnique == Spec => []UniqueNames
  BY TreeAlways, PTL DEF TreeInv

\* Every file and directory has one entry in one directory (write, move_dir).
THEOREM OneParent == Spec => []OneEntry
  BY TreeAlways, PTL DEF TreeInv

\* delete takes away no directory that has entries (is_directory_empty).
THEOREM DirectoriesHoldEntries == Spec => []OnlyDirectoriesHoldEntries
  BY TreeAlways, PTL DEF TreeInv

\* A path from the root leads to every file and directory, after any moves that
\* do not go into the moved directory (move_dir).
THEOREM EverythingBelowRoot == Spec => []Rooted
  BY TreeAlways, PTL DEF TreeInv

(***************************************************************************)
(* Shell: its commands are made of the operations of Directory.             *)
(***************************************************************************)

Data     == Contents \cup {NoText}
NodeType == [mode : FileType \cup {"FREE"}, up : Inode \cup {NoInode}, data : Data]

NodesAgree ==
    /\ node \in [Inode -> NodeType]
    /\ \A p \in Inode : \A e \in entry[p] :
          node[e[3]].mode = e[2] /\ (e[2] = "DIR" => node[e[3]].up = p)
    /\ node[Root].mode = "DIR" /\ node[Root].up = Root
    /\ \A i \in Inode : ~Live(i) => node[i] = Blank

ShellInv == /\ TreeInv
            /\ NodesAgree
            /\ currentdirnode \in Inode /\ is_dir \in BOOLEAN
            /\ currentdir \in Seq(Part) /\ Len(currentdir) <= MaxText

\* The value that stands for no inode is none; the root is one.
LEMMA NoInodeIsNone == NoInode \notin Inode /\ Root \in Inode
  BY ShellAssumption, RootAssumption DEF NoInode

\* A set of naturals that is not empty has a least member.
LEMMA Least ==
    ASSUME NEW Q \in SUBSET Nat, Q # {}
    PROVE  \E d \in Q : \A e \in Q : d <= e
  <1>1. PICK d \in Q : \A e \in Q : <<e, d>> \notin OpToRel(<, Nat)
    BY NatLessThanWellFounded, WFMin
  <1>2. ASSUME NEW e \in Q, e < d PROVE FALSE
    <2>1. <<e, d>> \in Nat \X Nat /\ <<e, d>>[1] < <<e, d>>[2]
      BY <1>2
    <2> QED  BY <1>1, <2>1 DEF OpToRel
  <1> QED  BY <1>2

\* allocate_node takes the lowest free inode, and there is one.
LEMMA NewInodeIsFree == ASSUME Free # {} PROVE NewInode \in Free
  <1>1. Free \in SUBSET Nat
    BY ShellAssumption DEF Free
  <1>2. PICK i \in Free : \A j \in Free : i <= j
    BY <1>1, Least
  <1> QED  BY <1>2 DEF NewInode

\* What a lookup of a file finds is an inode.
LEMMA FileIsInode ==
    ASSUME TypeOK, NEW i, NEW path, FileAt(i, path) # NoInode PROVE FileAt(i, path) \in Inode
  BY DEF FileAt, Found, TypeOK, Entry

(***************************************************************************)
(* What the system calls do to the directories and to the inode table.     *)
(***************************************************************************)

Creates(p, e, d) ==
    /\ Create(p, e)
    /\ node' = [node EXCEPT ![e[3]] = [mode |-> e[2], data |-> d,
                                       up |-> IF e[2] = "DIR" THEN p ELSE NoInode]]
Removes(p, e)     == Remove(p, e) /\ node' = [node EXCEPT ![e[3]] = Blank]
Moves(p, e, q, n) == Move(p, e, q, n) /\ node' = [node EXCEPT ![e[3]].up = q]

CallStep ==
    \/ \E p \in Inode, e \in Entry, d \in Data : Creates(p, e, d)
    \/ \E p \in Inode, e \in Entry : Removes(p, e)
    \/ \E p, q \in Inode, e \in Entry, n \in Names : Moves(p, e, q, n)
    \/ UNCHANGED <<entry, node>>

\* A system call that writes is a creation in Directory, or changes no entry.
LEMMA WriteIsCall ==
    ASSUME NEW at, NEW path, NEW type \in FileType, NEW data \in Data,
           SysWrite(at, path, type, data)
    PROVE  CallStep
  <1> DEFINE p == Resolve(at, path)
             e == <<Name(path), type, NewInode>>
  <1>1. CASE ~CanWrite(at, path) /\ UNCHANGED <<entry, node>>
    BY <1>1 DEF CallStep
  <1>2. CASE /\ CanWrite(at, path) /\ Free # {} /\ Name(path) \in Names
             /\ Create(p, e)
             /\ node' = [node EXCEPT ![NewInode] = [mode |-> type, data |-> data,
                                                        up |-> IF type = "DIR" THEN p ELSE NoInode]]
    <2>1. p \in Inode /\ NewInode \in Inode
      BY <1>2, NewInodeIsFree DEF CanWrite, Free
    <2>2. e \in Entry /\ e[2] = type /\ e[3] = NewInode
      BY <1>2, <2>1 DEF Entry
    <2> HIDE DEF p, e
    <2>3. Creates(p, e, data)
      BY <1>2, <2>2 DEF Creates
    <2> QED  BY <2>1, <2>2, <2>3 DEF CallStep
  <1> QED  BY <1>1, <1>2 DEF SysWrite

\* A system call that deletes is a removal in Directory, or changes no entry.
LEMMA DeleteIsCall ==
    ASSUME TypeOK, NEW at, NEW path, NEW dir, SysDelete(at, path, dir)
    PROVE  CallStep
  <1>1. CASE UNCHANGED <<entry, node>>
    BY <1>1 DEF CallStep
  <1>2. ASSUME NEW e \in Deletable(at, path, dir), Remove(Resolve(at, path), e),
               node' = [node EXCEPT ![e[3]] = Blank]
        PROVE  CallStep
    <2>1. Resolve(at, path) \in Inode /\ e \in Entry
      BY <1>2 DEF Deletable, TypeOK
    <2> QED  BY <1>2, <2>1 DEF CallStep, Removes
  <1> QED  BY <1>1, <1>2 DEF SysDelete

\* A system call that moves is a move in Directory, or changes no entry.
LEMMA MoveIsCall ==
    ASSUME TypeOK, currentdirnode \in Inode, NEW src, NEW dst, SysMoveDir(src, dst)
    PROVE  CallStep
  <1> DEFINE p == Resolve(currentdirnode, src)
             d == DirAt(currentdirnode, dst)
             q == IF d \in Inode THEN d ELSE currentdirnode
             n == IF d \in Inode THEN Name(src) ELSE Name(dst)
  <1>1. p \in Inode /\ q \in Inode /\ n \in Names
    BY DEF SysMoveDir
  <1>2. PICK e \in {e \in entry[p] : e[1] = Name(src) /\ e[2] = "DIR"} :
          Move(p, e, q, n) /\ node' = [node EXCEPT ![e[3]].up = q]
    BY DEF SysMoveDir
  <1>3. e \in Entry
    BY <1>1, <1>2 DEF TypeOK
  <1> HIDE DEF p, q, n
  <1> QED  BY <1>1, <1>2, <1>3 DEF CallStep, Moves

\* Inode table and directories go on agreeing.
LEMMA CallKeeps ==
    ASSUME TreeInv, NodesAgree, CallStep
    PROVE  TreeInv' /\ NodesAgree'
  <1> USE DEF NodesAgree
  <1>0. TypeOK /\ OneEntry
    BY DEF TreeInv
  <1>1. ASSUME NEW p \in Inode, NEW e \in Entry, NEW d \in Data, Creates(p, e, d)
        PROVE  TreeInv' /\ NodesAgree'
    <2>1. TreeInv'
      BY <1>1, CreateKeepsTree DEF Creates
    <2>2. /\ e[2] \in FileType /\ e[3] \in Inode /\ e[3] # Root /\ ~Listed(e[3])
          /\ \A c \in Inode : entry'[c] = entry[c] \cup (IF c = p THEN {e} ELSE {})
          /\ node'[e[3]] = [mode |-> e[2], data |-> d, up |-> IF e[2] = "DIR" THEN p ELSE NoInode]
          /\ \A i \in Inode : i # e[3] => node'[i] = node[i]
      BY <1>0, <1>1 DEF Creates, Create, TypeOK, Entry
    <2>3. node' \in [Inode -> NodeType]
      <3>1. node'[e[3]] \in NodeType
        BY <2>2 DEF NodeType
      <3> QED  BY <1>1, <2>2, <3>1 DEF Creates
    <2>4. \A i \in Inode : Listed(i)' <=> Listed(i) \/ i = e[3]
      BY <2>2 DEF Listed
    <2>5. \A c \in Inode : \A f \in entry'[c] :
             node'[f[3]].mode = f[2] /\ (f[2] = "DIR" => node'[f[3]].up = c)
      <3> SUFFICES ASSUME NEW c \in Inode, NEW f \in entry'[c]
                   PROVE  node'[f[3]].mode = f[2] /\ (f[2] = "DIR" => node'[f[3]].up = c)
        OBVIOUS
      <3>1. CASE f = e /\ c = p
        BY <2>2, <3>1
      <3>2. CASE f \in entry[c]
        <4>1. f[3] # e[3] /\ f[3] \in Inode
          BY <1>0, <2>2, <3>2 DEF Listed, TypeOK, Entry
        <4> QED  BY <2>2, <3>2, <4>1
      <3> QED  BY <2>2, <3>1, <3>2
    <2>6. \A i \in Inode : ~Live(i)' => node'[i] = Blank
      BY <2>2, <2>4 DEF Live
    <2>7. node'[Root].mode = "DIR" /\ node'[Root].up = Root
      BY <2>2, NoInodeIsNone
    <2> QED  BY <2>1, <2>3, <2>5, <2>6, <2>7
  <1>2. ASSUME NEW p \in Inode, NEW e \in Entry, Removes(p, e)
        PROVE  TreeInv' /\ NodesAgree'
    <2>1. TreeInv'
      BY <1>2, RemoveKeepsTree DEF Removes
    <2>2. /\ e \in entry[p] /\ e[3] \in Inode /\ e[3] # Root
          /\ \A c \in Inode : entry'[c] = entry[c] \ (IF c = p THEN {e} ELSE {})
          /\ node'[e[3]] = Blank
          /\ \A i \in Inode : i # e[3] => node'[i] = node[i]
      BY <1>0, <1>2 DEF Removes, Remove, Removable, TypeOK, Entry, OneEntry
    <2>3. node' \in [Inode -> NodeType]
      BY <1>2, <2>2 DEF Removes, NodeType, Blank, Data
    <2>4. \A i \in Inode : i # e[3] => (Listed(i)' <=> Listed(i))
      BY <2>2 DEF Listed
    <2>5. \A c \in Inode : \A f \in entry'[c] :
             node'[f[3]].mode = f[2] /\ (f[2] = "DIR" => node'[f[3]].up = c)
      <3> SUFFICES ASSUME NEW c \in Inode, NEW f \in entry'[c]
                   PROVE  node'[f[3]].mode = f[2] /\ (f[2] = "DIR" => node'[f[3]].up = c)
        OBVIOUS
      <3>1. f \in entry[c] /\ f[3] \in Inode /\ f[3] # e[3]
        BY <1>0, <2>2 DEF OneEntry, TypeOK, Entry
      <3> QED  BY <2>2, <3>1
    <2>6. \A i \in Inode : ~Live(i)' => node'[i] = Blank
      BY <2>2, <2>4 DEF Live
    <2>7. node'[Root].mode = "DIR" /\ node'[Root].up = Root
      BY <2>2, NoInodeIsNone
    <2> QED  BY <2>1, <2>3, <2>5, <2>6, <2>7
  <1>3. ASSUME NEW p \in Inode, NEW q \in Inode, NEW e \in Entry, NEW n \in Names, Moves(p, e, q, n)
        PROVE  TreeInv' /\ NodesAgree'
    <2>1. TreeInv'
      BY <1>3, MoveKeepsTree DEF Moves
    <2> DEFINE f == <<n, "DIR", e[3]>>
    <2>2. /\ e \in entry[p] /\ e[2] = "DIR" /\ e[3] \in Inode /\ e[3] # Root
          /\ f[2] = "DIR" /\ f[3] = e[3]
          /\ \A c \in Inode : entry'[c] = (entry[c] \ (IF c = p THEN {e} ELSE {}))
                                            \cup (IF c = q THEN {f} ELSE {})
      BY <1>0, <1>3 DEF Moves, Move, TypeOK, Entry, OneEntry
    <2> HIDE DEF f
    <2>3. /\ node' \in [Inode -> NodeType]
          /\ node'[e[3]].mode = "DIR" /\ node'[e[3]].up = q
          /\ \A i \in Inode : i # e[3] => node'[i] = node[i]
      <3>1. node' = [node EXCEPT ![e[3]].up = q] /\ node[e[3]].mode = "DIR"
        BY <1>3, <2>2 DEF Moves
      <3> QED  BY <2>2, <3>1 DEF NodeType
    <2>4. \A i \in Inode : Listed(i)' <=> Listed(i)
      BY <2>2 DEF Listed
    <2>5. \A c \in Inode : \A g \in entry'[c] :
             node'[g[3]].mode = g[2] /\ (g[2] = "DIR" => node'[g[3]].up = c)
      <3> SUFFICES ASSUME NEW c \in Inode, NEW g \in entry'[c]
                   PROVE  node'[g[3]].mode = g[2] /\ (g[2] = "DIR" => node'[g[3]].up = c)
        OBVIOUS
      <3>1. CASE g = f /\ c = q
        BY <2>2, <2>3, <3>1
      <3>2. CASE g \in entry[c] /\ g # e
        <4>1. g[3] \in Inode /\ g[3] # e[3]
          BY <1>0, <2>2, <3>2 DEF OneEntry, TypeOK, Entry
        <4> QED  BY <2>3, <3>2, <4>1
      <3>3. (g = f /\ c = q) \/ (g \in entry[c] /\ ~(c = p /\ g = e))
        BY <2>2
      <3>4. g \in entry[c] /\ ~(c = p /\ g = e) => g # e
        BY <1>0, <2>2 DEF OneEntry
      <3> QED  BY <3>1, <3>2, <3>3, <3>4
    <2>6. \A i \in Inode : ~Live(i)' => node'[i] = Blank
      BY <2>2, <2>3, <2>4 DEF Live, Listed
    <2>7. node'[Root].mode = "DIR" /\ node'[Root].up = Root
      BY <2>2, <2>3, NoInodeIsNone
    <2> QED  BY <2>1, <2>3, <2>5, <2>6, <2>7
  <1>4. CASE UNCHANGED <<entry, node>>
    BY <1>4 DEF TreeInv, TypeOK, UniqueNames, OneEntry, OnlyDirectoriesHoldEntries, Rooted,
                Listed, IsDirectory, Within, Closed, Live
  <1> QED  BY <1>1, <1>2, <1>3, <1>4 DEF CallStep

(***************************************************************************)
(* Paths. Kernel and shell go over a path one component after the other.   *)
(***************************************************************************)

\* What 0 has, and with each number up to n the next, all numbers up to n have.
LEMMA Upward ==
    ASSUME NEW n \in Nat, NEW Q, 0 \in Q, \A k \in 1 .. n : k - 1 \in Q => k \in Q
    PROVE  0 .. n \subseteq Q
  <1> DEFINE E == {k \in 0 .. n : k \notin Q}
  <1>1. ASSUME E # {} PROVE FALSE
    <2>1. PICK d \in E : \A e \in E : d <= e
      <3>1. E \in SUBSET Nat
        OBVIOUS
      <3> HIDE DEF E
      <3> QED  BY <1>1, <3>1, Least
    <2>2. d \in 1 .. n /\ d \notin Q
      BY <2>1
    <2>3. d - 1 \in 0 .. n /\ d - 1 \notin E
      BY <2>1, <2>2
    <2> QED  BY <2>2, <2>3
  <1> QED  BY <1>1

\* F is applied along 0 .. n, the k-th time with k.
Iterates(f, n, F, v) == f[0] = v /\ \A k \in 1 .. n : f[k] = F[k][f[k - 1]]

\* Functions that are written by recursion over a path exist, and are typed.
LEMMA Iteration ==
    ASSUME NEW V, NEW n \in Nat, NEW F \in [1 .. n -> [V -> V]], NEW v \in V
    PROVE  \E f \in [0 .. n -> V] : Iterates(f, n, F, v)
  <1> DEFINE Q == {k \in Nat : \E f \in [0 .. k -> V] : Iterates(f, k, F, v)}
  <1>1. 0 \in Q
    <2>1. [i \in 0 .. 0 |-> v] \in [0 .. 0 -> V] /\ Iterates([i \in 0 .. 0 |-> v], 0, F, v)
      BY DEF Iterates
    <2> QED  BY <2>1
  <1>2. ASSUME NEW k \in 1 .. n, k - 1 \in Q PROVE k \in Q
    <2>1. PICK f \in [0 .. k - 1 -> V] : Iterates(f, k - 1, F, v)
      BY <1>2
    <2>2. F[k] \in [V -> V] /\ f[k - 1] \in V
      OBVIOUS
    <2> DEFINE g == [i \in 0 .. k |-> IF i < k THEN f[i] ELSE F[k][f[k - 1]]]
    <2>3. g \in [0 .. k -> V]
      BY <2>2
    <2>4. g[0] = v /\ g[k] = F[k][g[k - 1]]
      BY <2>1 DEF Iterates
    <2>5. \A i \in 1 .. k - 1 : g[i] = F[i][g[i - 1]]
      BY <2>1 DEF Iterates
    <2> HIDE DEF g
    <2>6. Iterates(g, k, F, v)
      BY <2>4, <2>5 DEF Iterates
    <2> QED  BY <2>3, <2>6
  <1>3. 0 .. n \subseteq Q
    <2> HIDE DEF Q
    <2> QED  BY <1>1, <1>2, Upward
  <1>4. n \in Q
    <2> HIDE DEF Q
    <2> QED  BY <1>3
  <1> QED  BY <1>4

\* The components of a path.
LEMMA Components ==
    ASSUME NEW path \in Seq(STRING), path # <<>>
    PROVE  Len(path) \in Nat \ {0} /\ \A k \in 1 .. Len(path) : path[k] \in STRING
  OBVIOUS

PartOf(path, k) == <<path[k], k = Len(path) /\ \E j \in 1 .. k - 1 : IsName(path[j])>>

TextStep(path) ==
    [k \in 1 .. Len(path) |-> [t \in Seq(Part) |->
        IF path[k] = "" THEN IF k = Len(path) THEN t ELSE <<>>
        ELSE IF path[k] = "." THEN t
        ELSE IF path[k] = ".." THEN Seqs!Front(t)
        ELSE Append(t, PartOf(path, k))]]

\* The text of the shell after each component, from the one before.
LEMMA TextFollows ==
    ASSUME NEW text \in Seq(Part), NEW path \in Seq(STRING), path # <<>>
    PROVE  /\ TextAfter(text, path) \in [0 .. Len(path) -> Seq(Part)]
           /\ Iterates(TextAfter(text, path), Len(path), TextStep(path), text)
  <1> DEFINE n == Len(path)
             F(g) == [k \in 0 .. Len(path) |->
                        IF k = 0 THEN text
                        ELSE IF path[k] = "" THEN IF k = Len(path) THEN g[k - 1] ELSE <<>>
                        ELSE IF path[k] = "." THEN g[k - 1]
                        ELSE IF path[k] = ".." THEN Seqs!Front(g[k - 1])
                        ELSE Append(g[k - 1], <<path[k], k = Len(path) /\ \E j \in 1 .. k - 1 : IsName(path[j])>>)]
             w == CHOOSE g : g = F(g)
  <1>1. TextAfter(text, path) = w
    BY DEF TextAfter
  <1>2. TextStep(path) \in [1 .. n -> [Seq(Part) -> Seq(Part)]]
    <2> SUFFICES ASSUME NEW k \in 1 .. n, NEW t \in Seq(Part)
                 PROVE  TextStep(path)[k][t] \in Seq(Part)
      BY DEF TextStep
    <2>1. Seqs!Front(t) \in Seq(Part)
      BY DEF Seqs!Front
    <2>2. IsName(path[k]) => PartOf(path, k) \in Part
      BY Components DEF PartOf, Part
    <2>3. IsName(path[k]) => Append(t, PartOf(path, k)) \in Seq(Part)
      BY <2>2
    <2>4. <<>> \in Seq(Part)
      OBVIOUS
    <2>5. TextStep(path)[k][t] = IF path[k] = "" THEN IF k = Len(path) THEN t ELSE <<>>
                                 ELSE IF path[k] = "." THEN t
                                 ELSE IF path[k] = ".." THEN Seqs!Front(t)
                                 ELSE Append(t, PartOf(path, k))
      BY DEF TextStep
    <2> QED  BY <2>1, <2>3, <2>4, <2>5, Zenon DEF IsName
  <1>3. PICK f \in [0 .. n -> Seq(Part)] : Iterates(f, n, TextStep(path), text)
    BY <1>2, Components, Iteration
  <1>4. f = F(f)
    <2>1. ASSUME NEW k \in 0 .. n PROVE f[k] = F(f)[k]
      <3>1. CASE k = 0
        BY <1>3, <3>1 DEF Iterates
      <3>2. CASE k # 0
        <4>1. k \in 1 .. n /\ k - 1 \in 0 .. n
          BY <3>2, Components
        <4>2. f[k] = TextStep(path)[k][f[k - 1]] /\ f[k - 1] \in Seq(Part)
          BY <1>3, <4>1 DEF Iterates
        <4> QED  BY <4>1, <4>2, <3>2 DEF TextStep, PartOf
      <3> QED  BY <3>1, <3>2
    <2> QED  BY <2>1
  <1>5. w = F(w)
    <2> HIDE DEF F
    <2> QED  BY <1>4
  <1>6. w \in [0 .. n -> Seq(Part)] /\ Iterates(w, n, TextStep(path), text)
    <2> DEFINE Q == {k \in 0 .. n : w[k] = f[k]}
    <2> HIDE DEF w
    <2>1. 0 \in Q
      <3>1. 0 \in 0 .. n /\ f[0] = text
        BY <1>3, Components DEF Iterates
      <3>2. F(w)[0] = text
        BY <3>1
      <3>3. w[0] = F(w)[0]
        <4> HIDE DEF F
        <4> QED  BY <1>5
      <3> QED  BY <3>1, <3>2, <3>3
    <2>2. ASSUME NEW k \in 1 .. n, k - 1 \in Q PROVE k \in Q
      <3>1. k \in 0 .. n /\ w[k - 1] = f[k - 1]
        BY <2>2
      <3>2. F(w)[k] = F(f)[k]
        BY <3>1
      <3> QED  BY <1>4, <1>5, <3>1, <3>2
    <2>3. 0 .. n \subseteq Q
      <3> HIDE DEF Q
      <3> QED  BY <2>1, <2>2, Components, Upward
    <2>4. w = f
      <3>1. \A k \in 0 .. n : w[k] = f[k]
        BY <2>3
      <3>2. w = [k \in 0 .. n |-> w[k]]
        <4>1. w = F(w)
          BY <1>5
        <4> QED  BY <4>1
      <3>3. f = [k \in 0 .. n |-> f[k]]
        OBVIOUS
      <3> QED  BY <3>1, <3>2, <3>3
    <2> QED  BY <1>3, <2>4
  <1> QED  BY <1>1, <1>6

\* Where the shell stops, one component short of the first ".." in the root.
LEMMA StopsAt ==
    ASSUME NEW text, NEW path \in Seq(STRING), path # <<>>
    PROVE  \E k \in 0 .. Len(path) :
              /\ ResolveText(text, path) = TextAfter(text, path)[k]
              /\ Lost(text, path) = {} => k = Len(path)
              /\ Lost(text, path) = {Len(path)} => k = Len(path) - 1
  <1>1. CASE Lost(text, path) = {}
    BY <1>1, Components DEF ResolveText
  <1>2. CASE Lost(text, path) # {}
    <2>1. Lost(text, path) \in SUBSET Nat /\ Lost(text, path) \subseteq 1 .. Len(path)
      BY DEF Lost
    <2>2. PICK d \in Lost(text, path) : \A e \in Lost(text, path) : d <= e
      BY <1>2, <2>1, Least
    <2>3. Seqs!Min(Lost(text, path)) = CHOOSE e \in Lost(text, path) : \A y \in Lost(text, path) : e <= y
      BY DEF Seqs!Min
    <2>4. Seqs!Min(Lost(text, path)) \in Lost(text, path)
      BY <2>2, <2>3
    <2> QED  BY <1>2, <2>1, <2>4 DEF ResolveText
  <1> QED  BY <1>1, <1>2

\* resolve_new_path leaves names and nothing else in the text.
LEMMA TextTyped ==
    ASSUME NEW text \in Seq(Part), NEW path \in Seq(STRING), path # <<>>
    PROVE  ResolveText(text, path) \in Seq(Part)
  BY TextFollows, StopsAt

Places     == Inode \cup {NoInode}
Step(x, c) == IF x = NoInode THEN NoInode ELSE IF c = "" THEN Root ELSE Find(x, c)

WalkStep(path) == [k \in 1 .. Len(path) |-> [x \in Places |-> Step(x, path[k])]]

\* What a table and the inode table say of a name is an inode, or none.
LEMMA FindTyped ==
    ASSUME TypeOK, NodesAgree, Idle, NEW i \in Inode, NEW c
    PROVE  /\ Stored(i) = node[i]
           /\ Find(i, c) \in Places
  <1>1. Stored(i) = node[i]
    BY DEF Stored
  <1>2. node[i].up \in Places
    BY DEF NodesAgree, NodeType, Places
  <1>3. Found({e \in entry[i] : e[1] = c /\ e[2] = "DIR"}) \in Places
    BY DEF Found, TypeOK, Entry, Places
  <1> QED  BY <1>1, <1>2, <1>3 DEF Find, Places

NoName(c) == c = ""
Texts   == STRING \cup {""}
Nowhere == <<"">>
TheRoot == <<"", "">>

\* The paths that read_directory takes for the root.
LEMMA Shortest ==
    /\ Len(Nowhere) = 1 /\ Nowhere[1] = ""
    /\ Len(TheRoot) = 2 /\ TheRoot[1] = "" /\ TheRoot[2] = ""
  BY DEF Nowhere, TheRoot

\* The kernel's place after each component, from the one before; read_directory
\* answers the last one.
LEMMA WalkFollows ==
    ASSUME TypeOK, NodesAgree, Idle, NEW i \in Inode,
           NEW path, path # Nowhere, Len(path) \in Nat \ {0},
           \A k \in 1 .. Len(path) : path[k] \in Texts
    PROVE  \E f \in [0 .. Len(path) -> Places] :
              /\ Iterates(f, Len(path), WalkStep(path), i)
              /\ DirAt(i, path) # NoInode => DirAt(i, path) = f[Len(path)]
              /\ DirAt(i, path) # NoInode /\ Name(path) = "" => path = TheRoot
              /\ Name(path) # "" => DirAt(i, path) = f[Len(path)]
  <1> DEFINE n == Len(path)
             F(g) == [k \in 0 .. Len(path) |->
                        IF k = 0 THEN i
                        ELSE IF g[k - 1] = NoInode THEN NoInode
                        ELSE IF path[k] = "" THEN Root ELSE Steps[g[k - 1]][path[k]]]
             w == CHOOSE g : g = F(g)
  <1>0. n \in Nat /\ n >= 1
    OBVIOUS
  <1>1. Resolve(i, path) = IF Name(path) = "" THEN NoInode ELSE w[Len(path) - 1]
    BY DEF Resolve, Walk
  <1>2. ASSUME NEW k \in 1 .. n, NEW x \in Places
        PROVE  /\ WalkStep(path)[k][x] \in Places
               /\ WalkStep(path)[k][x] = IF x = NoInode THEN NoInode
                                         ELSE IF path[k] = "" THEN Root ELSE Steps[x][path[k]]
    <2>1. WalkStep(path)[k][x] = Step(x, path[k])
      BY DEF WalkStep
    <2>2. x # NoInode => x \in Inode
      BY DEF Places
    <2>3. x # NoInode /\ path[k] # "" => Steps[x][path[k]] = Find(x, path[k])
      BY <2>2 DEF Steps, Texts
    <2> QED  BY <2>1, <2>2, <2>3, FindTyped, NoInodeIsNone DEF Step, Places
  <1>3. PICK f \in [0 .. n -> Places] : Iterates(f, n, WalkStep(path), i)
    <2>1. WalkStep(path) \in [1 .. n -> [Places -> Places]]
      BY <1>2 DEF WalkStep
    <2> QED  BY <1>0, <2>1, Iteration DEF Places
  <1>4. f = F(f)
    <2>1. ASSUME NEW k \in 0 .. n PROVE f[k] = F(f)[k]
      <3>1. CASE k = 0
        BY <1>3, <3>1 DEF Iterates
      <3>2. CASE k # 0
        <4>1. k \in 1 .. n /\ k - 1 \in 0 .. n
          BY <1>0, <3>2
        <4>2. f[k] = WalkStep(path)[k][f[k - 1]] /\ f[k - 1] \in Places
          BY <1>3, <4>1 DEF Iterates
        <4> QED  BY <1>2, <4>1, <4>2, <3>2
      <3> QED  BY <3>1, <3>2
    <2> QED  BY <2>1
  <1>5. w = F(w)
    <2> HIDE DEF F
    <2> QED  BY <1>4
  <1>6. \A k \in 0 .. n : w[k] = f[k]
    <2> DEFINE Q == {k \in 0 .. n : w[k] = f[k]}
    <2> HIDE DEF w
    <2>1. 0 \in Q
      <3>1. 0 \in 0 .. n /\ f[0] = i
        BY <1>0, <1>3 DEF Iterates
      <3>2. F(w)[0] = i
        BY <3>1
      <3>3. w[0] = F(w)[0]
        <4> HIDE DEF F
        <4> QED  BY <1>5
      <3> QED  BY <3>1, <3>2, <3>3
    <2>2. ASSUME NEW k \in 1 .. n, k - 1 \in Q PROVE k \in Q
      <3>1. k \in 0 .. n /\ w[k - 1] = f[k - 1]
        BY <2>2
      <3>2. F(w)[k] = F(f)[k]
        BY <3>1
      <3> QED  BY <1>4, <1>5, <3>1, <3>2
    <2>3. 0 .. n \subseteq Q
      <3> HIDE DEF Q
      <3> QED  BY <1>0, <2>1, <2>2, Upward
    <2> QED  BY <2>3
  <1> HIDE DEF w, F
  <1>7. DirAt(i, path) = IF path = TheRoot THEN Root
                          ELSE IF Resolve(i, path) \in Inode THEN Find(Resolve(i, path), Name(path))
                          ELSE NoInode
    BY Zenon DEF DirAt, Nowhere, TheRoot
  <1>8. ASSUME Name(path) # "" PROVE DirAt(i, path) = f[n]
    <2>1. n - 1 \in 0 .. n /\ n \in 1 .. n
      BY <1>0
    <2>2. Resolve(i, path) = f[n - 1] /\ f[n - 1] \in Places
      BY <1>1, <1>6, <1>8, <2>1
    <2>3. f[n] = Step(f[n - 1], Name(path))
      <3>1. f[n] = WalkStep(path)[n][f[n - 1]]
        BY <1>3, <2>1 DEF Iterates
      <3> QED  BY <2>1, <2>2, <3>1 DEF WalkStep, Name
    <2>4. path # TheRoot
      BY <1>8, Shortest DEF Name
    <2> QED  BY <1>8, <1>7, <2>2, <2>3, <2>4, NoInodeIsNone DEF Step, Places
  <1>9. ASSUME Name(path) = "", path # TheRoot PROVE DirAt(i, path) = NoInode
    BY <1>1, <1>7, <1>9, NoInodeIsNone
  <1>10. ASSUME path = TheRoot PROVE DirAt(i, path) = Root /\ f[n] = Root
    <2>1. n = 2 /\ path[1] = "" /\ path[2] = "" /\ f[1] \in Places /\ 1 \in 1 .. n /\ 2 \in 1 .. n
      <3>1. path[1] = "" /\ path[2] = ""
        BY <1>10, Shortest
      <3>2. n = 2
        BY <1>10, Shortest
      <3>3. 1 \in 0 .. n /\ 1 \in 1 .. n /\ 2 \in 1 .. n
        BY <3>2
      <3> QED  BY <3>1, <3>2, <3>3
    <2>2. f[1] = WalkStep(path)[1][f[0]] /\ f[2] = WalkStep(path)[2][f[1]] /\ f[0] = i
      <3>1. f[1] = WalkStep(path)[1][f[1 - 1]] /\ f[2] = WalkStep(path)[2][f[2 - 1]]
        BY <1>3, <2>1 DEF Iterates
      <3> QED  BY <1>3, <3>1 DEF Iterates
    <2>3. f[1] = Root
      BY <2>1, <2>2, NoInodeIsNone DEF WalkStep, Step, Places
    <2> QED  BY <1>7, <1>10, <2>1, <2>2, <2>3, NoInodeIsNone DEF WalkStep, Step, Places
  <1> QED  BY <1>3, <1>8, <1>9, <1>10

\* The names of text t lead from the root to directory i.
LeadsTo(t, i) ==
    \E g \in [0 .. Len(t) -> Places] :
       g[0] = Root /\ g[Len(t)] = i /\ \A k \in 1 .. Len(t) : g[k] = Step(g[k - 1], t[k][1])

\* What a name of a directory leads to has that directory as its "..".
LEMMA FindDown ==
    ASSUME TypeOK, NodesAgree, Idle, NEW x \in Inode, NEW i \in Inode, NEW c, IsName(c), Find(x, c) = i
    PROVE  Find(i, "..") = x
  <1> DEFINE S == {e \in entry[x] : e[1] = c /\ e[2] = "DIR"}
  <1>1. Found(S) = i
    BY NoInodeIsNone DEF Find, IsName
  <1>2. PICK e \in S : e[3] = i
    BY <1>1, NoInodeIsNone DEF Found
  <1>3. node[i].mode = "DIR" /\ node[i].up = x
    BY <1>2 DEF NodesAgree
  <1>4. Stored(i) = node[i]
    BY FindTyped
  <1> QED  BY <1>3, <1>4 DEF Find

\* "." of a directory is itself, and ".." of the root is the root.
LEMMA FindSelf ==
    ASSUME TypeOK, NodesAgree, Idle, NEW i \in Inode
    PROVE  /\ Find(i, ".") \in Inode => Find(i, ".") = i
           /\ Find(Root, "..") = Root
  <1>1. Stored(Root) = node[Root]
    BY FindTyped, NoInodeIsNone
  <1> QED  BY <1>1, NoInodeIsNone DEF Find, NodesAgree

\* No name at all leads to the root.
LEMMA LeadsNowhere == ASSUME NEW i PROVE LeadsTo(<<>>, i) <=> i = Root
  <1>1. Len(<<>>) = 0
    OBVIOUS
  <1>2. [k \in 0 .. 0 |-> Root] \in [0 .. 0 -> Places]
    BY NoInodeIsNone DEF Places
  <1>3. ASSUME LeadsTo(<<>>, i) PROVE i = Root
    BY <1>1, <1>3 DEF LeadsTo
  <1>4. LeadsTo(<<>>, Root)
    <2> DEFINE g == [k \in 0 .. 0 |-> Root]
    <2>1. g[0] = Root /\ 1 .. 0 = {}
      OBVIOUS
    <2>2. g \in [0 .. 0 -> Places]
      BY <1>2
    <2> HIDE DEF g
    <2> QED  BY <1>1, <2>1, <2>2 DEF LeadsTo
  <1> QED  BY <1>3, <1>4

\* One name more leads to where it leads from there.
LEMMA LeadsDown ==
    ASSUME NEW t \in Seq(Part), NEW i, LeadsTo(t, i), NEW p \in Part, NEW j \in Places, j = Step(i, p[1])
    PROVE  LeadsTo(Append(t, p), j)
  <1> DEFINE n == Len(t)
             u == Append(t, p)
  <1>1. n \in Nat /\ Len(u) = n + 1 /\ u[n + 1] = p /\ \A k \in 1 .. n : u[k] = t[k]
    OBVIOUS
  <1>2. PICK g \in [0 .. n -> Places] :
           g[0] = Root /\ g[n] = i /\ \A k \in 1 .. n : g[k] = Step(g[k - 1], t[k][1])
    BY DEF LeadsTo
  <1> DEFINE h == [k \in 0 .. n + 1 |-> IF k <= n THEN g[k] ELSE j]
  <1> HIDE DEF u, n
  <1>3. h \in [0 .. n + 1 -> Places]
    BY <1>1
  <1>4. h[0] = Root /\ h[n] = i /\ h[n + 1] = j
    BY <1>1, <1>2
  <1>5. \A k \in 1 .. n : h[k] = Step(h[k - 1], u[k][1])
    <2> SUFFICES ASSUME NEW k \in 1 .. n PROVE h[k] = Step(h[k - 1], u[k][1])
      OBVIOUS
    <2>1. h[k] = g[k] /\ h[k - 1] = g[k - 1]
      BY <1>1
    <2> QED  BY <1>1, <1>2, <2>1
  <1>6. h[n + 1] = Step(h[n], u[n + 1][1])
    BY <1>1, <1>4
  <1> HIDE DEF h
  <1>7. \A k \in 1 .. n + 1 : h[k] = Step(h[k - 1], u[k][1])
    <2> SUFFICES ASSUME NEW k \in 1 .. n + 1 PROVE h[k] = Step(h[k - 1], u[k][1])
      OBVIOUS
    <2>1. k \in 1 .. n \/ (k = n + 1 /\ k - 1 = n)
      BY <1>1
    <2> QED  BY <1>5, <1>6, <2>1
  <1>8. LeadsTo(u, j)
    BY <1>1, <1>3, <1>4, <1>7 DEF LeadsTo
  <1> QED  BY <1>8 DEF u

\* One name less leads to "..".
LEMMA LeadsUp ==
    ASSUME TypeOK, NodesAgree, Idle, NEW t \in Seq(Part), t # <<>>, NEW i \in Inode, LeadsTo(t, i)
    PROVE  LeadsTo(Seqs!Front(t), Find(i, ".."))
  <1> DEFINE n == Len(t)
             u == Seqs!Front(t)
  <1>1. /\ n \in Nat /\ n >= 1 /\ Len(u) = n - 1
        /\ \A k \in 1 .. n - 1 : u[k] = t[k]
    BY DEF Seqs!Front
  <1>2. PICK g \in [0 .. n -> Places] :
           g[0] = Root /\ g[n] = i /\ \A k \in 1 .. n : g[k] = Step(g[k - 1], t[k][1])
    BY DEF LeadsTo
  <1>3. n \in 1 .. n /\ n - 1 \in 0 .. n /\ t[n] \in Part
    BY <1>1
  <1>4. IsName(t[n][1]) /\ t[n][1] # ""
    BY <1>3 DEF Part, IsName
  <1>5. i = Step(g[n - 1], t[n][1]) /\ g[n - 1] \in Places
    BY <1>2, <1>3
  <1>6. g[n - 1] \in Inode /\ Find(g[n - 1], t[n][1]) = i
    BY <1>4, <1>5, NoInodeIsNone DEF Step, Places
  <1>7. Find(i, "..") = g[n - 1]
    BY <1>4, <1>6, FindDown
  <1> DEFINE h == [k \in 0 .. n - 1 |-> g[k]]
  <1>8. h \in [0 .. n - 1 -> Places] /\ h[0] = Root /\ h[n - 1] = g[n - 1]
    BY <1>1, <1>2
  <1>9. \A k \in 1 .. n - 1 : h[k] = Step(h[k - 1], u[k][1])
    <2> SUFFICES ASSUME NEW k \in 1 .. n - 1 PROVE h[k] = Step(h[k - 1], u[k][1])
      OBVIOUS
    <2>1. h[k] = g[k] /\ h[k - 1] = g[k - 1] /\ k \in 1 .. n
      BY <1>1
    <2> QED  BY <1>1, <1>2, <2>1
  <1> HIDE DEF h, u
  <1>10. LeadsTo(u, g[n - 1])
    BY <1>1, <1>8, <1>9 DEF LeadsTo
  <1> QED  BY <1>7, <1>10 DEF u

\* What one part of the text is.
LEMMA PartIs == ASSUME NEW p \in Part PROVE p[1] \in STRING /\ IsName(p[1]) /\ p[1] # ""
  BY DEF Part, IsName

\* An element before a sequence.
LEMMA PutBefore ==
    ASSUME NEW S, NEW x \in S, NEW s \in Seq(S)
    PROVE  /\ <<x>> \o s \in Seq(S) /\ Len(<<x>> \o s) = Len(s) + 1
           /\ (<<x>> \o s)[1] = x /\ \A k \in 1 .. Len(s) : (<<x>> \o s)[k + 1] = s[k]
  OBVIOUS

\* The text as a path: the root, then its names.
LEMMA TextPathIs ==
    ASSUME NEW t \in Seq(Part), t # <<>>
    PROVE  /\ Len(TextPath(t)) = Len(t) + 1 /\ \A k \in 1 .. Len(t) + 1 : TextPath(t)[k] \in Texts
           /\ TextPath(t)[1] = "" /\ \A k \in 1 .. Len(t) : TextPath(t)[k + 1] = t[k][1]
           /\ TextPath(t) # Nowhere /\ Name(TextPath(t)) # ""
  <1> DEFINE names == [k \in 1 .. Len(t) |-> t[k][1]]
  <1>1. ASSUME NEW k \in 1 .. Len(t) PROVE t[k] \in Part
    OBVIOUS
  <1>2. \A k \in 1 .. Len(t) : t[k][1] \in Texts
    BY <1>1, PartIs DEF Texts
  <1>3. Len(t) \in Nat /\ Len(t) >= 1 /\ Len(t) \in 1 .. Len(t)
    OBVIOUS
  <1>4. names \in Seq(Texts) /\ Len(names) = Len(t)
    BY <1>2, <1>3
  <1>5. \A k \in 1 .. Len(t) : names[k] = t[k][1]
    OBVIOUS
  <1>6. TextPath(t) = <<"">> \o names
    BY Zenon DEF TextPath
  <1>7. PICK c \in Texts : c = ""
    BY DEF Texts
  <1> HIDE DEF names
  <1>8. /\ TextPath(t) \in Seq(Texts) /\ Len(TextPath(t)) = Len(names) + 1
        /\ TextPath(t)[1] = "" /\ \A k \in 1 .. Len(names) : TextPath(t)[k + 1] = names[k]
    <2>1. /\ <<c>> \o names \in Seq(Texts) /\ Len(<<c>> \o names) = Len(names) + 1
          /\ (<<c>> \o names)[1] = c
          /\ \A k \in 1 .. Len(names) : (<<c>> \o names)[k + 1] = names[k]
      BY <1>4, PutBefore
    <2>2. TextPath(t) = <<c>> \o names
      BY <1>6, <1>7, Zenon
    <2> QED  BY <1>7, <2>1, <2>2, Zenon
  <1>9. Len(TextPath(t)) = Len(t) + 1 /\ \A k \in 1 .. Len(t) : TextPath(t)[k + 1] = t[k][1]
    BY <1>4, <1>5, <1>8
  <1>10. \A k \in 1 .. Len(t) + 1 : TextPath(t)[k] \in Texts
    <2>1. TextPath(t) \in Seq(Texts)
      BY <1>8
    <2>2. Len(TextPath(t)) = Len(t) + 1
      BY <1>9
    <2> QED  BY <2>1, <2>2
  <1>11. Name(TextPath(t)) = t[Len(t)][1]
    BY <1>3, <1>9 DEF Name
  <1>12. t[Len(t)][1] # ""
    <2>1. t[Len(t)] \in Part
      BY <1>1, <1>3
    <2> QED  BY <2>1, PartIs
  <1>13. TextPath(t) # Nowhere
    <2>1. Len(TextPath(t)) # 1
      BY <1>3, <1>9
    <2> QED  BY <2>1, Shortest
  <1> QED  BY <1>8, <1>9, <1>10, <1>11, <1>12, <1>13, Zenon

\* The kernel's answer for the text is where its names lead.
LEMMA TextLeads ==
    ASSUME TypeOK, NodesAgree, Idle, NEW t \in Seq(Part), NEW i \in Inode
    PROVE  DirAt(Root, TextPath(t)) = i <=> LeadsTo(t, i)
  <1>1. CASE t = <<>>
    <2>1. TextPath(t) = TheRoot
      BY <1>1, Zenon DEF TextPath, TheRoot
    <2>2. DirAt(Root, TheRoot) = Root
      BY Zenon DEF DirAt, TheRoot
    <2> QED  BY <1>1, <2>1, <2>2, LeadsNowhere
  <1>2. CASE t # <<>>
    <2> DEFINE n == Len(t)
               path == TextPath(t)
    <2>0. n \in Nat
      OBVIOUS
    <2>1. /\ Len(path) = n + 1 /\ \A k \in 1 .. n + 1 : path[k] \in Texts
          /\ path[1] = "" /\ \A k \in 1 .. n : path[k + 1] = t[k][1]
          /\ path # Nowhere /\ Name(path) # ""
      BY <1>2, TextPathIs, Zenon
    <2> HIDE DEF path, n
    <2>2. PICK f \in [0 .. n + 1 -> Places] :
             Iterates(f, n + 1, WalkStep(path), Root) /\ DirAt(Root, path) = f[n + 1]
      <3>1. Len(path) = n + 1 /\ \A k \in 1 .. n + 1 : path[k] \in Texts
        BY <2>1
      <3>2. Len(path) \in Nat \ {0}
        BY <2>0, <3>1
      <3>3. \A k \in 1 .. Len(path) : path[k] \in Texts
        BY <3>1
      <3>4. \E f \in [0 .. Len(path) -> Places] :
               Iterates(f, Len(path), WalkStep(path), Root) /\ DirAt(Root, path) = f[Len(path)]
        BY <2>1, <3>2, <3>3, WalkFollows, NoInodeIsNone, Zenon
      <3> QED  BY <3>1, <3>4
    <2>3. \A k \in 1 .. n + 1 : f[k] = Step(f[k - 1], path[k])
      <3> SUFFICES ASSUME NEW k \in 1 .. n + 1 PROVE f[k] = Step(f[k - 1], path[k])
        OBVIOUS
      <3>1. f[k] = WalkStep(path)[k][f[k - 1]] /\ f[k - 1] \in Places
        BY <2>0, <2>2 DEF Iterates
      <3> QED  BY <2>1, <3>1 DEF WalkStep
    <2>4. f[1] = Root
      <3>0. 1 \in 1 .. n + 1 /\ 1 - 1 = 0
        BY <2>0
      <3>1. f[0] = Root /\ f[1] = Step(f[1 - 1], path[1])
        BY <2>2, <2>3, <3>0 DEF Iterates
      <3> QED  BY <2>1, <3>0, <3>1, NoInodeIsNone DEF Step
    <2>5. \A k \in 1 .. n : f[k + 1] = Step(f[k], t[k][1])
      <3> SUFFICES ASSUME NEW k \in 1 .. n PROVE f[k + 1] = Step(f[k], t[k][1])
        OBVIOUS
      <3>1. k + 1 \in 1 .. n + 1 /\ (k + 1) - 1 = k
        BY <2>0
      <3> QED  BY <2>1, <2>3, <3>1
    <2>6. LeadsTo(t, f[n + 1])
      <3> DEFINE g == [k \in 0 .. n |-> f[k + 1]]
      <3>1. g \in [0 .. n -> Places] /\ g[0] = Root /\ g[n] = f[n + 1]
        BY <2>0, <2>4
      <3>2. \A k \in 1 .. n : g[k] = Step(g[k - 1], t[k][1])
        BY <2>0, <2>5
      <3> HIDE DEF g
      <3> QED  BY <3>1, <3>2 DEF LeadsTo, n
    <2>7. ASSUME LeadsTo(t, i) PROVE i = f[n + 1]
      <3>1. PICK g \in [0 .. n -> Places] :
               g[0] = Root /\ g[n] = i /\ \A k \in 1 .. n : g[k] = Step(g[k - 1], t[k][1])
        BY <2>7 DEF LeadsTo, n
      <3> DEFINE Q == {k \in 0 .. n : g[k] = f[k + 1]}
      <3>2. 0 \in Q
        BY <2>0, <2>4, <3>1
      <3>3. ASSUME NEW k \in 1 .. n, k - 1 \in Q PROVE k \in Q
        <4>1. g[k - 1] = f[k] /\ k \in 0 .. n
          BY <2>0, <3>3
        <4> QED  BY <2>5, <3>1, <4>1
      <3>4. 0 .. n \subseteq Q
        <4> HIDE DEF Q
        <4> QED  BY <2>0, <3>2, <3>3, Upward
      <3> QED  BY <2>0, <3>1, <3>4
    <2> QED  BY <2>2, <2>6, <2>7 DEF path
  <1> QED  BY <1>1, <1>2

\* One component more: what leads to the place before it leads to the place after it,
\* if the component is not ".." in the root.
LEMMA ComponentLeads ==
    ASSUME TypeOK, NodesAgree, Idle, NEW t \in Seq(Part), NEW x \in Inode, LeadsTo(t, x),
           NEW path \in Seq(STRING), NEW k \in 1 .. Len(path), ~NoName(path[k]),
           NEW y \in Inode, y = Step(x, path[k]), path[k] = ".." => t # <<>>
    PROVE  LeadsTo(TextStep(path)[k][t], y)
  <1>1. y = Find(x, path[k])
    BY NoInodeIsNone DEF Step, NoName
  <1>2. CASE path[k] = "."
    <2>1. TextStep(path)[k][t] = t
      BY <1>2 DEF TextStep
    <2>2. y = x
      BY <1>1, <1>2, FindSelf
    <2> QED  BY <2>1, <2>2
  <1>3. CASE path[k] = ".."
    <2>1. TextStep(path)[k][t] = Seqs!Front(t)
      BY <1>3 DEF TextStep
    <2> QED  BY <1>1, <1>3, <2>1, LeadsUp
  <1>4. CASE path[k] \notin {"", ".", ".."}
    <2>0. path[k] \in STRING
      BY Components
    <2>1. IsName(path[k]) /\ path[k] \in STRING
      BY <1>4, <2>0 DEF IsName
    <2>2. TextStep(path)[k][t] = Append(t, PartOf(path, k))
      BY <1>4 DEF TextStep
    <2>3. PartOf(path, k) \in Part /\ PartOf(path, k)[1] = path[k]
      BY <2>1 DEF PartOf, Part
    <2>4. y \in Places /\ y = Step(x, PartOf(path, k)[1])
      BY <2>3 DEF Places
    <2> QED  BY <2>2, <2>3, <2>4, LeadsDown
  <1> QED  BY <1>2, <1>3, <1>4 DEF NoName

\* resolve_new_path leaves the text that leads to where read_directory went.
LEMMA CdLeads ==
    ASSUME TypeOK, NodesAgree, Idle, NEW text \in Seq(Part), NEW i \in Inode,
           NEW path \in Seq(STRING), path # <<>>, path # Nowhere,
           DirAt(i, path) \in Inode,
           NoName(path[1]) \/ LeadsTo(text, i),
           Lost(text, path) \subseteq {Len(path)}
    PROVE  LeadsTo(ResolveText(text, path), DirAt(i, path))
  <1> DEFINE n  == Len(path)
             at == TextAfter(text, path)
  <1>1. n \in Nat \ {0} /\ \A k \in 1 .. n : path[k] \in Texts
    BY Components DEF Texts
  <1>2. PICK f \in [0 .. n -> Places] :
          /\ Iterates(f, n, WalkStep(path), i) /\ DirAt(i, path) = f[n]
          /\ Name(path) = "" => path = TheRoot
    BY <1>1, WalkFollows, NoInodeIsNone
  <1>3. at \in [0 .. n -> Seq(Part)] /\ Iterates(at, n, TextStep(path), text)
    BY TextFollows
  <1> HIDE DEF at
  <1>4. ASSUME NEW k \in 1 .. n
        PROVE  /\ k \in 0 .. n /\ k - 1 \in 0 .. n
               /\ f[k - 1] \in Places /\ f[k] \in Places /\ at[k - 1] \in Seq(Part)
               /\ f[k] = Step(f[k - 1], path[k])
               /\ at[k] = TextStep(path)[k][at[k - 1]]
    <2>1. k \in 0 .. n /\ k - 1 \in 0 .. n
      BY <1>1
    <2>2. f[k - 1] \in Places /\ f[k] \in Places /\ at[k - 1] \in Seq(Part)
      BY <1>3, <2>1
    <2>3. f[k] = Step(f[k - 1], path[k])
      BY <1>2, <2>2 DEF Iterates, WalkStep
    <2>4. at[k] = TextStep(path)[k][at[k - 1]]
      BY <1>3 DEF Iterates
    <2> QED  BY <2>1, <2>2, <2>3, <2>4
  <1>5. at[0] = text /\ f[0] = i
    BY <1>2, <1>3 DEF Iterates
  <1> DEFINE Follows(k) == f[k] \in Inode /\ (k = 0 => LeadsTo(text, i)) /\ k \notin Lost(text, path)
                              => LeadsTo(at[k], f[k])
  <1>6. \A k \in 0 .. n : Follows(k)
    <2> DEFINE Q == {k \in 0 .. n : Follows(k)}
    <2>1. 0 \in Q
      <3>1. 0 \in 0 .. n
        BY <1>1
      <3> QED  BY <1>5, <3>1
    <2>2. ASSUME NEW k \in 1 .. n, Follows(k - 1),
                 f[k] \in Inode, k \notin Lost(text, path)
          PROVE  LeadsTo(at[k], f[k])
      <3>1. f[k - 1] \in Inode
        BY <1>4, <2>2, NoInodeIsNone DEF Step, Places
      <3>2. k - 1 \notin Lost(text, path) /\ k # 0
        BY <1>1
      <3>3. k = 1 /\ ~NoName(path[1]) => LeadsTo(text, i)
        OBVIOUS
      <3>4. ~NoName(path[1]) \/ k # 1 => LeadsTo(at[k - 1], f[k - 1])
        BY <2>2, <3>1, <3>2, <3>3
      <3>5. CASE NoName(path[k]) /\ k # n
        <4>1. at[k] = <<>>
          BY <1>4, <3>5 DEF TextStep, NoName
        <4>2. f[k] = Root
          BY <1>4, <3>1, <3>5, NoInodeIsNone DEF Step, NoName
        <4> QED  BY <4>1, <4>2, LeadsNowhere
      <3>6. CASE NoName(path[k]) /\ k = n
        <4>1. path = TheRoot
          BY <1>2, <3>6 DEF Name, NoName
        <4>2. n = 2 /\ k = 2
          BY <3>6, <4>1, Shortest
        <4>3. 1 \in 1 .. n /\ 1 # n
          BY <4>2
        <4>4. at[1] = <<>>
          <5>1. path[1] = ""
            BY <4>1, Shortest
          <5> QED  BY <1>4, <4>3, <5>1 DEF TextStep
        <4>5. at[2] = at[2 - 1]
          BY <1>4, <3>6, <4>2 DEF TextStep, NoName
        <4>6. f[k] = Root
          BY <1>4, <3>1, <3>6, NoInodeIsNone DEF Step, NoName
        <4> QED  BY <4>2, <4>4, <4>5, <4>6, LeadsNowhere
      <3>7. CASE ~NoName(path[k])
        <4>1. path[k] = ".." => at[k - 1] # <<>>
          BY <2>2 DEF Lost, at
        <4>2. LeadsTo(at[k - 1], f[k - 1])
          BY <3>4, <3>7
        <4>3. /\ at[k - 1] \in Seq(Part) /\ f[k] \in Inode /\ f[k] = Step(f[k - 1], path[k])
              /\ at[k] = TextStep(path)[k][at[k - 1]]
          BY <1>4, <2>2
        <4>4. LeadsTo(TextStep(path)[k][at[k - 1]], f[k])
          BY <3>1, <3>7, <4>1, <4>2, <4>3, ComponentLeads, Zenon
        <4> QED  BY <4>3, <4>4, Zenon
      <3> QED  BY <3>5, <3>6, <3>7
    <2>3. ASSUME NEW k \in 1 .. n, k - 1 \in Q PROVE k \in Q
      <3>1. k \in 0 .. n
        BY <1>4
      <3> QED  BY <2>2, <2>3, <3>1
    <2>4. 0 .. n \subseteq Q
      <3> HIDE DEF Q
      <3> QED  BY <1>1, <2>1, <2>3, Upward
    <2> QED  BY <2>4
  <1>7. PICK k \in 0 .. n :
          /\ ResolveText(text, path) = at[k]
          /\ Lost(text, path) = {} => k = n
          /\ Lost(text, path) = {n} => k = n - 1
    BY StopsAt DEF at
  <1>8. CASE Lost(text, path) = {}
    <2>1. n \in 0 .. n /\ n # 0
      BY <1>1
    <2> QED  BY <1>2, <1>6, <1>7, <1>8, <2>1
  <1>9. CASE Lost(text, path) = {n}
    <2>1. n \in 1 .. n /\ n - 1 \in 0 .. n /\ n - 1 # n
      BY <1>1
    <2>2. path[n] = ".." /\ at[n - 1] = <<>>
      BY <1>9 DEF Lost, at
    <2>3. f[n] = Step(f[n - 1], "..") /\ f[n - 1] \in Inode
      BY <1>2, <1>4, <2>1, <2>2, NoInodeIsNone DEF Step, Places
    <2>4. n - 1 = 0 => LeadsTo(text, i)
      <3>1. n - 1 = 0 => n = 1
        BY <1>1
      <3>2. n = 1 => path[1] = ".."
        BY <2>2
      <3> QED  BY <3>1, <3>2 DEF NoName
    <2>5. n - 1 \notin Lost(text, path)
      BY <1>9, <2>1
    <2>6. LeadsTo(at[n - 1], f[n - 1])
      BY <1>6, <2>1, <2>3, <2>4, <2>5
    <2>7. f[n - 1] = Root
      BY <2>2, <2>6, LeadsNowhere
    <2>8. f[n] = Root
      BY <2>3, <2>7, FindSelf, NoInodeIsNone DEF Step
    <2> QED  BY <1>2, <1>7, <1>9, <2>2, <2>8, LeadsNowhere
  <1> QED  BY <1>8, <1>9

\* Every step is a system call or none, and leaves the shell's own variables typed.
LEMMA ShellStep ==
    ASSUME ShellInv, ShellNext
    PROVE  /\ CallStep
           /\ currentdirnode' \in Inode /\ is_dir' \in BOOLEAN
           /\ currentdir' \in Seq(Part) /\ Len(currentdir') <= MaxText
  <1> DEFINE Own == /\ currentdirnode' \in Inode /\ is_dir' \in BOOLEAN
                    /\ currentdir' \in Seq(Part) /\ Len(currentdir') <= MaxText
             Goal == CallStep /\ Own
  <1>0. /\ TypeOK /\ currentdirnode \in Inode /\ is_dir \in BOOLEAN
        /\ currentdir \in Seq(Part) /\ Len(currentdir) <= MaxText
        /\ \A i \in Inode : node[i].data \in Data
        /\ "REG" \in FileType /\ "DIR" \in FileType /\ NoText \in Data
    BY DEF ShellInv, TreeInv, NodesAgree, NodeType, FileType, Data
  <1>1. UNCHANGED <<entry, node>> => CallStep
    BY DEF CallStep
  <1>2. UNCHANGED <<currentdirnode, currentdir>> /\ is_dir' \in BOOLEAN => Own
    BY <1>0
  <1>3. ASSUME NEW path \in CdPaths, Cd(path) PROVE Goal
    BY <1>0, <1>1, <1>3, CdAssumption, TextTyped DEF Cd
  <1>4. ASSUME NEW path, Mkdir(path) PROVE Goal
    BY <1>0, <1>2, <1>4, WriteIsCall DEF Mkdir
  <1>5. ASSUME NEW path, NEW text \in Contents \cup {NoText}, Nano(path, text) PROVE Goal
    BY <1>0, <1>2, <1>5, WriteIsCall DEF Nano, Data
  <1>6. ASSUME NEW src, NEW dst, MoveDir(src, dst) PROVE Goal
    BY <1>0, <1>2, <1>6, MoveIsCall DEF MoveDir
  <1>8. ASSUME NEW src, NEW dst, MoveFile(src, dst) PROVE Goal
    <2>1. FileAt(currentdirnode, src) \in Inode
      BY <1>0, <1>8, FileIsInode DEF MoveFile
    <2>2. PICK at, as : SysWrite(at, as, "REG", node[FileAt(currentdirnode, src)].data)
      BY <1>8 DEF MoveFile
    <2> QED  BY <1>0, <1>2, <1>8, <2>1, <2>2, WriteIsCall DEF MoveFile, Begin
  <1>9. ASSUME NEW src, NEW dst, Copy(src, dst) \/ CopyTree(src, dst) PROVE Goal
    BY <1>0, <1>1, <1>2, <1>9 DEF Copy, CopyTree, Begin
  <1>10. ASSUME NEW src, NEW text \in Contents, CopyTreeOfNothing(src, text) PROVE Goal
    BY <1>0, <1>2, <1>10, WriteIsCall DEF CopyTreeOfNothing, Data
  <1>7. ASSUME NEW src, RemoveOne(src) \/ RemoveTree(src) PROVE Goal
    BY <1>1, <1>2, <1>7 DEF RemoveOne, RemoveTree, Begin
  <1>11. CASE RunTask
    <2>1. Own
      BY <1>0, <1>2, <1>11 DEF RunTask
    <2>2. PICK t, rest : \/ RunCopy(t, rest) \/ RunCopyTree(t, rest) \/ RunRemove(t, rest)
                         \/ RunRemoveTree(t, rest) \/ RunDelete(t, rest)
      BY <1>11 DEF RunTask
    <2>3. ASSUME RunCopy(t, rest) PROVE CallStep
      <3>1. FileAt(t.at, t.src) # NoInode => FileAt(t.at, t.src) \in Inode
        BY <1>0, FileIsInode
      <3>2. FileAt(t.at, t.src) # NoInode => node[FileAt(t.at, t.src)].data \in Data
        BY <1>0, <3>1
      <3> QED  BY <1>0, <1>1, <2>3, <3>2, WriteIsCall DEF RunCopy
    <2>4. ASSUME RunCopyTree(t, rest) PROVE CallStep
      BY <1>0, <2>4, WriteIsCall DEF RunCopyTree
    <2>5. ASSUME RunRemove(t, rest) PROVE CallStep
      BY <1>0, <1>1, <2>5, DeleteIsCall DEF RunRemove
    <2>6. ASSUME RunRemoveTree(t, rest) PROVE CallStep
      BY <1>0, <1>1, <2>6, DeleteIsCall DEF RunRemoveTree
    <2>7. ASSUME RunDelete(t, rest) PROVE CallStep
      BY <1>0, <2>7, DeleteIsCall DEF RunDelete
    <2> QED  BY <2>1, <2>2, <2>3, <2>4, <2>5, <2>6, <2>7
  <1>12. CASE Stop
    BY <1>0, <1>1, <1>12, NoInodeIsNone, ShellAssumption DEF Stop
  <1>13. CASE Command
    BY <1>3, <1>4, <1>5, <1>6, <1>8, <1>9, <1>10, <1>7, <1>13 DEF Command
  <1> QED  BY <1>11, <1>12, <1>13 DEF ShellNext

\* The shell starts with the root alone.
LEMMA InitShell == ShellInit => ShellInv
  <1> SUFFICES ASSUME ShellInit PROVE ShellInv
    OBVIOUS
  <1>1. TreeInv /\ \A p \in Inode : entry[p] = {}
    BY InitTree DEF ShellInit, Init
  <1>2. node \in [Inode -> NodeType] /\ node[Root].mode = "DIR" /\ node[Root].up = Root
    BY NoInodeIsNone DEF ShellInit, NodeType, Blank, Data, FileType
  <1>3. \A i \in Inode : ~Live(i) => node[i] = Blank
    BY DEF ShellInit, Live
  <1>4. /\ currentdirnode \in Inode /\ is_dir \in BOOLEAN
        /\ currentdir \in Seq(Part) /\ Len(currentdir) <= MaxText
    BY NoInodeIsNone, ShellAssumption DEF ShellInit
  <1> QED  BY <1>1, <1>2, <1>3, <1>4 DEF ShellInv, NodesAgree

\* The invariant holds between any two system calls.
LEMMA ShellAlways == ShellSpec => []ShellInv
  <1>1. ShellInv /\ [ShellNext]_shellVars => ShellInv'
    <2> SUFFICES ASSUME ShellInv, [ShellNext]_shellVars PROVE ShellInv'
      OBVIOUS
    <2>1. CASE ShellNext
      BY <2>1, ShellStep, CallKeeps DEF ShellInv
    <2>2. CASE UNCHANGED shellVars
      <3>1. CallStep
        BY <2>2 DEF CallStep, shellVars
      <3> QED  BY <2>2, <3>1, CallKeeps DEF ShellInv, shellVars
    <2> QED  BY <2>1, <2>2
  <1> QED  BY InitShell, <1>1, PTL DEF ShellSpec

\* Whatever is typed, and wherever the machine is switched off, inode table and
\* directories agree: every entry names an inode of its type, every ".." the parent.
THEOREM ShellKeepsTypes == ShellSpec => []ShellTypeOK
  <1>1. ShellInv => ShellTypeOK
    BY DEF ShellInv, TreeInv, NodesAgree, ShellTypeOK
  <1> QED  BY <1>1, ShellAlways, PTL

\* All that the shell does to the directories, call by call, is what Directory
\* allows: its commands implement the abstract file system.
THEOREM ShellImplementsDirectory == ShellSpec => Spec
  <1>1. ShellInit => Init
    BY DEF ShellInit
  <1>2. ShellInv /\ [ShellNext]_shellVars => [Next]_entry
    <2> SUFFICES ASSUME ShellInv, ShellNext PROVE [Next]_entry
      BY DEF shellVars
    <2>1. CallStep
      BY ShellStep
    <2> QED  BY <2>1 DEF CallStep, Creates, Removes, Moves, Next
  <1> QED  BY <1>1, <1>2, ShellAlways, PTL DEF ShellSpec, Spec

\* So the tree of directories survives every command, complete or not.
THEOREM ShellKeepsNames == ShellSpec => []UniqueNames
  BY ShellImplementsDirectory, NamesAreUnique, PTL

\* No command gives a file or directory a second place.
THEOREM ShellKeepsOneEntry == ShellSpec => []OneEntry
  BY ShellImplementsDirectory, OneParent, PTL

\* No command cuts a file or directory off from the root.
THEOREM ShellKeepsRooted == ShellSpec => []Rooted
  BY ShellImplementsDirectory, EverythingBelowRoot, PTL

(***************************************************************************)
(* mv of a file: between its two calls the old entry and the new one are   *)
(* both there, and the old one is found again by the path it was found by  *)
(* before, because what is written is no directory.                        *)
(***************************************************************************)

Between(src, dst, p, f, q, e) ==
    /\ todo = <<{Task("del", currentdirnode, src, NoInode, dst)}>>
    /\ p = Resolve(currentdirnode, src)
    /\ f \in entry[p] /\ f[1] = Name(src) /\ f[2] = "REG" /\ f[3] = cmd.from
    /\ e \in entry[q] /\ e[2] = "REG" /\ node[e[3]].data = cmd.old[cmd.from].data
    /\ f \in cmd.was[p] /\ e \notin cmd.was[q]
    /\ \A c \in Inode : entry[c] = cmd.was[c] \cup (IF c = q THEN {e} ELSE {})

MvInv == cmd.op = "mv" =>
    \E src \in Sources, dst \in Targets, p, q \in Inode : \E f \in entry[p], e \in entry[q] :
        Between(src, dst, p, f, q, e)

\* What write makes out of nothing changes no path, if it is a file.
LEMMA FileChangesNoPath ==
    ASSUME ShellInv, Idle, todo' # <<>>, NEW q \in Inode, NEW e \in Entry, NEW d \in Data,
           Creates(q, e, d), e[2] = "REG",
           cmd'.old = [i \in Inode |-> IF Live(i) THEN node[i] ELSE Blank]
    PROVE  Steps' = Steps
  <1> SUFFICES \A i \in Inode : \A c \in STRING : Find(i, c)' = Find(i, c)
    <2>1. \A i \in Inode : [c \in STRING |-> Find(i, c)]' = [c \in STRING |-> Find(i, c)]
      OBVIOUS
    <2> QED  BY <2>1 DEF Steps
  <1> TAKE i \in Inode
  <1> TAKE c \in STRING
  <1>1. /\ e[3] \in Inode /\ ~Live(e[3]) /\ node[e[3]] = Blank
        /\ node'[e[3]].mode = "REG"
        /\ i # e[3] => node'[i] = node[i]
        /\ {x \in entry'[i] : x[1] = c /\ x[2] = "DIR"} = {x \in entry[i] : x[1] = c /\ x[2] = "DIR"}
    BY DEF ShellInv, NodesAgree, TreeInv, TypeOK, Creates, Create, Entry, Live
  <1>2. Stored(i) = node[i]
    BY DEF Stored
  <1>3. CASE i = e[3]
    <2>1. Stored(i)' = node'[i]
      BY <1>1, <1>3 DEF Stored
    <2> QED  BY <1>1, <1>2, <1>3, <2>1 DEF Find, Blank
  <1>4. CASE i # e[3] /\ node[i].mode = "FREE"
    <2>1. Stored(i)'.mode = "FREE"
      BY <1>1, <1>4 DEF Stored, Idle, Blank
    <2> QED  BY <1>2, <1>4, <2>1 DEF Find
  <1>5. CASE i # e[3] /\ node[i].mode # "FREE"
    <2>1. Stored(i)' = node[i]
      BY <1>1, <1>5 DEF Stored
    <2> QED  BY <1>1, <1>2, <2>1 DEF Find
  <1> QED  BY <1>3, <1>4, <1>5

\* The write of mv done, both entries are there and the path leads where it led.
LEMMA MoveFileBetween ==
    ASSUME ShellInv, NEW src \in Sources, NEW dst \in Targets, MoveFile(src, dst)
    PROVE  MvInv'
  <1> PICK p, from : p = Resolve(currentdirnode, src) /\ from = FileAt(currentdirnode, src)
    OBVIOUS
  <1>0. TypeOK
    BY DEF ShellInv, TreeInv
  <1>1. p \in Inode /\ from # NoInode
    BY DEF MoveFile, FileAt
  <1>2. PICK f \in entry[p] : f[1] = Name(src) /\ f[2] = "REG" /\ from = f[3]
    BY <1>1 DEF FileAt, Found
  <1>3. from \in Inode /\ Live(from)
    BY <1>0, <1>1, <1>2 DEF TypeOK, Entry, Live, Listed
  <1>4. PICK at, as : CanWrite(at, as) /\ SysWrite(at, as, "REG", node[from].data)
    BY DEF MoveFile
  <1> PICK q, e : q = Resolve(at, as) /\ e = <<Name(as), "REG", NewInode>>
    OBVIOUS
  <1>5. /\ q \in Inode /\ Create(q, e) /\ NewInode \in Inode /\ Name(as) \in Names
        /\ node' = [node EXCEPT ![NewInode] = [mode |-> "REG", data |-> node[from].data, up |-> NoInode]]
    BY <1>4, NewInodeIsFree DEF SysWrite, CanWrite, Free
  <1>6. e \in Entry /\ e[2] = "REG" /\ e[3] = NewInode /\ node[from].data \in Data
    BY <1>3, <1>5 DEF Entry, FileType, ShellInv, NodesAgree, NodeType
  <1>8. Creates(q, e, node[from].data)
    BY <1>5, <1>6 DEF Creates
  <1>9. /\ Idle
        /\ todo' = <<{Task("del", currentdirnode, src, NoInode, dst)}>>
        /\ cmd'.op = "mv" /\ cmd'.was = entry /\ cmd'.from = from
        /\ cmd'.old = [i \in Inode |-> IF Live(i) THEN node[i] ELSE Blank]
        /\ currentdirnode' = currentdirnode
    <2>1. Idle /\ Begin("mv", src, {Task("del", currentdirnode, src, NoInode, dst)})
      BY DEF MoveFile, Ready
    <2>2. todo' = Push(<<>>, {Task("del", currentdirnode, src, NoInode, dst)})
          /\ currentdirnode' = currentdirnode
      BY <2>1 DEF Begin
    <2>3. todo' = <<{Task("del", currentdirnode, src, NoInode, dst)}>>
      BY <2>2 DEF Push
    <2> QED  BY <1>1, <2>1, <2>2, <2>3 DEF Begin
  <1>10. Steps' = Steps
    <2>1. todo' # <<>>
      BY <1>9
    <2> QED  BY <1>5, <1>6, <1>8, <1>9, <2>1, FileChangesNoPath
  <1>7. p = Resolve(currentdirnode, src)'
    BY <1>9, <1>10 DEF Resolve
  <1>11. /\ \A c \in Inode : entry'[c] = entry[c] \cup (IF c = q THEN {e} ELSE {})
         /\ e \notin entry[q] /\ node'[e[3]].data = node[from].data
    BY <1>0, <1>5, <1>6 DEF Create, Listed, TypeOK, ShellInv, NodesAgree
  <1>12. f \in entry'[p] /\ e \in entry'[q] /\ cmd'.old[from] = node[from]
    BY <1>1, <1>3, <1>5, <1>9, <1>11
  <1>14. Between(src, dst, p, f, q, e)'
    BY <1>2, <1>6, <1>9, <1>7, <1>11, <1>12 DEF Between
  <1> QED  BY <1>1, <1>5, <1>12, <1>14 DEF MvInv

\* A command is read when no other one runs.
LEMMA MoveIsNotIdle == ASSUME MvInv, cmd.op = "mv" PROVE ~Idle
  <1>1. PICK S : todo = <<S>>
    BY DEF MvInv, Between
  <1> QED  BY <1>1 DEF Idle

\* A command begins when none runs.
LEMMA CommandWaits == ASSUME Command PROVE Idle
  BY DEF Command, Cd, Mkdir, Nano, MoveDir, MoveFile, Copy, CopyTree, CopyTreeOfNothing, RemoveOne,
         RemoveTree, Ready

\* The second call of mv is its last: the delete of the old path.
LEMMA MoveDeletes ==
    ASSUME RunTask, NEW src, NEW dst, todo = <<{Task("del", currentdirnode, src, NoInode, dst)}>>
    PROVE  SysDelete(currentdirnode, src, is_dir) /\ todo' = <<>> /\ cmd' = NoCmd
  <1> PICK t : t = Task("del", currentdirnode, src, NoInode, dst)
    OBVIOUS
  <1>1. t.op = "del" /\ t.at = currentdirnode /\ t.src = src
    BY DEF Task
  <1>2. todo = <<{t}>> /\ Len(todo) = 1 /\ todo[1] = {t}
    OBVIOUS
  <1>3. Seqs!Last(todo) = {t} /\ Seqs!Front(todo) = <<>>
    BY <1>2 DEF Seqs!Last, Seqs!Front
  <1>4. Push(Seqs!Front(todo), Seqs!Last(todo) \ {t}) = <<>>
    BY <1>3 DEF Push
  <1>5. PICK rest : rest = <<>> /\ (\/ RunCopy(t, rest) \/ RunCopyTree(t, rest) \/ RunRemove(t, rest)
                                    \/ RunRemoveTree(t, rest) \/ RunDelete(t, rest))
    BY <1>3, <1>4 DEF RunTask
  <1>6. RunDelete(t, rest)
    BY <1>1, <1>5 DEF RunCopy, RunCopyTree, RunRemove, RunRemoveTree
  <1> QED  BY <1>1, <1>5, <1>6 DEF RunDelete, RunTask

\* Every step keeps what lies between the two system calls of mv.
LEMMA MvInductive ==
    ASSUME ShellInv, MvInv, [ShellNext]_shellVars
    PROVE  MvInv'
  <1>1. CASE Command
    <2>0. Idle /\ cmd.op # "mv"
      BY <1>1, CommandWaits, MoveIsNotIdle
    <2>1. ASSUME NEW src \in Sources, NEW dst \in Targets, MoveFile(src, dst) PROVE MvInv'
      BY <2>1, MoveFileBetween
    <2>2. ASSUME NEW op, NEW src, NEW S, Begin(op, src, S) PROVE cmd'.op = op
      BY <2>2 DEF Begin
    <2>3. ASSUME NEW src, NEW dst, Copy(src, dst) \/ CopyTree(src, dst) PROVE cmd'.op = "cp"
      BY <2>2, <2>3 DEF Copy, CopyTree
    <2>4. ASSUME NEW src, RemoveOne(src) \/ RemoveTree(src) PROVE cmd'.op = "rm"
      BY <2>2, <2>4 DEF RemoveOne, RemoveTree
    <2>5. cmd'.op # "mv" => MvInv'
      BY DEF MvInv
    <2>6. \/ cmd' = cmd
          \/ \E src \in Sources, dst \in Targets : MoveFile(src, dst)
          \/ \E src, dst : Copy(src, dst) \/ CopyTree(src, dst)
          \/ \E src : RemoveOne(src) \/ RemoveTree(src)
      BY <1>1 DEF Command, Cd, Mkdir, Nano, MoveDir, CopyTreeOfNothing
    <2> QED  BY <2>0, <2>1, <2>3, <2>4, <2>5, <2>6
  <1>2. CASE RunTask
    <2>1. CASE cmd.op = "mv"
      <3>1. PICK src, dst : todo = <<{Task("del", currentdirnode, src, NoInode, dst)}>>
        BY <2>1 DEF MvInv, Between
      <3>2. cmd' = NoCmd
        BY <1>2, <3>1, MoveDeletes
      <3> QED  BY <3>2 DEF MvInv, NoCmd
    <2>2. CASE cmd.op # "mv"
      <3>1. cmd' = NoCmd \/ cmd' = cmd
        BY <1>2 DEF RunTask
      <3> QED  BY <2>2, <3>1 DEF MvInv, NoCmd
    <2> QED  BY <2>1, <2>2
  <1>3. CASE Stop
    BY <1>3 DEF Stop, MvInv, NoCmd
  <1>4. CASE UNCHANGED shellVars
    <2>1. UNCHANGED <<entry, node, currentdirnode, todo, cmd>>
      BY <1>4 DEF shellVars
    <2>2. \A i \in Inode : \A c \in STRING : Find(i, c)' = Find(i, c)
      BY <2>1 DEF Find, Stored, Idle
    <2>3. Steps' = Steps
      <3>1. \A i \in Inode : [c \in STRING |-> Find(i, c)]' = [c \in STRING |-> Find(i, c)]
        BY <2>2
      <3> QED  BY <3>1 DEF Steps
    <2>4. \A src : Resolve(currentdirnode, src)' = Resolve(currentdirnode, src)
      BY <2>1, <2>3 DEF Resolve
    <2> QED  BY <2>1, <2>4 DEF MvInv, Between
  <1> QED  BY <1>1, <1>2, <1>3, <1>4 DEF ShellNext

\* A file that mv moves is never gone, wherever the machine is switched off, nothing
\* else is touched, and it is in one place again when mv ends, if the last rm has
\* not left request->is_dir set.
THEOREM MoveIsSafe == ShellSpec => MoveKeepsFile
  <1> DEFINE Gone == UNION {cmd.was[c] \ entry'[c] : c \in Inode}
             Made == UNION {entry'[c] \ cmd.was[c] : c \in Inode}
  <1>1. ASSUME ShellInv, MvInv, [ShellNext]_shellVars PROVE [cmd.op = "mv" => FileIsKept]_shellVars
    <2> SUFFICES ASSUME ShellNext, cmd.op = "mv"
                 PROVE  /\ \E e \in Made : /\ Made = {e} /\ e[2] = "REG"
                                           /\ node'[e[3]].data = cmd.old[cmd.from].data
                        /\ \A e \in Gone : e[3] = cmd.from
                        /\ RunTask /\ ~is_dir => Gone # {}
      BY <1>1 DEF FileIsKept
    <2>1. PICK src \in Sources, dst \in Targets, p \in Inode, q \in Inode :
               \E f \in entry[p], e \in entry[q] : Between(src, dst, p, f, q, e)
      BY <1>1 DEF MvInv
    <2>2. PICK f \in entry[p], e \in entry[q] : Between(src, dst, p, f, q, e)
      BY <2>1
    <2>3. /\ TypeOK /\ UniqueNames /\ OneEntry /\ OnlyDirectoriesHoldEntries /\ NodesAgree
          /\ f \in Entry /\ e \in Entry /\ f[3] \in Inode /\ e[3] \in Inode
      BY <1>1, <2>2 DEF ShellInv, TreeInv, TypeOK, Entry
    <2>4. /\ p = Resolve(currentdirnode, src)
          /\ f[1] = Name(src) /\ f[2] = "REG" /\ f[3] = cmd.from /\ e[2] = "REG"
          /\ node[e[3]].data = cmd.old[cmd.from].data
          /\ f \in cmd.was[p] /\ e \notin cmd.was[q]
          /\ \A c \in Inode : entry[c] = cmd.was[c] \cup (IF c = q THEN {e} ELSE {})
      BY <2>2 DEF Between
    <2>5. ~Command
      BY <1>1, CommandWaits, MoveIsNotIdle
    <2>6. CASE UNCHANGED <<entry, node>>
      <3>1. Made = {e} /\ Gone = {}
        BY <2>4, <2>6
      <3>2. ~RunTask \/ is_dir
        <4> SUFFICES ASSUME RunTask, ~is_dir PROVE FALSE
          OBVIOUS
        <4>1. SysDelete(currentdirnode, src, is_dir)
          BY <2>2, MoveDeletes DEF Between
        <4>2. Removable(p, f)
          BY <2>3, <2>4 DEF Removable, OnlyDirectoriesHoldEntries, OneEntry, IsDirectory
        <4>3. f \in Deletable(currentdirnode, src, is_dir)
          BY <2>4, <4>2 DEF Deletable
        <4>4. PICK g \in Deletable(currentdirnode, src, is_dir) : Remove(p, g)
          BY <2>4, <4>1, <4>3 DEF SysDelete
        <4>5. g \in entry[p]
          BY <2>4, <4>4 DEF Deletable
        <4> QED  BY <2>3, <2>6, <4>4, <4>5 DEF Remove, TypeOK
      <3> QED  BY <2>4, <2>6, <3>1, <3>2
    <2>7. CASE RunTask /\ ~UNCHANGED <<entry, node>>
      <3>1. SysDelete(currentdirnode, src, is_dir)
        BY <2>2, <2>7, MoveDeletes DEF Between
      <3>2. PICK g \in Deletable(currentdirnode, src, is_dir) :
                   Remove(p, g) /\ node' = [node EXCEPT ![g[3]] = Blank]
        BY <2>4, <2>7, <3>1 DEF SysDelete
      <3>3. g \in entry[p] /\ g[1] = f[1]
        BY <2>4, <3>2 DEF Deletable
      <3>4. g = f
        BY <2>3, <3>3 DEF UniqueNames
      <3>5. \A c \in Inode : entry'[c] = entry[c] \ (IF c = p THEN {f} ELSE {})
        BY <2>3, <3>2, <3>4 DEF Remove, TypeOK
      <3>6. e[3] # f[3] /\ (p = q => e # f)
        BY <2>3, <2>4 DEF OneEntry
      <3>7. node'[e[3]] = node[e[3]]
        BY <2>3, <3>2, <3>4, <3>6 DEF NodesAgree
      <3>8. Made = {e}
        BY <2>4, <3>5, <3>6
      <3>9. Gone = {f}
        BY <2>4, <3>5, <3>6
      <3> QED  BY <2>4, <3>7, <3>8, <3>9
    <2>8. CASE Stop
      BY <2>6, <2>8 DEF Stop
    <2> QED  BY <2>5, <2>6, <2>7, <2>8 DEF ShellNext
  <1>2. ShellInit => MvInv
    BY DEF ShellInit, MvInv, NoCmd
  <1>3. ShellSpec => []MvInv
    BY <1>2, MvInductive, ShellAlways, PTL DEF ShellSpec
  <1> QED  BY <1>1, <1>3, ShellAlways, PTL DEF ShellSpec, MoveKeepsFile


(***************************************************************************)
(* cd: kernel and shell resolve the path each in its own way, and keep     *)
(* together.                                                               *)
(***************************************************************************)

\* A cd that names a directory, done with the text that leads to the current one,
\* leaves the text that leads to the new one: for every path, of any length.
THEOREM TextFollowsDirectory == ShellSpec => CdKeepsText
  <1>1. ASSUME ShellInv, NEW path \in CdPaths, Cd(path), path[1] = "" \/ TextAgrees,
               Lost(currentdir, path) \subseteq {Len(path)}
        PROVE  TextAgrees'
    <2>1. /\ TypeOK /\ NodesAgree /\ Idle /\ Idle'
          /\ currentdir \in Seq(Part) /\ currentdirnode \in Inode
      BY <1>1 DEF ShellInv, TreeInv, Cd, Ready, Idle
    <2>2. /\ DirAt(currentdirnode, path) \in Inode
          /\ currentdirnode' = DirAt(currentdirnode, path)
          /\ currentdir' = ResolveText(currentdir, path)
          /\ UNCHANGED <<entry, node, todo, cmd>>
      BY <1>1 DEF Cd
    <2>3. path \in Seq(STRING) /\ path # <<>> /\ path # Nowhere
      BY CdAssumption, Zenon DEF Nowhere
    <2>4. NoName(path[1]) \/ LeadsTo(currentdir, currentdirnode)
      BY <1>1, <2>1, TextLeads DEF NoName, TextAgrees
    <2>5. LeadsTo(ResolveText(currentdir, path), DirAt(currentdirnode, path))
      BY <1>1, <2>1, <2>2, <2>3, <2>4, CdLeads
    <2>6. currentdir' \in Seq(Part)
      BY <2>1, <2>2, <2>3, TextTyped
    <2>7. DirAt(Root, TextPath(currentdir')) = currentdirnode'
      BY <2>1, <2>2, <2>5, <2>6, TextLeads
    <2>8. DirAt(Root, TextPath(currentdir))' = DirAt(Root, TextPath(currentdir'))
      <3>1. entry' = entry /\ node' = node /\ todo' = todo /\ cmd' = cmd
        BY <2>2
      <3>2. Steps' = Steps
        BY <3>1 DEF Steps, Find, Stored, Found, Idle
      <3>3. PICK t : t = TextPath(currentdir')
        OBVIOUS
      <3>4. \A x, c : Find(x, c)' = Find(x, c)
        BY <3>1 DEF Find, Stored, Found, Idle
      <3>5. DirAt(Root, t)' = DirAt(Root, t)
        BY <3>2, <3>4 DEF DirAt, Resolve
      <3>6. DirAt(Root, TextPath(currentdir))' = DirAt(Root, t)'
        BY <3>3
      <3> QED  BY <3>3, <3>5, <3>6, Zenon
    <2> QED  BY <2>7, <2>8 DEF TextAgrees
  <1>2. ShellInv /\ [ShellNext]_shellVars =>
           [\A path \in CdPaths :
              /\ Cd(path) /\ (path[1] = "" \/ TextAgrees)
              /\ Lost(currentdir, path) \subseteq {Len(path)}
              => TextAgrees']_shellVars
    BY <1>1
  <1> QED  BY <1>2, ShellAlways, PTL DEF ShellSpec, CdKeepsText
=============================================================================
