------------------------------ MODULE Directory -----------------------------
(***************************************************************************)
(* What write, delete and move_dir of the EXT2 driver promise about names: *)
(* a tree of directories, each a set of entries <<name, type, inode>>.     *)
(* The tables of DirTable implement it.                                    *)
(***************************************************************************)
CONSTANTS Names, Inode, Root

ASSUME RootAssumption == Root \in Inode

FileType == {"REG", "DIR"}
Entry    == Names \X FileType \X Inode

VARIABLE entry      \* the entries of each directory, "." and ".." left out

TypeOK == entry \in [Inode -> SUBSET Entry]

Listed(i)      == \E p \in Inode : \E e \in entry[p] : e[3] = i
IsDirectory(p) == p = Root \/ \E d \in Inode : \E e \in entry[d] : e[2] = "DIR" /\ e[3] = p

\* mutant: directories are not asked
TakenByFile(p, n) == \E e \in entry[p] : e[1] = n /\ e[2] = "REG"
Taken(p, n) == \E e \in entry[p] : e[1] = n

\* everything below a member of S is in S
Closed(S) == \A p \in S : \A e \in entry[p] : e[3] \in S

\* q is i or below i
Within(q, i) == \A S \in SUBSET Inode : i \in S /\ Closed(S) => q \in S

Init == entry = [i \in Inode |-> {}]

\* write: entry e, with an inode that is in no directory, is made in directory p
Create(p, e) ==
    /\ ~Taken(p, e[1]) /\ e[3] # Root /\ ~Listed(e[3])
    /\ IsDirectory(p)
    /\ entry' = [entry EXCEPT ![p] = @ \cup {e}]

\* mutant: what is in the directory is not asked
RemovableFull(p, e) == e \in entry[p]
Removable(p, e) == e \in entry[p] /\ entry[e[3]] = {}

\* delete: a file or an empty directory
Remove(p, e) ==
    /\ Removable(p, e)
    /\ entry' = [entry EXCEPT ![p] = @ \ {e}]

\* mutants: into its own sub-tree, and without leaving the old directory
MoveInside(p, e, q, n) ==
    /\ e \in entry[p] /\ e[2] = "DIR" /\ ~Taken(q, n) /\ IsDirectory(q)
    /\ entry' = [d \in Inode |-> (entry[d] \ IF d = p THEN {e} ELSE {})
                                  \cup IF d = q THEN {<<n, "DIR", e[3]>>} ELSE {}]
MoveCopies(p, e, q, n) ==
    /\ e \in entry[p] /\ e[2] = "DIR"
    /\ ~Taken(q, n) /\ IsDirectory(q) /\ ~Within(q, e[3])
    /\ entry' = [entry EXCEPT ![q] = @ \cup {<<n, "DIR", e[3]>>}]

\* move_dir: directory e of p is called n in q from now on
Move(p, e, q, n) ==
    /\ e \in entry[p] /\ e[2] = "DIR"
    /\ ~Taken(q, n) /\ IsDirectory(q) /\ ~Within(q, e[3])
    /\ entry' = [d \in Inode |-> (entry[d] \ IF d = p THEN {e} ELSE {})
                                  \cup IF d = q THEN {<<n, "DIR", e[3]>>} ELSE {}]

Next ==
    \/ \E p \in Inode, e \in Entry : Create(p, e)
    \/ \E p \in Inode, e \in Entry : Remove(p, e)
    \/ \E p, q \in Inode, e \in Entry, n \in Names : Move(p, e, q, n)

Spec == Init /\ [][Next]_entry

\* No two entries of a directory have the same name, of whatever type they are:
\* write and move_dir answer 1, "already exist", instead.
UniqueNames ==
    \A p \in Inode : \A d, e \in entry[p] : d[1] = e[1] => d = e

\* A file or directory has exactly one entry, and the root has none, so that a
\* directory has one parent: what ".." of its table can name.
OneEntry ==
    \A p, q \in Inode : \A d \in entry[p], e \in entry[q] :
        d[3] # Root /\ (d[3] = e[3] => p = q /\ d = e)

\* Only directories have entries: delete takes away no directory that has some.
OnlyDirectoriesHoldEntries ==
    \A p \in Inode : entry[p] # {} => IsDirectory(p)

\* Every file and directory is below the root, after any moves: a path leads to
\* it, and no directories form a cycle.
Rooted == \A i \in Inode : Listed(i) => Within(i, Root)
=============================================================================
