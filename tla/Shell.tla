-------------------------------- MODULE Shell --------------------------------
(***************************************************************************)
(* The shell (user/user-shell.c, user/command.c) over the directories of   *)
(* Directory: how a command resolves its paths, which system calls it      *)
(* makes, one step each, and what it leaves when one of them fails or the  *)
(* machine is switched off between two.                                    *)
(*                                                                         *)
(* A path is the sequence of what is between its slashes: <<"a", "b">> is  *)
(* a/b, <<"", "a">> is /a, <<"", "">> is / and <<"">> is no path at all.   *)
(***************************************************************************)
EXTENDS Directory, Integers, Sequences, FiniteSets

Seqs == INSTANCE SequencesExt

CONSTANTS Contents,     \* what a file can hold
          CdPaths,      \* arguments of cd
          Sources,      \* first arguments of the other commands
          Targets,      \* second ones, and names of what is made
          MaxText       \* bound: directories in the prompt (255 bytes)

ASSUME ShellAssumption == Inode \subseteq Nat \ {0} /\ MaxText \in Nat

\* cd of nothing is cd of /
ASSUME CdAssumption == \A path \in CdPaths : path \in Seq(STRING) /\ path \notin {<<>>, <<"">>}

VARIABLES node,             \* the inode table: mode, "..", contents
          currentdirnode,   \* the current directory as an inode
          currentdir,       \* and as text: the names on the way to it, each with
                            \* whether it has bytes that the path did not have
          is_dir,           \* request->is_dir
          todo,             \* calls still to make: sets of tasks, the last set first
          cmd               \* history: the running command, and what it found
shellVars == <<entry, node, currentdirnode, currentdir, is_dir, todo, cmd>>

NoInode == 0
Live(i) == i = Root \/ Listed(i)
Free    == {i \in Inode : ~Live(i)}
Idle    == todo = <<>>
NoCmd   == [op |-> "none"]

-----------------------------------------------------------------------------
(* Paths, as the kernel resolves them.                                      *)

\* what the table has of inode i: a directory that the running command has deleted
\* still is there as it was, with its "." and ".."
Stored(i) == IF node[i].mode = "FREE" /\ ~Idle THEN cmd.old[i] ELSE node[i]

\* the inode that the entries found give
Found(S) == IF S = {} THEN NoInode ELSE (CHOOSE e \in S : TRUE)[3]

\* read_directory of one name in directory i
Find(i, c) ==
    IF Stored(i).mode # "DIR" THEN NoInode
    ELSE IF c = "." THEN i
    ELSE IF c = ".." THEN Stored(i).up
    ELSE Found({e \in entry[i] : e[1] = c /\ e[2] = "DIR"})

Steps == [i \in Inode |-> [c \in STRING |-> Find(i, c)]]

Name(path) == path[Len(path)]

\* resolve_path: from directory i by the given steps to the directory that the last
\* name of the path is looked up in
Walk(steps, i, path) ==
    LET at[k \in 0 .. Len(path)] ==
            IF k = 0 THEN i
            ELSE IF at[k - 1] = NoInode THEN NoInode
            ELSE IF path[k] = "" THEN Root ELSE steps[at[k - 1]][path[k]]
    IN  IF Name(path) = "" THEN NoInode ELSE at[Len(path) - 1]

Resolve(i, path) == Walk(Steps, i, path)

\* read_directory: of "/" and of no name the root
DirAt(i, path) ==
    IF path \in {<<"">>, <<"", "">>} THEN Root
    ELSE LET p == Resolve(i, path) IN IF p \in Inode THEN Find(p, Name(path)) ELSE NoInode

\* read
FileAt(i, path) ==
    LET p == Resolve(i, path)
    IN  IF p \in Inode THEN Found({e \in entry[p] : e[1] = Name(path) /\ e[2] = "REG"})
                       ELSE NoInode

Empty(i) == i # NoInode /\ entry[i] = {}
Below(i) == {q \in Inode : Live(q) /\ Within(q, i)}

IsName(c) == c \notin {"", ".", ".."}
Part      == {c \in STRING : IsName(c)} \X BOOLEAN

\* resolve_new_path, component by component. The slash behind a name is not counted
\* off, so a last name that another one comes before is taken to be longer than it
\* is: bytes of what follows the path are in the text with it.
TextAfter(text, path) ==
    LET at[k \in 0 .. Len(path)] ==
            IF k = 0 THEN text
            ELSE IF path[k] = "" THEN IF k = Len(path) THEN at[k - 1] ELSE <<>>
            ELSE IF path[k] = "." THEN at[k - 1]
            ELSE IF path[k] = ".." THEN Seqs!Front(at[k - 1])
            ELSE Append(at[k - 1], <<path[k], k = Len(path) /\ \E j \in 1 .. k - 1 : IsName(path[j])>>)
    IN  at

\* ".." in the root, where resolve_new_path returns
Lost(text, path) == {k \in 1 .. Len(path) : path[k] = ".." /\ TextAfter(text, path)[k - 1] = <<>>}

ResolveText(text, path) ==
    TextAfter(text, path)[IF Lost(text, path) = {} THEN Len(path)
                          ELSE Seqs!Min(Lost(text, path)) - 1]

-----------------------------------------------------------------------------
(* System calls.                                                            *)

NoText == "empty"
Blank  == [mode |-> "FREE", up |-> NoInode, data |-> NoText]

NewInode == CHOOSE i \in Free : \A j \in Free : i <= j

\* write: answers an error and changes nothing when there is no such directory
\* or the name is taken
CanWrite(at, path) ==
    LET p == Resolve(at, path)
    IN  p \in Inode /\ node[p].mode = "DIR" /\ ~Taken(p, Name(path))

SysWrite(at, path, type, data) ==
    LET p == Resolve(at, path) IN
    \/ /\ CanWrite(at, path) /\ Free # {} /\ Name(path) \in Names
       /\ Create(p, <<Name(path), type, NewInode>>)
       /\ node' = [node EXCEPT ![NewInode] = [mode |-> type, data |-> data,
                                                  up |-> IF type = "DIR" THEN p ELSE NoInode]]
    \/ ~CanWrite(at, path) /\ UNCHANGED <<entry, node>>

\* delete: an entry of the type that is asked for, if it is there, and a directory
\* only if it is empty
Deletable(at, path, dir) ==
    LET p == Resolve(at, path)
    IN  IF p \in Inode
        THEN {e \in entry[p] : /\ e[1] = Name(path) /\ e[2] = (IF dir THEN "DIR" ELSE "REG")
                               /\ Removable(p, e)}
        ELSE {}

SysDelete(at, path, dir) ==
    \/ \E e \in Deletable(at, path, dir) :
          /\ Remove(Resolve(at, path), e)
          /\ node' = [node EXCEPT ![e[3]] = Blank]
    \/ Deletable(at, path, dir) = {} /\ UNCHANGED <<entry, node>>

\* mutant: ".." of the moved directory stays
SysMoveDirOldParent(src, dst) ==
    LET p == Resolve(currentdirnode, src)
        d == DirAt(currentdirnode, dst)
    IN  /\ p \in Inode /\ d \in Inode
        /\ \E e \in {e \in entry[p] : e[1] = Name(src) /\ e[2] = "DIR"} : Move(p, e, d, Name(src))
        /\ UNCHANGED node

\* move_dir: into a directory that is there, or to a new name in this one
SysMoveDir(src, dst) ==
    LET p == Resolve(currentdirnode, src)
        d == DirAt(currentdirnode, dst)
        q == IF d \in Inode THEN d ELSE currentdirnode
        n == IF d \in Inode THEN Name(src) ELSE Name(dst)
    IN  /\ p \in Inode /\ (d \in Inode \/ Len(dst) = 1) /\ n \in Names
        /\ \E e \in {e \in entry[p] : e[1] = Name(src) /\ e[2] = "DIR"} :
              /\ Move(p, e, q, n)
              /\ node' = [node EXCEPT ![e[3]].up = q]

-----------------------------------------------------------------------------
(* Commands of one system call that changes something.                      *)

\* a command is read; what it names is looked up from a directory that is there
Ready(path) == Idle /\ ((path[1] = "" /\ Len(path) > 1) \/ Live(currentdirnode))

\* mutant: the text follows whether or not the directory is there
CdTextAnyway(path) ==
    /\ Ready(path)
    /\ currentdirnode' = IF DirAt(currentdirnode, path) = NoInode THEN currentdirnode
                         ELSE DirAt(currentdirnode, path)
    /\ currentdir' = ResolveText(currentdir, path)
    /\ Len(currentdir') <= MaxText
    /\ UNCHANGED <<entry, node, is_dir, todo, cmd>>

Cd(path) ==
    /\ Ready(path) /\ DirAt(currentdirnode, path) \in Inode
    /\ currentdirnode' = DirAt(currentdirnode, path)
    /\ currentdir' = ResolveText(currentdir, path)
    /\ Len(currentdir') <= MaxText
    /\ UNCHANGED <<entry, node, is_dir, todo, cmd>>

Mkdir(path) ==
    /\ Ready(path) /\ CanWrite(currentdirnode, path)
    /\ SysWrite(currentdirnode, path, "DIR", NoText)
    /\ UNCHANGED <<currentdirnode, currentdir, is_dir, todo, cmd>>

\* no text at all makes a directory
Nano(path, text) ==
    /\ Ready(path) /\ CanWrite(currentdirnode, path)
    /\ FileAt(currentdirnode, path) = NoInode /\ DirAt(currentdirnode, path) = NoInode
    /\ SysWrite(currentdirnode, path, IF text = NoText THEN "DIR" ELSE "REG", text)
    /\ UNCHANGED <<currentdirnode, currentdir, is_dir, todo, cmd>>

MoveDir(src, dst) ==
    /\ Ready(src) /\ Ready(dst) /\ DirAt(currentdirnode, src) # NoInode
    /\ SysMoveDir(src, dst)
    /\ UNCHANGED <<currentdirnode, currentdir, is_dir, todo, cmd>>

-----------------------------------------------------------------------------
(* Commands of many system calls: the calls are tasks, made one at a time.   *)

Task(op, at, src, to, dst) == [op |-> op, at |-> at, src |-> src, to |-> to, dst |-> dst]

\* the tasks of set S come before the rest
Push(rest, S) == IF S = {} THEN rest ELSE Append(rest, S)

Begin(op, src, S) ==
    /\ todo' = Push(<<>>, S)
    /\ cmd' = [op |-> op, name |-> Name(src), was |-> entry,
             old |-> [i \in Inode |-> IF Live(i) THEN node[i] ELSE Blank],
               from |-> IF FileAt(currentdirnode, src) # NoInode
                        THEN FileAt(currentdirnode, src) ELSE DirAt(currentdirnode, src)]
    /\ UNCHANGED <<currentdirnode, currentdir>>

\* mutant: the old file goes whatever write answered
MoveFileAnyway(src, dst) ==
    LET f  == FileAt(currentdirnode, src)
        d  == DirAt(currentdirnode, dst)
    IN  /\ Ready(src) /\ Ready(dst)
        /\ DirAt(currentdirnode, src) = NoInode /\ f # NoInode
        /\ SysWrite(IF d = NoInode THEN currentdirnode ELSE d,
                    IF d = NoInode THEN dst ELSE src, "REG", node[f].data)
        /\ Begin("mv", src, {Task("del", currentdirnode, src, NoInode, dst)})
        /\ UNCHANGED is_dir

\* mv of a file: rename_file when dst is no directory, move_file_to_folder, which
\* looks dst up a second time from the directory that it found, when it is one.
\* What is written is deleted where it was by the next call.
MoveFile(src, dst) ==
    LET f  == FileAt(currentdirnode, src)
        d  == DirAt(currentdirnode, dst)
        at == IF d = NoInode THEN currentdirnode
              ELSE IF DirAt(d, dst) = NoInode THEN d ELSE DirAt(d, dst)
        as == IF d = NoInode THEN dst ELSE src
    IN  /\ Ready(src) /\ Ready(dst)
        /\ DirAt(currentdirnode, src) = NoInode /\ f # NoInode
        /\ CanWrite(at, as)
        /\ SysWrite(at, as, "REG", node[f].data)
        /\ Begin("mv", src, {Task("del", currentdirnode, src, NoInode, dst)})
        /\ UNCHANGED is_dir

\* cp without -r: a file, or a directory with nothing in it
Copy(src, dst) ==
    /\ Ready(src) /\ Ready(dst) /\ Free # {} /\ Name(dst) \in Names
    /\ Begin("cp", src, {Task("cp", currentdirnode, src, currentdirnode, dst)})
    /\ UNCHANGED <<entry, node, is_dir>>

\* cp -r of a directory, but not to below itself
CopyTree(src, dst) ==
    LET d == DirAt(currentdirnode, src)
        q == Resolve(currentdirnode, dst)
    IN  /\ Ready(src) /\ Ready(dst) /\ Name(dst) \in Names
        /\ FileAt(currentdirnode, src) = NoInode /\ d # NoInode
        /\ Cardinality(Free) >= Cardinality(Below(d))
        /\ q = NoInode \/ q = d \/ q \notin Below(d)
        /\ Begin("cp", src, {Task("cpr", currentdirnode, src, currentdirnode, dst)})
        /\ UNCHANGED <<entry, node, is_dir>>

\* cp -r of what is not there makes a file of that name, with what the buffer holds
CopyTreeOfNothing(src, text) ==
    /\ Ready(src) /\ Len(src) = 1 /\ DirAt(currentdirnode, src) = NoInode
    /\ FileAt(currentdirnode, src) = NoInode /\ CanWrite(currentdirnode, src)
    /\ SysWrite(currentdirnode, src, "REG", text)
    /\ UNCHANGED <<currentdirnode, currentdir, is_dir, todo, cmd>>

\* rm and rm -r leave in request->is_dir what they took src for
RemoveOne(src) ==
    LET f == FileAt(currentdirnode, src)
        d == DirAt(currentdirnode, src)
    IN  /\ Ready(src)
        /\ f # NoInode \/ Empty(d)
        /\ Begin("rm", src, {Task("rm", currentdirnode, src, NoInode, src)})
        /\ is_dir' = (f = NoInode)
        /\ UNCHANGED <<entry, node>>

RemoveTree(src) ==
    /\ Ready(src)
    /\ Begin("rm", src, {Task("rmr", currentdirnode, src, NoInode, src)})
    /\ is_dir' = (FileAt(currentdirnode, src) = NoInode)
    /\ UNCHANGED <<entry, node>>

-----------------------------------------------------------------------------
(* The calls of a command.                                                  *)

ChildTasks(i, file, dir, to) ==
    {Task(IF e[2] = "REG" THEN file ELSE dir, i, <<e[1]>>, to, <<e[1]>>) : e \in entry[i]}

RunCopy(t, rest) ==
    LET f == FileAt(t.at, t.src)
        d == DirAt(t.at, t.src)
    IN  /\ t.op = "cp"
        /\ \/ f # NoInode /\ SysWrite(t.to, t.dst, "REG", node[f].data)
           \/ f = NoInode /\ Empty(d) /\ SysWrite(t.to, t.dst, "DIR", NoText)
           \/ f = NoInode /\ ~Empty(d) /\ UNCHANGED <<entry, node>>
        /\ todo' = rest

\* mutant: what is copied goes where the directory itself went
RunCopyTreeFlat(t, rest) ==
    LET d == DirAt(t.at, t.src)
    IN  /\ t.op = "cpr"
        /\ SysWrite(t.to, t.dst, "DIR", NoText)
        /\ todo' = IF CanWrite(t.to, t.dst)
                   THEN Push(rest, ChildTasks(d, "cp", "cpr", t.to)) ELSE rest

\* the directory is made, then what was in the old one before is copied into it
RunCopyTree(t, rest) ==
    LET d == DirAt(t.at, t.src)
    IN  /\ t.op = "cpr"
        /\ SysWrite(t.to, t.dst, "DIR", NoText)
        /\ todo' = IF CanWrite(t.to, t.dst)
                   THEN Push(rest, ChildTasks(d, "cp", "cpr", NewInode)) ELSE rest

RunRemove(t, rest) ==
    LET f == FileAt(t.at, t.src)
        d == DirAt(t.at, t.src)
    IN  /\ t.op = "rm"
        /\ \/ f # NoInode /\ SysDelete(t.at, t.src, FALSE)
           \/ f = NoInode /\ Empty(d) /\ SysDelete(t.at, t.src, TRUE)
           \/ f = NoInode /\ ~Empty(d) /\ UNCHANGED <<entry, node>>
        /\ todo' = rest

\* mutants: what is in a directory is looked up from the current one; a directory
\* that could not be deleted is tried again
RunRemoveTreeHere(t, rest) ==
    LET f == FileAt(t.at, t.src)
        d == DirAt(t.at, t.src)
        last == Task("deldir", t.at, t.src, NoInode, t.src)
    IN  /\ t.op = "rmr"
        /\ \/ /\ f = NoInode /\ d # NoInode
              /\ todo' = Push(Append(rest, {last}),
                              {[c EXCEPT !.at = currentdirnode] : c \in ChildTasks(d, "rm", "rmr", NoInode)})
              /\ UNCHANGED <<entry, node>>
           \/ f # NoInode /\ SysDelete(t.at, t.src, FALSE) /\ todo' = rest
           \/ f = NoInode /\ d = NoInode /\ todo' = rest /\ UNCHANGED <<entry, node>>
RunDeleteRetried(t, rest) ==
    /\ t.op \in {"del", "deldir"}
    /\ SysDelete(t.at, t.src, IF t.op = "del" THEN is_dir ELSE TRUE)
    /\ todo' = IF t.op = "deldir" /\ Deletable(t.at, t.src, TRUE) = {}
               THEN Append(rest, {t}) ELSE rest

\* a file is deleted; a directory after everything in it
RunRemoveTree(t, rest) ==
    LET f == FileAt(t.at, t.src)
        d == DirAt(t.at, t.src)
        last == Task("deldir", t.at, t.src, NoInode, t.src)
    IN  /\ t.op = "rmr"
        /\ \/ /\ f = NoInode /\ d # NoInode
              /\ todo' = Push(Append(rest, {last}), ChildTasks(d, "rm", "rmr", NoInode))
              /\ UNCHANGED <<entry, node>>
           \/ f # NoInode /\ SysDelete(t.at, t.src, FALSE) /\ todo' = rest
           \/ f = NoInode /\ d = NoInode /\ todo' = rest /\ UNCHANGED <<entry, node>>

\* what follows: the directory of rm -r, or the old file of mv, which delete takes
\* for what the last rm has left in request->is_dir
RunDelete(t, rest) ==
    /\ t.op \in {"del", "deldir"}
    /\ SysDelete(t.at, t.src, IF t.op = "del" THEN is_dir ELSE TRUE)
    /\ todo' = rest

RunTask ==
    /\ ~Idle
    /\ \E t \in Seqs!Last(todo) : LET rest == Push(Seqs!Front(todo), Seqs!Last(todo) \ {t}) IN
          \/ RunCopy(t, rest)
          \/ RunCopyTree(t, rest)
          \/ RunRemove(t, rest)
          \/ RunRemoveTree(t, rest)
          \/ RunDelete(t, rest)
    /\ cmd' = IF todo' = <<>> THEN NoCmd ELSE cmd
    /\ UNCHANGED <<currentdirnode, currentdir, is_dir>>

\* the machine is switched off between two calls; the shell starts again
Stop ==
    /\ todo' = <<>> /\ cmd' = NoCmd
    /\ currentdirnode' = Root /\ currentdir' = <<>>
    /\ is_dir' \in BOOLEAN
    /\ UNCHANGED <<entry, node>>

-----------------------------------------------------------------------------
ShellInit ==
    /\ Init
    /\ node = [i \in Inode |-> IF i = Root THEN [mode |-> "DIR", up |-> Root, data |-> NoText]
                               ELSE Blank]
    /\ currentdirnode = Root /\ currentdir = <<>>
    /\ is_dir \in BOOLEAN
    /\ todo = <<>> /\ cmd = NoCmd

Command ==
    \/ \E path \in CdPaths : Cd(path)
    \/ \E path \in Targets : Mkdir(path)
    \/ \E path \in Targets, text \in Contents \cup {NoText} : Nano(path, text)
    \/ \E src \in Sources, dst \in Targets : MoveDir(src, dst)
    \/ \E src \in Sources, dst \in Targets : MoveFile(src, dst)
    \/ \E src \in Sources, dst \in Targets : Copy(src, dst)
    \/ \E src \in Sources, dst \in Targets : CopyTree(src, dst)
    \/ \E src \in Sources, text \in Contents : CopyTreeOfNothing(src, text)
    \/ \E src \in Sources : RemoveOne(src)
    \/ \E src \in Sources : RemoveTree(src)

ShellNext == Command \/ RunTask \/ Stop

\* The shell is the only process and every system call of it returns, so a command
\* that has begun goes on; nobody has to type another one, or to switch off.
ShellSpec == ShellInit /\ [][ShellNext]_shellVars /\ WF_shellVars(RunTask)

-----------------------------------------------------------------------------
\* A live inode is of the type that its entry says, and ".." of a directory names
\* the directory that holds it.
ShellTypeOK ==
    /\ TypeOK
    /\ currentdirnode \in Inode /\ is_dir \in BOOLEAN
    /\ currentdir \in Seq(Part) /\ Len(currentdir) <= MaxText
    /\ \A p \in Inode : \A e \in entry[p] :
          node[e[3]].mode = e[2] /\ (e[2] = "DIR" => node[e[3]].up = p)

\* the text as an absolute path
TextPath(text) == IF text = <<>> THEN <<"", "">>
                  ELSE <<"">> \o [k \in 1 .. Len(text) |-> text[k][1]]
TextAgrees == DirAt(Root, TextPath(currentdir)) = currentdirnode

\* After a cd the names of the text lead to the directory that commands work in, if
\* they did before or the path is absolute (main and resolve_new_path resolve the
\* path each in its own way); only ".." in the root is left out, where what is
\* after it is dropped by resolve_new_path alone.
CdKeepsText ==
    [][\A path \in CdPaths :
          /\ Cd(path) /\ (path[1] = "" \/ TextAgrees)
          /\ Lost(currentdir, path) \subseteq {Len(path)}
          => TextAgrees']_shellVars

\* inode i and what is below it
Reach(ent, i) ==
    LET ClosedIn(S) == \A p \in S : \A e \in ent[p] : e[3] \in S
    IN  {q \in Inode : i \in Inode /\ \A S \in SUBSET Inode : i \in S /\ ClosedIn(S) => q \in S}

\* names, types and contents from inode i on
Tree(ent, tab, i) ==
    LET below[j \in Inode] ==
            <<tab[j].mode, tab[j].data, {<<e[1], below[e[3]]>> : e \in ent[j]}>>
    IN  below[i]

\* rm and rm -r delete nothing but what they are asked for and what is below it,
\* and rm -r leaves nothing of it, when every call of it finds its directory by the
\* inode that an earlier one has read, even if the current directory goes too.
RemovesTheTree ==
    [][cmd.op = "rm" /\ RunTask =>
          /\ \A p \in Inode : /\ entry'[p] \subseteq entry[p]
                              /\ \A e \in entry[p] \ entry'[p] : e[3] \in Reach(cmd.was, cmd.from)
          /\ todo' = <<>> => \A i \in Reach(cmd.was, cmd.from) :
                                 Listed(i)' => i = cmd.from /\ cmd.name \notin Names
      ]_shellVars

\* cp takes nothing away, and when it ends it has made either nothing or one copy
\* with the names, the types and the contents of what there was when it began, even
\* if the copy is made inside of what is copied.
CopyIsFaithful ==
    [][cmd.op = "cp" /\ RunTask =>
          LET Made(p) == entry'[p] \ cmd.was[p] IN
          /\ \A p \in Inode : cmd.was[p] \subseteq entry'[p]
          /\ todo' = <<>> =>
                \/ entry' = cmd.was
                \/ /\ \E p \in Inode : \E e \in Made(p) :
                         Tree(entry', node', e[3]) = Tree(cmd.was, cmd.old, cmd.from)
                   /\ Cardinality(UNION {Made(p) : p \in Inode})
                      = Cardinality(Reach(cmd.was, cmd.from))
      ]_shellVars

\* what a step does to the file that mv moves, counted from when mv began
FileIsKept ==
    LET Gone == UNION {cmd.was[p] \ entry'[p] : p \in Inode}
        Made == UNION {entry'[p] \ cmd.was[p] : p \in Inode}
    IN  /\ \E e \in Made : Made = {e} /\ e[2] = "REG" /\ node'[e[3]].data = cmd.old[cmd.from].data
        /\ \A e \in Gone : e[3] = cmd.from
        /\ RunTask /\ ~is_dir => Gone # {}

\* A file that mv moves is never gone, wherever the machine is switched off, nothing
\* else is touched, and it is in one place again when mv ends, if the last rm has not
\* left request->is_dir set.
MoveKeepsFile == [][cmd.op = "mv" => FileIsKept]_shellVars

\* Every command ends: cp -r and rm -r come to the last of the directories below,
\* and back, whatever the calls answer.
CommandEnds == todo # <<>> ~> todo = <<>>
=============================================================================
