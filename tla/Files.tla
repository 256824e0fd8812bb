-------------------------------- MODULE Files --------------------------------
(***************************************************************************)
(* The file system calls (sysfile.c), the table of open files (file.c) and *)
(* path names (namex() in fs.c), made by several processes at once over    *)
(* the inode layer of Inode.                                               *)
(*                                                                         *)
(* A system call runs in steps from one place where it may wait for an     *)
(* inode to the next.  When an iput() in it frees an inode there are two   *)
(* more, because other processes see the free inodes of the disk and the   *)
(* reference counts without a lock on the inode.                           *)
(***************************************************************************)
EXTENDS Inode

CONSTANTS
    Process,            \* 1 is init
    NOFILE, NFILE,      \* descriptors of a process, entries of ftable
    Script              \* for each process, the sets its calls are chosen from

ASSUME FilesAssumption ==
    /\ {NOFILE, NFILE} \subseteq Nat \ {0} /\ 1 \in Process
    /\ DOMAIN Script = Process

VARIABLES
    fs,         \* the record of Inode
    ftable,     \* open files
    ofile,      \* the files of each process by descriptor, 0 for none
    cwd,        \* the working directory of each process, 0 if there is no process
    call,       \* the system call each process is in
    done,       \* the number of calls each process has made
    stranded    \* history: inodes whose entry vanished with its directory

vars == <<fs, ftable, ofile, cwd, call, done, stranded>>

Fd == 1 .. NOFILE
File == 1 .. NFILE
Closed == [ref |-> 0, type |-> "NONE", ip |-> 0, off |-> 0, writable |-> FALSE]

\* pc says what comes after the inodes in puts have been put; freeing says how
\* far iput() is with the first of them.
Idle ==
    [op |-> "none", pc |-> "none", path |-> <<>>, new |-> <<>>, name |-> "", ip |-> 0, dp |-> 0,
     old |-> 0, puts |-> <<>>, freeing |-> "no", stale |-> FALSE]

Init ==
    /\ fs = iget(Mounted, ROOTINO)
    /\ ftable = [f \in File |-> Closed]
    /\ ofile = [p \in Process |-> [fd \in Fd |-> 0]]
    /\ cwd = [p \in Process |-> IF p = 1 THEN ROOTINO ELSE 0]
    /\ call = [p \in Process |-> Idle]
    /\ done = [p \in Process |-> 0]
    /\ stranded = {}

-----------------------------------------------------------------------------
Running == fs.panic = "none"

\* A call is a record [op, path, new, fd].
Calls(p) == IF cwd[p] # 0 /\ done[p] < Len(Script[p]) THEN Script[p][done[p] + 1] ELSE {}

Ready(p, r) == Running /\ call[p] = Idle /\ r \in Calls(p) /\ done' = [done EXCEPT ![p] = @ + 1]

At(p, pc) == Running /\ call[p].pc = pc /\ call[p].puts = <<>> /\ UNCHANGED done

\* The iput() that comes next, if it need not free the inode.
Drop(x) ==
    IF x.fs.panic # "none" \/ x.call.puts = <<>> \/ x.call.freeing # "no" THEN x
    ELSE [fs |-> iput(x.fs, x.call.puts[1]),
          call |-> IF Last(x.fs, x.call.puts[1]) THEN [x.call EXCEPT !.freeing = "truncate"]
                   ELSE [x.call EXCEPT !.puts = Tail(@)]]

\* The call goes on with the file system s and the record c, or is over, after
\* the (at most two) inodes in puts have been put.
Goto(p, s, c) ==
    LET x == Drop(Drop([fs |-> s, call |-> c]))
    IN  /\ fs' = x.fs
        /\ call' = [call EXCEPT ![p] =
             IF x.call.pc = "return" /\ x.call.puts = <<>> /\ x.fs.panic = "none" THEN Idle ELSE x.call]

Put(c, inodes) == [c EXCEPT !.pc = "return", !.puts = inodes, !.ip = 0, !.dp = 0, !.old = 0]

NoFile == UNCHANGED <<ftable, ofile, cwd>>

\* The calls that look for the directory the last name is in.
Makes(c) == c.op \in {"create", "mkdir", "mknod"}

Parent(c) == Makes(c) \/ c.op = "unlink" \/ (c.op = "link" /\ c.old # 0)

\* namex() starts at the root or at the working directory; what it makes of an
\* empty path.
Absolute(path) == path # <<>> /\ path[1] = "/"
Start(p, path) == IF Absolute(path) THEN ROOTINO ELSE cwd[p]
First(s, p, path) == IF Absolute(path) THEN iget(s, ROOTINO) ELSE idup(s, cwd[p])

Walking(c, p, path) ==
    [c EXCEPT !.pc = "walk", !.path = IF Absolute(path) THEN Tail(path) ELSE path, !.ip = Start(p, path)]

WithPath == {"open", "create", "mkdir", "mknod", "link", "unlink", "chdir", "exec"}

Begin(p, r) ==
    /\ Ready(p, r) /\ r.op \in WithPath
    /\ Goto(p, First(fs, p, r.path),
            Walking([Idle EXCEPT !.op = r.op, !.new = r.new], p, r.path))
    /\ NoFile /\ UNCHANGED stranded

WalkFails_Keeps(c) == IF c.op = "link" /\ c.old # 0 THEN [c EXCEPT !.pc = "bad", !.ip = 0] ELSE Put(c, <<c.ip>>)

\* A walk that fails: link() takes back its link, the others return.
WalkFails(c) ==
    IF c.op = "link" /\ c.old # 0
      THEN [c EXCEPT !.pc = "bad", !.puts = <<c.ip>>, !.ip = 0, !.path = <<>>]
      ELSE Put(c, <<c.ip>>)

IsDir_Any(s, i) == TRUE

IsDir(s, i) == s.icache[i].copy.type = "DIR"

\* One round of the loop of namex(), with the inode locked.
Step(p, s) ==
    LET c == call[p]
        name == c.path[1]
        last == Parent(c) /\ Len(c.path) = 1
        next == dirlookup(s, c.ip, name)
    IN  \/ /\ ~IsDir(s, c.ip) \/ (~last /\ next = 0)
           /\ Goto(p, iunlock(s, c.ip),
                   WalkFails(c))
        \/ /\ IsDir(s, c.ip) /\ last
           /\ Goto(p, iunlock(s, c.ip),
                   [c EXCEPT !.pc = "parent", !.dp = c.ip, !.ip = 0, !.name = name, !.path = <<>>])
        \/ /\ IsDir(s, c.ip) /\ ~last /\ next # 0
           /\ Goto(p, iunlock(iget(s, next), c.ip),
                   [c EXCEPT !.path = Tail(@), !.ip = next, !.puts = <<c.ip>>,
                                !.stale = @ \/ (name = ".." /\ s.icache[c.ip].copy.nlink = 0)])

Walk(p) ==
    /\ At(p, "walk") /\ call[p].path # <<>> /\ ~Busy(fs, call[p].ip)
    /\ Step(p, ilock(fs, call[p].ip))
    /\ NoFile /\ UNCHANGED stranded

\* nameiparent() of a path without a name.
WalkNoName(p) ==
    /\ At(p, "walk") /\ call[p].path = <<>> /\ Parent(call[p])
    /\ Goto(p, fs, WalkFails(call[p]))
    /\ NoFile /\ UNCHANGED stranded

-----------------------------------------------------------------------------
(***************************************************************************)
(* Putting inodes                                                          *)
(***************************************************************************)
IputFrees(p) ==
    /\ Running /\ call[p].freeing = "truncate" /\ UNCHANGED done
    /\ LET i == call[p].puts[1]
       IN  /\ Goto(p, iputFrees(fs, i), [call[p] EXCEPT !.freeing = "unlock"])
           /\ stranded' = (stranded \cup {fs.dirent[i][n] : n \in Name}) \ {0, i}
    /\ NoFile

IputEnds(p) ==
    /\ Running /\ call[p].freeing = "unlock" /\ UNCHANGED done
    /\ Goto(p, iputEnds(fs, call[p].puts[1]),
            [call[p] EXCEPT !.freeing = "no", !.puts = Tail(@)])
    /\ NoFile /\ UNCHANGED stranded

-----------------------------------------------------------------------------
(***************************************************************************)
(* Opening                                                                 *)
(***************************************************************************)
FreeFiles == {f \in File : ftable[f].ref = 0}
FreeFds(p) == {fd \in Fd : ofile[p][fd] = 0}

\* The end of sys_open() with ip locked: filealloc() and fdalloc(), or -1.
Opens(p, s, ip, writable) ==
    /\ IF FreeFiles = {} \/ FreeFds(p) = {}
         THEN Goto(p, iunlock(s, ip), Put(call[p], <<ip>>)) /\ UNCHANGED <<ftable, ofile>>
         ELSE /\ ftable' = [ftable EXCEPT ![Min(FreeFiles)] =
                  [ref |-> 1, type |-> "INODE", ip |-> ip, off |-> 0, writable |-> writable]]
              /\ ofile' = [ofile EXCEPT ![p][Min(FreeFds(p))] = Min(FreeFiles)]
              /\ Goto(p, iunlock(s, ip), Put(call[p], <<>>))
    /\ UNCHANGED cwd

\* What the calls do with the inode that namei() has found, once it is locked.
Found(p, s) ==
    LET c == call[p]
        type == s.icache[c.ip].copy.type
    IN  \/ /\ c.op = "open"             \* to read
           /\ Opens(p, s, c.ip, FALSE)
        \/ /\ c.op = "exec" \/ (c.op = "chdir" /\ type # "DIR") \/ (c.op = "link" /\ type = "DIR")
           /\ Goto(p, iunlock(s, c.ip),
                   Put(c, <<c.ip>>))
           /\ NoFile
        \/ /\ c.op = "chdir" /\ type = "DIR"
           /\ Goto(p, iunlock(s, c.ip),
                   Put(c, <<cwd[p]>>))
           /\ cwd' = [cwd EXCEPT ![p] = c.ip]
           /\ UNCHANGED <<ftable, ofile>>
        \/ /\ c.op = "link" /\ type # "DIR"
           /\ Goto(p, First(iunlock(AddLinks(s, c.ip, 1), c.ip), p, c.new),
                   Walking([c EXCEPT !.old = c.ip], p, c.new))
           /\ NoFile

Finds(p) ==
    /\ At(p, "walk") /\ call[p].path = <<>> /\ ~Parent(call[p]) /\ ~Busy(fs, call[p].ip)
    /\ Found(p, ilock(fs, call[p].ip))
    /\ UNCHANGED stranded

-----------------------------------------------------------------------------
(***************************************************************************)
(* Creating, linking and unlinking, with the directory dp locked           *)
(***************************************************************************)
Type(op) == CASE op = "create" -> "FILE" [] op = "mkdir" -> "DIR" [] op = "mknod" -> "DEV"

InParent(p, s) ==
    LET c == call[p]
        ip == dirlookup(s, c.dp, c.name)
    IN  \/ /\ c.op = "unlink" /\ (c.name \in {".", ".."} \/ ip = 0)
           /\ Goto(p, iunlock(s, c.dp),
                   Put(c, <<c.dp>>))
        \/ /\ c.op = "unlink" /\ c.name \notin {".", ".."} /\ ip # 0
           /\ Goto(p, iget(s, ip),
                   [c EXCEPT !.pc = "victim", !.ip = ip])
        \/ /\ Makes(c) /\ ip # 0
           /\ Goto(p, iunlock(iget(s, ip), c.dp),
                   [c EXCEPT !.pc = "exists", !.ip = ip, !.dp = 0, !.puts = <<c.dp>>])
        \/ /\ Makes(c) /\ ip = 0
           /\ Goto(p, ialloc(s, Type(c.op)),
                   IF FreeInum(s) = {} THEN c ELSE [c EXCEPT !.pc = "fresh", !.ip = Min(FreeInum(s))])
        \/ /\ c.op = "link" /\ ip # 0
           /\ Goto(p, iunlock(iget(s, ip), c.dp),
                   [c EXCEPT !.pc = "bad", !.dp = 0, !.puts = <<ip, c.dp>>])
        \/ /\ c.op = "link" /\ ip = 0
           /\ Goto(p, iunlock(Entered(s, c.dp, c.name, c.old), c.dp),
                   Put(c, <<c.dp, c.old>>))

LocksParent(p) ==
    /\ At(p, "parent") /\ ~Busy(fs, call[p].dp)
    /\ LET s == ilock(fs, call[p].dp)
       IN  InParent(p, IF s.icache[call[p].dp].copy.type = "DIR" THEN s ELSE Panic(s, "dirlookup not DIR"))
    /\ NoFile /\ UNCHANGED stranded

\* sys_unlink() with both inodes locked; a directory that is not empty stays.
\* Otherwise dp is put before the links of the inode are counted down.
Unlinks(p) ==
    /\ At(p, "victim") /\ ~Busy(fs, call[p].ip)
    /\ LET c == call[p]
           locked == ilock(fs, c.ip)
           s == IF locked.icache[c.ip].copy.nlink < 1 THEN Panic(locked, "unlink: nlink < 1") ELSE locked
           dir == s.icache[c.ip].copy.type = "DIR"
           erased == [s EXCEPT !.dirent[c.dp][c.name] = 0]
           parent == iunlock(IF dir THEN AddLinks(erased, c.dp, -1) ELSE erased, c.dp)
       IN  IF dir /\ ~isdirempty(s, c.ip)
             THEN Goto(p, iunlock(iunlock(s, c.ip), c.dp), Put(c, <<c.ip, c.dp>>))
             ELSE Goto(p, parent, [c EXCEPT !.pc = "erased", !.dp = 0, !.puts = <<c.dp>>])
    /\ NoFile /\ UNCHANGED stranded

UnlinkEnds(p) ==
    /\ At(p, "erased")
    /\ Goto(p, iunlock(AddLinks(fs, call[p].ip, -1), call[p].ip), Put(call[p], <<call[p].ip>>))
    /\ NoFile /\ UNCHANGED stranded

\* create() of a name that is there.
Exists(p) ==
    /\ At(p, "exists") /\ ~Busy(fs, call[p].ip)
    /\ LET s == ilock(fs, call[p].ip)
       IN  IF call[p].op = "create" /\ s.icache[call[p].ip].copy.type = "FILE"
             THEN Opens(p, s, call[p].ip, TRUE)
           ELSE Goto(p, iunlock(s, call[p].ip), Put(call[p], <<call[p].ip>>)) /\ NoFile
    /\ UNCHANGED stranded

\* create() of a new name: the inode from ialloc() gets its link, a directory
\* its dots, and the name is entered; the new inode stays locked.
Dots_NoParentLink(s, i, dp) == Entered(Entered(s, i, ".", i), i, "..", dp)

Dots(s, i, dp) == Entered(Entered(AddLinks(s, dp, 1), i, ".", i), i, "..", dp)

Creates(p) ==
    /\ At(p, "fresh") /\ ~Busy(fs, call[p].ip)
    /\ LET c == call[p]
           s == AddLinks(ilock(fs, c.ip), c.ip, 1)
           made == IF c.op = "mkdir" THEN Dots(s, c.ip, c.dp) ELSE s
       IN  Goto(p, iunlock(Entered(made, c.dp, c.name, c.ip), c.dp),
                        [c EXCEPT !.pc = "created", !.dp = 0, !.puts = <<c.dp>>])
    /\ NoFile /\ UNCHANGED stranded

Created(p) ==
    /\ At(p, "created")
    /\ IF call[p].op = "create" THEN Opens(p, fs, call[p].ip, TRUE)
       ELSE Goto(p, iunlock(fs, call[p].ip), Put(call[p], <<call[p].ip>>)) /\ NoFile
    /\ UNCHANGED stranded

\* The end of a link() that fails.
Unlinked(p) ==
    /\ At(p, "bad") /\ ~Busy(fs, call[p].old)
    /\ Goto(p, iunlock(AddLinks(ilock(fs, call[p].old), call[p].old, -1), call[p].old),
            Put(call[p], <<call[p].old>>))
    /\ NoFile /\ UNCHANGED stranded

-----------------------------------------------------------------------------
(***************************************************************************)
(* Calls on descriptors, fork() and exit()                                 *)
(***************************************************************************)
\* fileclose() of a descriptor; the last close of a file puts its inode.
Closes(p, fd, c) ==
    LET f == ofile[p][fd]
        last == ftable[f].ref = 1
    IN  /\ ofile' = [ofile EXCEPT ![p][fd] = 0]
        /\ ftable' = [ftable EXCEPT ![f] = IF last THEN Closed ELSE [@ EXCEPT !.ref = @ - 1]]
        /\ Goto(p, fs, IF last /\ ftable[f].type = "INODE" THEN [c EXCEPT !.puts = <<ftable[f].ip>>] ELSE c)
        /\ UNCHANGED <<cwd, stranded>>

Close(p, r) ==
    /\ Ready(p, r) /\ r.op = "close" /\ ofile[p][r.fd] # 0
    /\ Closes(p, r.fd, [Idle EXCEPT !.op = "close", !.pc = "return"])

\* filedup() comes after the descriptor is taken.
Dup(p, r) ==
    /\ Ready(p, r) /\ r.op = "dup" /\ ofile[p][r.fd] # 0 /\ FreeFds(p) # {}
    /\ ofile' = [ofile EXCEPT ![p][Min(FreeFds(p))] = ofile[p][r.fd]]
    /\ ftable' = [ftable EXCEPT ![ofile[p][r.fd]].ref = @ + 1]
    /\ UNCHANGED <<fs, cwd, call, stranded>>

\* fileread() of a block, and filestat(): they lock the inode and let it go.
Read(p, r) ==
    /\ Ready(p, r) /\ r.op = "read" /\ ofile[p][r.fd] # 0
    /\ LET f == ofile[p][r.fd]
           s == ilock(fs, ftable[f].ip)
       IN  /\ ftable[f].type = "INODE" /\ ~Busy(fs, ftable[f].ip)
           /\ fs' = iunlock(s, ftable[f].ip)
           /\ ftable' = [ftable EXCEPT ![f].off =
                 IF @ < Len(s.icache[ftable[f].ip].copy.addrs) THEN @ + 1 ELSE @]
    /\ UNCHANGED <<ofile, cwd, call, stranded>>

\* filewrite() of a block, which is one transaction.
Write(p, r) ==
    /\ Ready(p, r) /\ r.op = "write" /\ ofile[p][r.fd] # 0
    /\ LET f == ofile[p][r.fd]
           i == ftable[f].ip
           s == ilock(fs, i)
           written == writei(s, i, ftable[f].off)
       IN  /\ ftable[f].type = "INODE" /\ ftable[f].writable /\ ~Busy(fs, i)
           /\ ~writeiFails(s, i, ftable[f].off)
           /\ fs' = iunlock(written, i)
           /\ ftable' = [ftable EXCEPT ![f].off = @ + 1]
    /\ UNCHANGED <<ofile, cwd, call, stranded>>

\* sys_pipe(): two files, two descriptors, or none.
Pipe(p, r) ==
    /\ Ready(p, r) /\ r.op = "pipe" /\ Cardinality(FreeFiles) >= 2 /\ Cardinality(FreeFds(p)) >= 2
    /\ LET f == Min(FreeFiles)
           w == Min(FreeFiles \ {f})
           fd == Min(FreeFds(p))
       IN  /\ ftable' = [ftable EXCEPT ![f] = [Closed EXCEPT !.ref = 1, !.type = "PIPE"],
                                       ![w] = [Closed EXCEPT !.ref = 1, !.type = "PIPE", !.writable = TRUE]]
           /\ ofile' = [ofile EXCEPT ![p][fd] = f, ![p][Min(FreeFds(p) \ {fd})] = w]
    /\ UNCHANGED <<fs, cwd, call, stranded>>

\* The calls that return -1 at once: no such descriptor, none free, no free
\* file, not open for writing, or the file is as large as it may be.
Refused(p, r) ==
    /\ Ready(p, r)
    /\ \/ r.op \in {"close", "dup", "read", "write"} /\ ofile[p][r.fd] = 0
       \/ r.op = "dup" /\ FreeFds(p) = {}
       \/ r.op = "pipe" /\ (Cardinality(FreeFiles) < 2 \/ Cardinality(FreeFds(p)) < 2)
       \/ r.op = "write" /\ ofile[p][r.fd] # 0
            /\ LET f == ftable[ofile[p][r.fd]] IN ~f.writable \/ (f.type = "INODE" /\ f.off >= MAXFILE)
    /\ UNCHANGED <<fs, ftable, ofile, cwd, call, stranded>>

\* The part of fork() that shares the open files and the directory.
Fork(p, q, r) ==
    /\ Ready(p, r) /\ r.op = "fork" /\ cwd[q] = 0 /\ call[q] = Idle
    /\ ofile' = [ofile EXCEPT ![q] = ofile[p]]
    /\ ftable' = [f \in File |->
         [ftable[f] EXCEPT !.ref = @ + Cardinality({fd \in Fd : ofile[p][fd] = f})]]
    /\ fs' = idup(fs, cwd[p])
    /\ cwd' = [cwd EXCEPT ![q] = cwd[p]]
    /\ UNCHANGED <<call, stranded>>

\* exit() closes the files one after the other, and then puts the directory.
Exit(p, r) ==
    /\ Ready(p, r) /\ r.op = "exit" /\ p # 1
    /\ Goto(p, fs, [Idle EXCEPT !.op = "exit", !.pc = "exit"])
    /\ NoFile /\ UNCHANGED stranded

ExitCloses(p) ==
    /\ At(p, "exit") /\ FreeFds(p) # Fd
    /\ Closes(p, Min(Fd \ FreeFds(p)), call[p])

ExitPuts(p) ==
    /\ At(p, "exit") /\ FreeFds(p) = Fd
    /\ Goto(p, fs, [call[p] EXCEPT !.pc = "return", !.puts = <<cwd[p]>>])
    /\ cwd' = [cwd EXCEPT ![p] = 0]
    /\ UNCHANGED <<ftable, ofile, stranded>>

\* panic() stops the machine; or the scripts are over.
Stopped ==
    /\ ~Running \/ \A p \in Process : call[p] = Idle /\ Calls(p) = {}
    /\ UNCHANGED vars

Next ==
    \/ \E p \in Process :
         \/ \E r \in Calls(p) :
              \/ Begin(p, r) \/ Close(p, r) \/ Dup(p, r) \/ Read(p, r) \/ Write(p, r) \/ Pipe(p, r)
              \/ Refused(p, r) \/ Exit(p, r) \/ \E q \in Process : Fork(p, q, r)
         \/ Walk(p) \/ WalkNoName(p) \/ Finds(p) \/ LocksParent(p) \/ Unlinks(p) \/ UnlinkEnds(p) \/ Exists(p)
         \/ Creates(p) \/ Created(p) \/ Unlinked(p) \/ IputFrees(p) \/ IputEnds(p)
         \/ ExitCloses(p) \/ ExitPuts(p)
    \/ Stopped

Spec == Init /\ [][Next]_vars

-----------------------------------------------------------------------------
Count(i, t) == Cardinality({k \in DOMAIN t : t[k] = i})

(***************************************************************************)
(* The reference count of an inode cache entry is the number of pointers   *)
(* to it: working directories, open files, and what system calls have in   *)
(* hand, on every path through them; that of an open file is the number of *)
(* descriptors that stand for it.  iput() and fileclose() free on a count  *)
(* of one, so a count too low frees what is in use and one too high never: *)
(* what is open, or is a working directory, still exists.                  *)
(***************************************************************************)
RefCounts ==
    Running =>
      /\ \A i \in Inum :
           fs.icache[i].ref =
             Count(i, cwd) + Count(i, [f \in File |-> IF ftable[f].type = "INODE" THEN ftable[f].ip ELSE 0])
             + MapThenSumSet(LAMBDA p : Count(i, <<call[p].ip, call[p].dp, call[p].old>> \o call[p].puts), Process)
      /\ \A f \in File : ftable[f].ref = MapThenSumSet(LAMBDA p : Count(f, ofile[p]), Process)
      /\ \A p \in Process : cwd[p] # 0 => fs.dinode[cwd[p]].type = "DIR"
      /\ \A f \in File : ftable[f].type = "INODE" => fs.dinode[ftable[f].ip].type # "none"

\* The entries that count as links to an inode: its names, and the ".." of the
\* directories in it that have a name.
Named(d) == \E e \in Inum, n \in Name : fs.dirent[e][n] = d

Links(i) ==
    Cardinality({x \in Inum \X Name : fs.dirent[x[1]][x[2]] = i})
    + Cardinality({d \in Inum \ {ROOTINO} : Named(d) /\ fs.dirent[d][".."] = i})

(***************************************************************************)
(* The number of links in an inode on the disk is the number of directory  *)
(* entries for it, with one for a link() or unlink() that is under way and *)
(* one for the root, whatever calls run at once; except that an entry made *)
(* in a directory that has been removed vanishes with it.                  *)
(***************************************************************************)
LinkCount ==
    Running => \A i \in Inum \ stranded :
        fs.dinode[i].type # "none" =>
          fs.dinode[i].nlink = Links(i) + (IF i = ROOTINO THEN 1 ELSE 0)
             + Cardinality({p \in Process : call[p].old = i \/ (call[p].pc = "erased" /\ call[p].ip = i)})

(***************************************************************************)
(* Every block that the bitmap has in use is in exactly one file, once;    *)
(* none is lost when a file is truncated, its indirect block included.     *)
(***************************************************************************)
BlocksOnce ==
    Running =>
      LET used(i) == Append(fs.dinode[i].addrs, fs.dinode[i].indirect)
          uses(b) == MapThenSumSet(LAMBDA i : Count(b, used(i)), Inum)
      IN  \A b \in NMETA .. FSSIZE - 1 : uses(b) = (IF b \in fs.bitmap THEN 1 ELSE 0)

(***************************************************************************)
(* A valid cache entry that nobody has locked is what is on the disk.      *)
(* ialloc() writes the disk inode without its cache entry, which an iput() *)
(* may still be freeing; whoever locks it next must read the disk.         *)
(***************************************************************************)
CacheMatchesDisk ==
    Running => \A i \in Inum : fs.icache[i].valid /\ ~fs.icache[i].busy => fs.icache[i].copy = fs.dinode[i]

(***************************************************************************)
(* No check of fs.c finds its state wrong.  The kernel stops when it runs  *)
(* out of inodes or blocks, and in ilock() when a path goes up by the ".." *)
(* of a removed directory, whose parent may have been freed.               *)
(***************************************************************************)
NoPanic ==
    \/ fs.panic \in {"none", "ialloc: no inodes", "iget: no inodes", "balloc: out of blocks"}
    \/ fs.panic = "ilock: no type" /\ \E p \in Process : call[p].stale
=============================================================================
