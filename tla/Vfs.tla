-------------------------------- MODULE Vfs --------------------------------
(***************************************************************************)
(* Path name resolution (src/kernel/fs/namev.c) and the VFS system calls   *)
(* that take vnode and file references (src/kernel/fs/vfs_syscall.c), for  *)
(* one process: its descriptor table, its cwd, the file slab and a small   *)
(* file system of MaxV vnodes with vnode 1 the root.                       *)
(*                                                                         *)
(* A path is its components (the tokenizer turns runs of '/' into one      *)
(* separator), whether it starts with '/' and whether it ends with one.    *)
(* The file system's own operations (lookup, mkdir, mknod, rmdir, unlink,  *)
(* link, rename: s5fs, not in the repository) are modelled from the spec.  *)
(* Locks are not modelled: the kernel is not preemptive, and a call that   *)
(* sleeps on a vnode lock or on the disk holds references to everything    *)
(* it will use, so no other process changes what the call's reference      *)
(* counting depends on.  Each system call is one step.                     *)
(*                                                                         *)
(* The data path (do_read, do_write, do_lseek, do_getdent) keeps each      *)
(* file's position and mode and each vnode's length; bytes themselves are  *)
(* not modelled.  Character devices are the null and zero devices of       *)
(* src/kernel/drivers/memdevs.c.  IOSpec is the system with these calls.   *)
(***************************************************************************)
EXTENDS Integers, Sequences, FiniteSets

CONSTANTS
    MaxV,        \* vnodes of the file system
    Names,       \* directory entry names user programs use
    DotNames,    \* those ending in '.'
    DotDotNames, \* those ending in '..'
    NFILES,      \* descriptor table size
    MaxFiles,    \* file_t slots
    Paths,       \* paths tried by the calls taking one path
    Paths2,      \* paths tried by link and rename
    Modes,       \* mknod modes tried
    DevIds,      \* device ids mknod is tried with
    OpenModes,   \* f_mode sets open is tried with (subsets of {"r", "w", "a"})
    Counts,      \* byte counts read and write are tried with
    Offsets,     \* lseek offsets tried
    Whences,     \* lseek whence values tried
    MaxPos,      \* bound on file positions and lengths
    DirentSize,  \* bytes of a directory the fs's readdir consumes per entry
    DirentT,     \* sizeof(dirent_t), what getdent returns
    IntBits      \* width of a C int

ROOT == 1
VIds == 1 .. MaxV
NoV == 0
FileIds == 1 .. MaxFiles
NoFile == 0
Fds == 0 .. NFILES - 1
FdArgs == -1 .. NFILES
S_IFCHR == "S_IFCHR"
S_IFBLK == "S_IFBLK"
S_IFREG == "S_IFREG"
S_IFDIR == "S_IFDIR"
\* errno.h
EPERM == 1
ENOENT == 2
EBADF == 9
ENOMEM == 12
EEXIST == 17
ENOTDIR == 20
EINVAL == 22
EMFILE == 24
ENOSPC == 28
ENOTEMPTY == 39

Kinds == {"free", "dir", "reg", "chr", "blk"}
EISDIR == 21
SEEK_SET == 0
SEEK_CUR == 1
SEEK_END == 2
NoDev == "none"
MEM_NULL_DEVID == "null"
MEM_ZERO_DEVID == "zero"

\* (int) x: the low IntBits bits of x read as a two's complement number.
IntOf(x) == LET m == x % (2 ^ IntBits)
            IN IF m >= 2 ^ (IntBits - 1) THEN m - 2 ^ IntBits ELSE m

VARIABLES
    vtype,   \* vtype[v]: "free" or the file type of inode v
    ent,     \* ent[d][n]: the vnode entry n of directory d names, or NoV
    dotdot,  \* dotdot[d]: what ".." in d names (NoV once d is removed)
    vcount,    \* vn_refcount
    fvn,     \* f_vnode of a file slot
    frc,     \* f_refcount (0: slot free)
    fds,     \* curproc->p_files
    cwd,     \* curproc->p_cwd
    fpos,    \* f_pos of a file slot
    fmode,   \* f_mode of a file slot: a subset of {"r", "w", "a"}
    vlen,    \* vn_len of a regular file
    dev,     \* the device a character device vnode stands for
    last     \* the last dup2 or data call: its arguments and result

vars == <<vtype, ent, dotdot, vcount, fvn, frc, fds, cwd, fpos, fmode, vlen, dev, last>>

St == [vtype |-> vtype, ent |-> ent, dotdot |-> dotdot, vcount |-> vcount,
       fvn |-> fvn, frc |-> frc, fds |-> fds, cwd |-> cwd, fpos |-> fpos,
       fmode |-> fmode, vlen |-> vlen, dev |-> dev]

\* A call's effect: the new state and the call's return value.
Return(S, op, a, b, r) ==
    /\ vtype' = S.vtype /\ ent' = S.ent /\ dotdot' = S.dotdot
    /\ vcount' = S.vcount /\ fvn' = S.fvn /\ frc' = S.frc /\ fds' = S.fds
    /\ cwd' = S.cwd /\ fpos' = S.fpos /\ fmode' = S.fmode /\ vlen' = S.vlen
    /\ dev' = S.dev
    /\ last' = IF op \in {"dup2", "read", "write", "lseek", "getdent"}
               THEN [op |-> op, a |-> a, b |-> b, ret |-> r]
               ELSE [op |-> "other", a |-> 0, b |-> 0, ret |-> 0]

\* The result of a resolution: state, status, vnode, and the basename.
Res(S, ret, v, name) == [s |-> S, ret |-> ret, res |-> v, name |-> name]

-----------------------------------------------------------------------------
(* The file system (s5fs), from the spec.                                  *)

Linked(S, v) == v = ROOT \/ \E d \in VIds, n \in Names : S.vtype[d] = "dir" /\ S.ent[d][n] = v

\* A directory rmdir has removed: nothing can be created in it.
Removed(S, d) == d # ROOT /\ S.dotdot[d] = NoV

\* vput: refcount 0 returns the vnode; an unlinked inode is then freed.
Release(S, v) ==
    IF S.vcount[v] = 0 /\ ~Linked(S, v)
    THEN [S EXCEPT !.vtype[v] = "free", !.dotdot[v] = NoV]
    ELSE S

vref(S, v) == [S EXCEPT !.vcount[v] = @ + 1]
vput(S, v) == Release([S EXCEPT !.vcount[v] = @ - 1], v)

\* The directory's lookup op: "." is d, ".." its parent.
Child(S, d, n) ==
    CASE n = "." -> d
      [] n = ".." -> S.dotdot[d]
      [] OTHER -> S.ent[d][n]

FreeV(S) == {v \in VIds : S.vtype[v] = "free"}

\* mknod and mkdir ops: a new inode linked at d/n, returned referenced.
Create(S, d, n, kind, devid) ==
    LET v == CHOOSE x \in FreeV(S) : \A y \in FreeV(S) : x <= y
    IN CASE Removed(S, d) \/ n \notin Names -> Res(S, -ENOENT, NoV, n)
         [] FreeV(S) = {} -> Res(S, -ENOSPC, NoV, n)
         [] OTHER -> Res([S EXCEPT !.vtype[v] = kind, !.ent[d][n] = v,
                          !.ent[v] = [m \in Names |-> NoV],
                          !.dotdot[v] = IF kind = "dir" THEN d ELSE NoV,
                          !.vcount[v] = 1, !.vlen[v] = 0,
                          !.dev[v] = IF kind = "chr" THEN devid ELSE NoDev], 0, v, n)

RemoveEntry(S, d, n) == Release([S EXCEPT !.ent[d][n] = NoV], S.ent[d][n])

RmdirOp(S, d, n) ==
    CASE n = "." -> Res(S, -EINVAL, NoV, n)
      [] n = ".." -> Res(S, -ENOTEMPTY, NoV, n)
      [] n = "" -> Res(S, -EINVAL, NoV, n)
      [] S.ent[d][n] = NoV -> Res(S, -ENOENT, NoV, n)
      [] S.vtype[S.ent[d][n]] # "dir" -> Res(S, -ENOTDIR, NoV, n)
      [] \E m \in Names : S.ent[S.ent[d][n]][m] # NoV -> Res(S, -ENOTEMPTY, NoV, n)
      [] OTHER -> Res(RemoveEntry([S EXCEPT !.dotdot[S.ent[d][n]] = NoV], d, n), 0, NoV, n)

UnlinkOp(S, d, n) == Res(RemoveEntry(S, d, n), 0, NoV, n)

LinkOp(S, d, n, v) ==
    CASE n \notin Names \/ S.ent[d][n] # NoV -> Res(S, -EEXIST, NoV, n)
      [] Removed(S, d) -> Res(S, -ENOENT, NoV, n)
      [] OTHER -> Res([S EXCEPT !.ent[d][n] = v], 0, NoV, n)

\* x is d or an ancestor of d.
RECURSIVE Above(_, _, _, _)
Above(S, x, d, k) ==
    d = x \/ (k > 0 /\ d # ROOT /\ S.dotdot[d] # NoV /\ Above(S, x, S.dotdot[d], k - 1))

RenameOp(S, od, on, nd, nn) ==
    LET c == IF on \in Names THEN S.ent[od][on] ELSE NoV
    IN CASE on \notin Names \/ nn \notin Names -> Res(S, -EINVAL, NoV, nn)
         [] c = NoV -> Res(S, -ENOENT, NoV, nn)
         [] S.ent[nd][nn] # NoV -> Res(S, -EEXIST, NoV, nn)
         [] Removed(S, nd) -> Res(S, -ENOENT, NoV, nn)
         [] Above(S, c, nd, MaxV) -> Res(S, -EINVAL, NoV, nn)
         [] OTHER -> Res([[S EXCEPT !.ent[od][on] = NoV] EXCEPT
                            !.ent[nd][nn] = c,
                            !.dotdot[c] = IF S.vtype[c] = "dir" THEN nd ELSE NoV],
                         0, NoV, nn)

-----------------------------------------------------------------------------
(* namev.c                                                                 *)

namev_lookup(S, dir, n) ==
    CASE S.vtype[dir] # "dir" -> Res(S, -ENOTDIR, NoV, n)
      [] n = "" -> Res(vref(S, dir), 0, dir, n)
      [] Child(S, dir, n) = NoV -> Res(S, -ENOENT, NoV, n)
      [] OTHER -> Res(vref(S, Child(S, dir, n)), 0, Child(S, dir, n), n)

\* The walk of namev_dir over the components left, holding start.
RECURSIVE DirLoop(_, _, _, _), DirStep(_, _, _, _)
DirLoop(S, start, toks, slash) ==
    LET tok == Head(toks)
        lastTok == Tail(toks) = <<>>
    IN CASE tok = "." /\ lastTok /\ ~slash -> Res(S, 0, start, ".")
         [] tok = "." /\ lastTok -> Res(S, 0, start, "")
         [] tok = "." -> DirLoop(S, start, Tail(toks), slash)
         [] lastTok -> Res(S, 0, start, tok)
         [] OTHER -> DirStep(namev_lookup(S, start, tok), start, Tail(toks), slash)
DirStep(L, start, rest, slash) ==
    IF L.ret < 0 THEN Res(vput(L.s, start), L.ret, NoV, "")
    ELSE DirLoop(vput(L.s, start), L.res, rest, slash)

EmptyPath(p) == ~p.abs /\ p.toks = <<>>

namev_dir(S, base, p) ==
    LET start == IF p.abs THEN ROOT ELSE base
    IN CASE EmptyPath(p) -> Res(S, -EINVAL, NoV, "")
         [] p.toks = <<>> -> Res(vref(S, start), 0, start, "")
         [] OTHER -> DirLoop(vref(S, start), start, p.toks, p.slash)

OpenFound(L, D, p) ==
    CASE L.ret < 0 -> Res(vput(L.s, D.res), L.ret, NoV, D.name)
      [] L.s.vtype[L.res] # "dir" /\ p.slash ->
            Res(vput(vput(L.s, L.res), D.res), -ENOTDIR, NoV, D.name)
      [] OTHER -> Res(vput(L.s, D.res), 0, L.res, D.name)

OpenCreate(M, D) == Res(vput(M.s, D.res), M.ret, M.res, D.name)

OpenLookup(L, D, p, kind, devid) ==
    IF L.ret = -ENOENT /\ kind # "none"
    THEN OpenCreate(Create(L.s, D.res, D.name, kind, devid), D)
    ELSE OpenFound(L, D, p)

OpenDir(D, p, kind, devid) ==
    IF D.ret < 0 THEN D
    ELSE OpenLookup(namev_lookup(D.s, D.res, D.name), D, p, kind, devid)

\* kind: the type O_CREAT makes, "none" without O_CREAT.
namev_open(S, base, p, kind, devid) ==
    IF p.abs /\ p.toks = <<>> THEN Res(vref(S, ROOT), 0, ROOT, "")
    ELSE OpenDir(namev_dir(S, base, p), p, kind, devid)

namev_resolve(S, base, p) == namev_open(S, base, p, "none", NoDev)

-----------------------------------------------------------------------------
(* Files and descriptors                                                   *)

get_empty_fd(S) ==
    IF \A fd \in Fds : S.fds[fd] # NoFile THEN -1
    ELSE CHOOSE fd \in Fds : S.fds[fd] = NoFile /\ \A g \in Fds : S.fds[g] = NoFile => fd <= g

fput(S, f) ==
    IF S.frc[f] = 1 THEN vput([S EXCEPT !.frc[f] = 0, !.fvn[f] = NoV, !.fpos[f] = 0, !.fmode[f] = {}], S.fvn[f])
    ELSE [S EXCEPT !.frc[f] = @ - 1]

fget(S, fd) == IF S.fds[fd] = NoFile THEN S ELSE [S EXCEPT !.frc[S.fds[fd]] = @ + 1]

BadFd(fd) == fd < 0 \/ fd >= NFILES

-----------------------------------------------------------------------------
(* vfs_syscall.c, and do_open (open.c, not in the repository) from the     *)
(* spec.  Each call is an operator over a state record returning the new   *)
(* state and the call's result; the action applies it.                     *)

Call(op, a, b, R) == Return(R.s, op, a, b, R.ret)

do_close(fd) ==
    CASE BadFd(fd) -> Return(St, "close", fd, 0, -EBADF)
      [] fds[fd] = NoFile -> Return(St, "close", fd, 0, -EBADF)
      [] OTHER -> Return([fput(St, fds[fd]) EXCEPT !.fds[fd] = NoFile], "close", fd, 0, 0)

DupFile(S, fd, nfd) ==
    CASE S.fds[fd] = NoFile -> Res(S, -EBADF, NoV, "")
      [] OTHER -> Res([fget(S, fd) EXCEPT !.fds[nfd] = S.fds[fd]], nfd, NoV, "")

do_dup(fd) ==
    CASE BadFd(fd) -> Return(St, "dup", fd, 0, -EBADF)
      [] get_empty_fd(St) = -1 -> Return(St, "dup", fd, 0, -EMFILE)
      [] OTHER -> Call("dup", fd, 0, DupFile(St, fd, get_empty_fd(St)))

\* do_close(nfd) inside do_dup2, after fget(ofd).
CloseFd(S, nfd) == IF S.fds[nfd] = NoFile THEN S ELSE [fput(S, S.fds[nfd]) EXCEPT !.fds[nfd] = NoFile]

\* Mutants of dup2: the target not closed; the target closed before fget.
Dup2File_noclose(S, ofd, nfd) ==
    CASE S.fds[ofd] = NoFile -> Res(S, -EBADF, NoV, "")
      [] OTHER -> Res([fget(S, ofd) EXCEPT !.fds[nfd] = S.fds[ofd]], nfd, NoV, "")
Dup2File_closefirst(S, ofd, nfd) ==
    LET C == CloseFd(S, nfd)
    IN CASE C.fds[ofd] = NoFile -> Res(C, -EBADF, NoV, "")
         [] OTHER -> Res([fget(C, ofd) EXCEPT !.fds[nfd] = C.fds[ofd]], nfd, NoV, "")

Dup2File(S, ofd, nfd) ==
    CASE S.fds[ofd] = NoFile -> Res(S, -EBADF, NoV, "")
      [] OTHER -> Res([CloseFd(fget(S, ofd), nfd) EXCEPT !.fds[nfd] = S.fds[ofd]], nfd, NoV, "")

do_dup2(ofd, nfd) ==
    IF BadFd(ofd) \/ BadFd(nfd) THEN Return(St, "dup2", ofd, nfd, -EBADF)
    ELSE Call("dup2", ofd, nfd, Dup2File(St, ofd, nfd))

\* A directory is refused write access; a new file starts at position 0.
NewFile(R, fd, fm) ==
    LET f == CHOOSE x \in FileIds : R.s.frc[x] = 0
    IN CASE R.ret < 0 -> R
         [] R.s.vtype[R.res] = "dir" /\ "w" \in fm -> Res(vput(R.s, R.res), -EISDIR, NoV, "")
         [] \A x \in FileIds : R.s.frc[x] # 0 -> Res(vput(R.s, R.res), -ENOMEM, NoV, "")
         [] OTHER -> Res([R.s EXCEPT !.frc[f] = 1, !.fvn[f] = R.res, !.fds[fd] = f,
                                     !.fpos[f] = 0, !.fmode[f] = fm], fd, NoV, "")

do_open(p, creat, fm) ==
    IF get_empty_fd(St) = -1 THEN Return(St, "open", p, creat, -EMFILE)
    ELSE Call("open", p, creat,
              NewFile(namev_open(St, cwd, p, IF creat THEN "reg" ELSE "none", NoDev),
                      get_empty_fd(St), fm))

ModeKind == [m \in {S_IFCHR, S_IFBLK, S_IFREG} |-> CASE m = S_IFCHR -> "chr" [] m = S_IFBLK -> "blk" [] OTHER -> "reg"]

MknodDone(R) == IF R.ret < 0 THEN R ELSE Res(vput(R.s, R.res), 0, NoV, "")

do_mknod(p, mode, devid) ==
    IF mode \notin DOMAIN ModeKind THEN Return(St, "mknod", p, mode, -EINVAL)
    ELSE Call("mknod", p, mode, MknodDone(namev_open(St, cwd, p, ModeKind[mode], devid)))

MkdirMade(M, D) ==
    IF M.ret < 0 THEN Res(vput(M.s, D.res), M.ret, NoV, "")
    ELSE Res(vput(vput(M.s, D.res), M.res), 0, NoV, "")

\* Mutant: the existing vnode not put on -EEXIST.
MkdirLookup_noput(L, D) ==
    CASE L.ret = 0 -> Res(vput(L.s, D.res), -EEXIST, NoV, "")
      [] L.ret # -ENOENT -> Res(vput(L.s, D.res), L.ret, NoV, "")
      [] OTHER -> MkdirMade(Create(L.s, D.res, D.name, "dir", NoDev), D)

MkdirLookup(L, D) ==
    CASE L.ret = 0 -> Res(vput(vput(L.s, L.res), D.res), -EEXIST, NoV, "")
      [] L.ret # -ENOENT -> Res(vput(L.s, D.res), L.ret, NoV, "")
      [] OTHER -> MkdirMade(Create(L.s, D.res, D.name, "dir", NoDev), D)

MkdirDir(D) == IF D.ret < 0 THEN D ELSE MkdirLookup(namev_lookup(D.s, D.res, D.name), D)

do_mkdir(p) == Call("mkdir", p, 0, MkdirDir(namev_dir(St, cwd, p)))

\* The last and second last bytes of the path as written; before is the
\* byte in front of a path of one byte, which the code reads.
LastIsDot(p) == ~p.slash /\ p.toks # <<>> /\ p.toks[Len(p.toks)] \in {".", ".."} \cup DotNames
SecondIsDot(p, before) ==
    \/ p.toks[Len(p.toks)] \in {".."} \cup DotDotNames
    \/ p.toks[Len(p.toks)] = "." /\ ~p.abs /\ Len(p.toks) = 1 /\ before

RmdirDir(D, p, before) ==
    CASE D.ret < 0 -> D
      [] LastIsDot(p) ->
            Res(vput(D.s, D.res), IF SecondIsDot(p, before) THEN -ENOTEMPTY ELSE -EINVAL, NoV, "")
      [] D.s.vtype[D.res] # "dir" -> Res(vput(D.s, D.res), -ENOTDIR, NoV, "")
      [] OTHER -> LET R == RmdirOp(D.s, D.res, D.name) IN Res(vput(R.s, D.res), R.ret, NoV, "")

do_rmdir(p, before) == Call("rmdir", p, before, RmdirDir(namev_dir(St, cwd, p), p, before))

\* Mutant: -EPERM puts found twice instead of res and found.
UnlinkLookup_putfound(L, D) ==
    CASE L.ret < 0 -> Res(vput(L.s, D.res), L.ret, NoV, "")
      [] L.s.vtype[L.res] = "dir" -> Res(vput(vput(L.s, L.res), L.res), -EPERM, NoV, "")
      [] OTHER -> LET U == UnlinkOp(L.s, D.res, D.name)
                  IN Res(vput(vput(U.s, L.res), D.res), U.ret, NoV, "")

UnlinkLookup(L, D) ==
    CASE L.ret < 0 -> Res(vput(L.s, D.res), L.ret, NoV, "")
      [] L.s.vtype[L.res] = "dir" -> Res(vput(vput(L.s, D.res), L.res), -EPERM, NoV, "")
      [] OTHER -> LET U == UnlinkOp(L.s, D.res, D.name)
                  IN Res(vput(vput(U.s, L.res), D.res), U.ret, NoV, "")

UnlinkDir(D) ==
    CASE D.ret < 0 -> D
      [] D.s.vtype[D.res] # "dir" -> Res(vput(D.s, D.res), -ENOTDIR, NoV, "")
      [] OTHER -> UnlinkLookup(namev_lookup(D.s, D.res, D.name), D)

do_unlink(p) == Call("unlink", p, 0, UnlinkDir(namev_dir(St, cwd, p)))

LinkDir(D, O) ==
    CASE D.ret < 0 -> Res(vput(D.s, O.res), D.ret, NoV, "")
      [] D.s.vtype[D.res] # "dir" -> Res(vput(vput(D.s, O.res), D.res), -ENOTDIR, NoV, "")
      [] OTHER -> LET K == LinkOp(D.s, D.res, D.name, O.res)
                  IN Res(vput(vput(K.s, O.res), D.res), K.ret, NoV, "")

LinkOld(O, q) ==
    CASE O.ret < 0 -> O
      [] O.s.vtype[O.res] = "dir" -> Res(vput(O.s, O.res), -EPERM, NoV, "")
      [] OTHER -> LinkDir(namev_dir(O.s, O.s.cwd, q), O)

do_link(p, q) == Call("link", p, q, LinkOld(namev_resolve(St, cwd, p), q))

RenameNew(N, O) ==
    CASE N.ret < 0 -> Res(vput(N.s, O.res), N.ret, NoV, "")
      [] N.s.vtype[N.res] # "dir" -> Res(vput(vput(N.s, O.res), N.res), -ENOTDIR, NoV, "")
      [] OTHER -> LET K == RenameOp(N.s, O.res, O.name, N.res, N.name)
                  IN Res(vput(vput(K.s, O.res), N.res), K.ret, NoV, "")

RenameOld(O, q) ==
    CASE O.ret < 0 -> O
      [] O.s.vtype[O.res] # "dir" -> Res(vput(O.s, O.res), -ENOTDIR, NoV, "")
      [] OTHER -> RenameNew(namev_dir(O.s, O.s.cwd, q), O)

do_rename(p, q) == Call("rename", p, q, RenameOld(namev_dir(St, cwd, p), q))

\* Mutant: no S_ISDIR test.
ChdirTo_nodir(R) ==
    CASE R.ret < 0 -> R
      [] OTHER -> Res([vput(R.s, R.s.cwd) EXCEPT !.cwd = R.res], 0, NoV, "")

ChdirTo(R) ==
    CASE R.ret < 0 -> R
      [] R.s.vtype[R.res] # "dir" -> Res(vput(R.s, R.res), -ENOTDIR, NoV, "")
      [] OTHER -> Res([vput(R.s, R.s.cwd) EXCEPT !.cwd = R.res], 0, NoV, "")

do_chdir(p) == Call("chdir", p, 0, ChdirTo(namev_resolve(St, cwd, p)))

StatOf(R) == IF R.ret < 0 THEN R ELSE Res(vput(R.s, R.res), 0, NoV, "")

do_stat(p) == Call("stat", p, 0, StatOf(namev_resolve(St, cwd, p)))

-----------------------------------------------------------------------------
(* The data path.  vn_len of a directory is what its entries take in the  *)
(* file system: ".", ".." and one per name.  The read, write and readdir   *)
(* vnode ops of s5fs (not in the repository) are modelled from the spec;   *)
(* a character device's ops are those memdevs_init registers.              *)

VLen(S, v) ==
    IF S.vtype[v] = "dir"
    THEN DirentSize * (2 + Cardinality({n \in Names : S.ent[v][n] # NoV}))
    ELSE S.vlen[v]

null_read(count) == 0
null_write(count) == count
zero_read(count) == count

\* memdevs_init: both devices write with null_write.
DevRead(d, count) == IF d = MEM_NULL_DEVID THEN null_read(count) ELSE zero_read(count)
DevWrite(d, count) == null_write(count)

\* The read op: s5fs reads up to the end of the file.
ReadOp(S, v, pos, count) ==
    IF S.vtype[v] = "chr" THEN DevRead(S.dev[v], count)
    ELSE IF pos >= S.vlen[v] THEN 0 ELSE IF count < S.vlen[v] - pos THEN count ELSE S.vlen[v] - pos

\* The write op: s5fs extends the file past its end.
WriteOp(S, v, pos, count) ==
    IF S.vtype[v] = "chr" THEN Res(S, DevWrite(S.dev[v], count), NoV, "")
    ELSE Res([S EXCEPT !.vlen[v] = IF pos + count > @ THEN pos + count ELSE @], count, NoV, "")

\* The readdir op: the bytes of the entry at pos, 0 at the end.
readdir(S, v, pos) == IF pos < VLen(S, v) THEN DirentSize ELSE 0

do_read(fd, count) ==
    LET f == fds[fd]
        n == ReadOp(St, fvn[f], fpos[f], count)
    IN CASE BadFd(fd) -> Return(St, "read", fd, count, -EBADF)
         [] f = NoFile -> Return(St, "read", fd, count, -EBADF)
         [] vtype[fvn[f]] = "dir" -> Return(St, "read", fd, count, -EISDIR)
         [] "r" \notin fmode[f] -> Return(St, "read", fd, count, -EBADF)
         [] OTHER -> fpos[f] + n <= MaxPos
                     /\ Return([St EXCEPT !.fpos[f] = @ + n], "read", fd, count, n)

\* Mutant: FMODE_APPEND ignored.
WriteStart_noappend(S, f) == S.fpos[f]

\* The position a write starts at: the end of the file under FMODE_APPEND.
WriteStart(S, f) == IF "a" \in S.fmode[f] THEN VLen(S, S.fvn[f]) ELSE S.fpos[f]

do_write(fd, count) ==
    LET f == fds[fd]
        S == [St EXCEPT !.fpos[f] = WriteStart(St, f)]
        W == WriteOp(S, fvn[f], S.fpos[f], count)
    IN CASE BadFd(fd) -> Return(St, "write", fd, count, -EBADF)
         [] f = NoFile -> Return(St, "write", fd, count, -EBADF)
         [] "w" \notin fmode[f] -> Return(St, "write", fd, count, -EBADF)
         [] OTHER -> S.fpos[f] + count <= MaxPos
                     /\ Return([W.s EXCEPT !.fpos[f] = @ + W.ret], "write", fd, count, W.ret)

\* Mutant: SEEK_END from the current position.
LseekBase_endpos(S, f, whence) == IF whence = SEEK_SET THEN 0 ELSE S.fpos[f]

\* The position lseek adds offset to.
LseekBase(S, f, whence) ==
    CASE whence = SEEK_SET -> 0
      [] whence = SEEK_CUR -> S.fpos[f]
      [] OTHER -> VLen(S, S.fvn[f])

\* SEEK_SET tests offset itself; the others test (int) of the base.
LseekTest(S, f, off, whence) ==
    IF whence = SEEK_SET THEN off ELSE IntOf(LseekBase(S, f, whence)) + off

do_lseek(fd, off, whence) ==
    LET f == fds[fd]
        pos == LseekBase(St, f, whence) + off
        arg == [off |-> off, whence |-> whence]
    IN CASE BadFd(fd) -> Return(St, "lseek", fd, arg, -EBADF)
         [] whence \notin {SEEK_SET, SEEK_CUR, SEEK_END} -> Return(St, "lseek", fd, arg, -EINVAL)
         [] f = NoFile -> Return(St, "lseek", fd, arg, -EBADF)
         [] LseekTest(St, f, off, whence) < 0 -> Return(St, "lseek", fd, arg, -EINVAL)
         [] OTHER -> pos <= MaxPos /\ Return([St EXCEPT !.fpos[f] = pos], "lseek", fd, arg, pos)

\* Mutant: the -ENOTDIR path returns without fput.
do_getdent_nofput(fd) ==
    LET f == fds[fd]
        n == readdir(St, fvn[f], fpos[f])
    IN CASE BadFd(fd) -> Return(St, "getdent", fd, 0, -EBADF)
         [] f = NoFile -> Return(St, "getdent", fd, 0, -EBADF)
         [] vtype[fvn[f]] # "dir" -> Return(fget(St, fd), "getdent", fd, 0, -ENOTDIR)
         [] n = 0 -> Return(fput(fget(St, fd), f), "getdent", fd, 0, 0)
         [] OTHER -> fpos[f] + n <= MaxPos
                     /\ Return(fput([fget(St, fd) EXCEPT !.fpos[f] = @ + n], f), "getdent", fd, 0, DirentT)

\* fget/fput around readdir; the position moves by what readdir consumed.
do_getdent(fd) ==
    LET f == fds[fd]
        n == readdir(St, fvn[f], fpos[f])
    IN CASE BadFd(fd) -> Return(St, "getdent", fd, 0, -EBADF)
         [] f = NoFile -> Return(St, "getdent", fd, 0, -EBADF)
         [] vtype[fvn[f]] # "dir" -> Return(fput(fget(St, fd), f), "getdent", fd, 0, -ENOTDIR)
         [] n = 0 -> Return(fput(fget(St, fd), f), "getdent", fd, 0, 0)
         [] OTHER -> fpos[f] + n <= MaxPos
                     /\ Return(fput([fget(St, fd) EXCEPT !.fpos[f] = @ + n], f), "getdent", fd, 0, DirentT)

-----------------------------------------------------------------------------
Init ==
    /\ vtype = [v \in VIds |-> IF v = ROOT THEN "dir" ELSE "free"]
    /\ ent = [v \in VIds |-> [n \in Names |-> NoV]]
    /\ dotdot = [v \in VIds |-> IF v = ROOT THEN ROOT ELSE NoV]
    /\ vcount = [v \in VIds |-> IF v = ROOT THEN 2 ELSE 0]   \* the file system's and cwd's
    /\ fvn = [f \in FileIds |-> NoV]
    /\ frc = [f \in FileIds |-> 0]
    /\ fds = [fd \in Fds |-> NoFile]
    /\ cwd = ROOT
    /\ fpos = [f \in FileIds |-> 0]
    /\ fmode = [f \in FileIds |-> {}]
    /\ vlen = [v \in VIds |-> 0]
    /\ dev = [v \in VIds |-> NoDev]
    /\ last = [op |-> "none", a |-> 0, b |-> 0, ret |-> 0]

Open == \E p \in Paths, c \in BOOLEAN, fm \in OpenModes : do_open(p, c, fm)
Close == \E fd \in FdArgs : do_close(fd)
Dup == \E fd \in FdArgs : do_dup(fd)
Dup2 == \E ofd, nfd \in FdArgs : do_dup2(ofd, nfd)
Mknod == \E p \in Paths, m \in Modes, d \in DevIds : do_mknod(p, m, d)
Mkdir == \E p \in Paths : do_mkdir(p)
Rmdir == \E p \in Paths, before \in BOOLEAN : do_rmdir(p, before)
Unlink == \E p \in Paths : do_unlink(p)
Link == \E p, q \in Paths2 : do_link(p, q)
Rename == \E p, q \in Paths2 : do_rename(p, q)
Chdir == \E p \in Paths : do_chdir(p)
Stat == \E p \in Paths : do_stat(p)
Getdent == \E fd \in FdArgs : do_getdent(fd)
Read == \E fd \in FdArgs, n \in Counts : do_read(fd, n)
Write == \E fd \in FdArgs, n \in Counts : do_write(fd, n)
Lseek == \E fd \in FdArgs, off \in Offsets, w \in Whences : do_lseek(fd, off, w)

\* The name space and descriptor calls.
Next == Open \/ Close \/ Dup \/ Dup2 \/ Mknod \/ Mkdir \/ Rmdir \/ Unlink
        \/ Link \/ Rename \/ Chdir \/ Stat

Spec == Init /\ [][Next]_vars

\* The data path, with the calls that make and drop files and devices.
IONext == Open \/ Close \/ Dup \/ Mknod \/ Unlink
          \/ Read \/ Write \/ Lseek \/ Getdent

IOSpec == Init /\ [][IONext]_vars

-----------------------------------------------------------------------------
TypeOK ==
    /\ vtype \in [VIds -> Kinds]
    /\ ent \in [VIds -> [Names -> VIds \cup {NoV}]]
    /\ dotdot \in [VIds -> VIds \cup {NoV}]
    /\ vcount \in [VIds -> Nat]
    /\ fvn \in [FileIds -> VIds \cup {NoV}]
    /\ frc \in [FileIds -> Nat]
    /\ fds \in [Fds -> FileIds \cup {NoFile}]
    /\ cwd \in VIds
    /\ fpos \in [FileIds -> 0..MaxPos]
    /\ fmode \in [FileIds -> SUBSET {"r", "w", "a"}]
    /\ vlen \in [VIds -> 0..MaxPos]
    /\ dev \in [VIds -> DevIds \cup {NoDev}]

(***************************************************************************)
(* Every vnode's reference count is the number of references held to it   *)
(* between system calls: one by the file system for the root, one for the *)
(* process's cwd, and one per open file.  Every reference namev_dir,       *)
(* namev_lookup and namev_open hand out is given back on every path        *)
(* through every call, error paths included (spec, resource lifetime).     *)
(***************************************************************************)
VnodeRefsExact ==
    \A v \in VIds :
        vcount[v] = (IF v = ROOT THEN 1 ELSE 0) + (IF cwd = v THEN 1 ELSE 0)
                    + Cardinality({f \in FileIds : frc[f] > 0 /\ fvn[f] = v})

(***************************************************************************)
(* Every file's reference count is the number of descriptors that point   *)
(* to it, and a file is in use exactly when it has a vnode: dup, dup2,    *)
(* close and getdent's fget/fput pairs keep the table and the counts in    *)
(* step.                                                                   *)
(***************************************************************************)
FileRefsExact ==
    \A f \in FileIds :
        /\ frc[f] = Cardinality({fd \in Fds : fds[fd] = f})
        /\ (frc[f] = 0) = (fvn[f] = NoV)

(***************************************************************************)
(* Nothing a process holds is a freed inode: each open file's vnode and   *)
(* the cwd are allocated, and the cwd is a directory.  A vnode that rmdir  *)
(* or unlink removes stays allocated while references to it are held.     *)
(***************************************************************************)
HeldVnodesLive ==
    /\ vtype[cwd] = "dir"
    /\ \A f \in FileIds : frc[f] > 0 => vtype[fvn[f]] # "free"

(***************************************************************************)
(* dup2(fd, fd) on an open fd returns fd and leaves the descriptor table  *)
(* and the file counts as they were (spec 8, dup2 idempotence).  The code  *)
(* has no same-fd test: it takes a reference with fget, then closes nfd,   *)
(* then stores the file back.                                             *)
(***************************************************************************)
Dup2SameFd ==
    [][ (/\ last'.op = "dup2" /\ last'.a = last'.b /\ last'.a \in Fds
         /\ fds[last'.a] # NoFile)
        => (fds' = fds /\ frc' = frc /\ last'.ret = last'.a) ]_vars


(***************************************************************************)
(* A read, write or getdent moves the position of the file it is called   *)
(* on, and of no other file, by exactly what the vnode op consumed: the    *)
(* bytes read or written (spec 5), the bytes of one directory entry for    *)
(* getdent, which returns sizeof(dirent_t) instead (spec 4.6).  A write    *)
(* through an O_APPEND file starts at the end the file has when it runs,   *)
(* even when another open file grew it since (spec 8).  A failed call      *)
(* moves no position.                                                      *)
(***************************************************************************)
PosAdvance ==
    [][ LET f == fds[last'.a]
            start == IF last'.op = "write" /\ "a" \in fmode[f]
                     THEN VLen(St, fvn[f]) ELSE fpos[f]
            used == IF last'.op # "getdent" THEN last'.ret
                    ELSE IF last'.ret > 0 THEN DirentSize ELSE 0
        IN last'.op \in {"read", "write", "getdent"}
           => IF last'.ret < 0 THEN fpos' = fpos
              ELSE fpos' = [fpos EXCEPT ![f] = start + used] ]_vars

(***************************************************************************)
(* A successful lseek returns the new position and sets it to the base    *)
(* the whence names plus the offset, never a negative one; a failed lseek  *)
(* leaves every position as it was (spec 4.6, spec 8).  do_lseek tests     *)
(* (int) f_pos and (int) vn_len, and assigns only after the test.          *)
(***************************************************************************)
LseekSound ==
    [][ LET f == fds[last'.a]
            base == CASE last'.b.whence = SEEK_SET -> 0
                      [] last'.b.whence = SEEK_CUR -> fpos[f]
                      [] last'.b.whence = SEEK_END -> VLen(St, fvn[f])
        IN last'.op = "lseek"
           => IF last'.ret < 0 THEN fpos' = fpos
              ELSE /\ last'.ret = base + last'.b.off
                   /\ last'.ret >= 0
                   /\ fpos' = [fpos EXCEPT ![f] = last'.ret] ]_vars
=============================================================================
