------------------------------ MODULE CowFork ------------------------------
(***************************************************************************)
(* Copy-on-write fork in weenix: shadow objects (src/kernel/vm/shadow.c),  *)
(* vmmap_clone, vmmap_destroy, vmmap_collapse and handle_pagefault (the    *)
(* vmmap.c and pagefault.c parts of src/kernel/vm/mmap.c) and do_fork      *)
(* (src/kernel/proc/fork.c) with kthread_clone, kthread_exit and           *)
(* kthread_destroy (src/kernel/proc/kthread.c), for processes whose        *)
(* private areas are one page each and which have one thread each.        *)
(*                                                                         *)
(* Area a of a process covers page Start(a); Gap free pages lie between    *)
(* two areas.  Each map keeps its areas on a doubly linked list (the       *)
(* l_next/l_prev links of util/list.h, nx and pv here), which              *)
(* vmmap_clone builds with vmmap_insert and which vmmap_lookup,            *)
(* vmmap_destroy and vmmap_collapse walk.                                  *)
(*                                                                         *)
(* A page frame belongs to a memory object; with one page per area an      *)
(* object has at most one resident frame, so res[o] says whether it has    *)
(* one and data[o] what it holds.  A page table entry maps an area's page  *)
(* to the frame of an object, read-only or writable.  A user program       *)
(* reads through its page table, or faults and reads what                  *)
(* handle_pagefault maps; Contents(p, a) is that value.  Freed objects     *)
(* keep their fields (the slab keeps its free-list link outside the        *)
(* object), so a read of a freed object returns the stale fields; uaf      *)
(* records that one happened.                                              *)
(***************************************************************************)
EXTENDS Naturals, Sequences, FiniteSets

CONSTANTS
    Procs,      \* process slots
    Init0,      \* the process that exists at the start (init never exits)
    NAreas,     \* private one-page areas of the first process
    Values,     \* values user programs write (naturals)
    Zero,       \* what an anonymous object fills a new page with
    MaxObjs,    \* mobj slab slots
    MaxThreads, \* kthread slab slots
    MaxVmas,    \* vmarea slab slots
    Gap,        \* free pages between two neighbouring areas
    ForkMode    \* "code": do_fork as written; "clone": with vmmap_clone

AreaIds == 1 .. NAreas
ObjIds == 1 .. MaxObjs
NoObj == 0                 \* a NULL vma_obj
None == MaxObjs + 1        \* no area at that page
EFAULT == Zero + 1000      \* what a read of an unmapped page gives the user
NoPTE == [o |-> NoObj, w |-> FALSE]
EmptyPT == [a \in AreaIds |-> NoPTE]
HEAD == 0                  \* the list head, vmm_list
NIL == NAreas + 1          \* a NULL link (an unlinked area)
Slots == {HEAD} \cup AreaIds
Fuel == NAreas + 1         \* links list_iterate follows before it must be home
Start(a) == 1 + (a - 1) * (Gap + 1)
End(a) == Start(a) + 1
\* list_init: the head linked to itself, no area linked.
EmptyList == [s \in Slots |-> IF s = HEAD THEN HEAD ELSE NIL]

ASSUME Init0 \in Procs /\ 2 * NAreas <= MaxObjs /\ MaxThreads \in Nat \ {0}
ASSUME ForkMode \in {"code", "clone"} /\ Gap \in Nat /\ MaxVmas \in NAreas .. 100

VARIABLES
    alive,     \* processes that exist
    amap,      \* amap[p][a]: vma_obj of p's area a, or None: p has no area a
    nx, pv,    \* nx[p][s], pv[p][s]: the l_next and l_prev links of p's map
    nvma,      \* vmareas allocated from the slab
    pt,        \* pt[p][a]: the page table entry of page a of p
    olive,     \* allocated memory objects
    otype,     \* "anon" or "shadow" (kept when freed)
    rc,        \* mo_refcount
    osh, obot, \* a shadow's shadowed and bottom_mobj
    res,       \* res[o]: o has its page resident
    data,      \* data[o]: the bytes of that page
    uaf,       \* freed memory has been read
    fault,     \* "none", or how the kernel went wrong
    zombie,    \* processes whose thread has exited, not yet waited for
    kt,        \* kt[p]: kt_state of p's thread, "none" when it has none
    forkret    \* what the last step's do_fork returned ("none": no fork)

vars == <<alive, amap, nx, pv, nvma, pt, olive, otype, rc, osh, obot, res, data, uaf, fault,
          zombie, kt, forkret>>

St == [alive |-> alive, amap |-> amap, nx |-> nx, pv |-> pv, nvma |-> nvma, pt |-> pt, olive |-> olive,
       otype |-> otype, rc |-> rc, osh |-> osh, obot |-> obot, res |-> res,
       data |-> data, uaf |-> uaf, fault |-> fault, zombie |-> zombie, kt |-> kt,
       forkret |-> "none"]

SetState(S) ==
    /\ alive' = S.alive /\ amap' = S.amap /\ pt' = S.pt /\ olive' = S.olive
    /\ nx' = S.nx /\ pv' = S.pv /\ nvma' = S.nvma
    /\ otype' = S.otype /\ rc' = S.rc /\ osh' = S.osh /\ obot' = S.obot
    /\ res' = S.res /\ data' = S.data /\ uaf' = S.uaf /\ fault' = S.fault
    /\ zombie' = S.zombie /\ kt' = S.kt /\ forkret' = S.forkret

Fail(S, why) == [S EXCEPT !.fault = why]

(***************************************************************************)
(* The list primitives of util/list.h on the map of process p.             *)
(***************************************************************************)
\* list_insert_before(link, new), which does not check that new is unlinked.
ListInsertBefore(S, p, link, new) ==
    LET q == S.pv[p][link] IN
    IF q = NIL THEN Fail(S, "null")
    ELSE [S EXCEPT !.nx[p] = [@ EXCEPT ![new] = link, ![q] = new],
                   !.pv[p] = [@ EXCEPT ![new] = q, ![link] = new]]

\* list_remove(link): unlink it and clear its links.
ListRemove(S, p, link) ==
    LET n == S.nx[p][link]
        q == S.pv[p][link]
    IN IF n = NIL \/ q = NIL THEN Fail(S, "null")
       ELSE [S EXCEPT !.pv[p] = [@ EXCEPT ![n] = q, ![link] = NIL],
                      !.nx[p] = [@ EXCEPT ![q] = n, ![link] = NIL]]

\* The areas list_iterate visits from the head of p's map, at most Fuel,
\* and how the walk ends: at the head, at a NULL link, or in a cycle.
RECURSIVE WalkFrom(_, _, _)
WalkFrom(next, v, k) ==
    IF v = HEAD \/ v = NIL \/ k = 0 THEN <<v>>
    ELSE <<v>> \o WalkFrom(next, next[v], k - 1)

Walk(S, p) ==
    LET w == WalkFrom(S.nx[p], S.nx[p][HEAD], Fuel)
    IN [visited |-> {w[i] : i \in 1 .. Len(w) - 1},
        ends |-> CASE w[Len(w)] = HEAD -> "none"
                   [] w[Len(w)] = NIL -> "null"
                   [] OTHER -> "hang"]

\* vmmap_lookup of page Start(a): area a when the walk reaches it, else
\* None; a walk that reaches neither it nor the head is a fault.
vmmap_lookup(S, p, a) ==
    LET w == Walk(S, p)
    IN [fault |-> IF a \in w.visited THEN "none" ELSE w.ends,
        ret |-> IF a \in w.visited THEN S.amap[p][a] ELSE None]

\* vmmap_insert: list_insert_before(area, new) for every area of the list
\* with vma_end >= new's vma_start, the next link read before the body;
\* then list_insert_tail(new).
RECURSIVE InsertLoop(_, _, _, _, _)
InsertLoop(S, p, v, new, k) ==
    CASE S.fault # "none" \/ v = HEAD -> S
      [] v = NIL -> Fail(S, "null")
      [] k = 0 -> Fail(S, "hang")
      [] OTHER -> InsertLoop(IF End(v) >= Start(new)
                               THEN ListInsertBefore(S, p, v, new) ELSE S,
                             p, S.nx[p][v], new, k - 1)

vmmap_insert(S, p, new) ==
    LET S1 == InsertLoop(S, p, S.nx[p][HEAD], new, Fuel)
    IN IF S1.fault = "none" THEN ListInsertBefore(S1, p, HEAD, new) ELSE S1

(***************************************************************************)
(* Reference counting.  mobj_put drops a reference; at zero the default   *)
(* destructor frees the object's frames and, for a shadow,                 *)
(* shadow_destructor puts the shadowed and the bottom object.              *)
(***************************************************************************)
RECURSIVE mobj_put(_, _)
mobj_put(S, o) ==
    CASE o = NoObj -> Fail(S, "null")
      [] o \notin S.olive -> Fail([S EXCEPT !.uaf = TRUE], "use_after_free")
      [] S.rc[o] > 1 -> [S EXCEPT !.rc[o] = @ - 1]
      [] S.otype[o] = "shadow" ->
            mobj_put(mobj_put([S EXCEPT !.rc[o] = 0, !.olive = @ \ {o},
                                        !.res[o] = FALSE], S.osh[o]), S.obot[o])
      [] OTHER -> [S EXCEPT !.rc[o] = 0, !.olive = @ \ {o}, !.res[o] = FALSE]

\* shadow_create: a new shadow of m with one reference; its bottom is m's
\* bottom when m is a shadow, else m; it references both.
shadow_create_flat(S, m) ==
    IF S.olive = ObjIds THEN [s |-> S, ret |-> NoObj]
    ELSE LET o == CHOOSE x \in ObjIds \ S.olive : \A y \in ObjIds \ S.olive : x <= y
         IN [s |-> [S EXCEPT !.olive = @ \cup {o}, !.otype[o] = "shadow",
                             !.osh[o] = m, !.obot[o] = m, !.res[o] = FALSE,
                             !.rc = [@ EXCEPT ![o] = 1, ![m] = @ + 2]],
             ret |-> o]

shadow_create(S, m) ==
    IF S.olive = ObjIds THEN [s |-> S, ret |-> NoObj]
    ELSE LET o == CHOOSE x \in ObjIds \ S.olive : \A y \in ObjIds \ S.olive : x <= y
             bot == IF S.otype[m] = "shadow" THEN S.obot[m] ELSE m
         IN [s |-> [S EXCEPT !.olive = @ \cup {o}, !.otype[o] = "shadow",
                             !.osh[o] = m, !.obot[o] = bot, !.res[o] = FALSE,
                             !.rc = [@ EXCEPT ![o] = 1, ![m] = @ + 1,
                                              ![bot] = @ + 1]],
             ret |-> o]

(***************************************************************************)
(* Getting a page.  mobj_default_get_pframe returns the object's frame,    *)
(* allocating and zero-filling it (anon_fill_pframe) when not resident.    *)
(* shadow_get_pframe for writing takes the bottom object's frame; for      *)
(* reading it walks the chain from the shadowed object (not from the       *)
(* shadow itself) to the first shadow with the page, else the bottom's.    *)
(***************************************************************************)
DefaultGet(S, o) ==
    IF S.res[o] THEN [s |-> S, ret |-> o]
    ELSE [s |-> [S EXCEPT !.res[o] = TRUE, !.data[o] = Zero], ret |-> o]

RECURSIVE ReadFrom(_, _, _)
ReadFrom(S, cur, k) ==
    IF S.otype[cur] # "shadow" \/ S.res[cur] \/ k = 0 THEN cur
    ELSE ReadFrom(S, S.osh[cur], k - 1)

shadow_get_pframe(S, o, forwrite) ==
    IF forwrite THEN DefaultGet(S, S.obot[o])
    ELSE LET f == ReadFrom(S, S.osh[o], MaxObjs)
         IN IF S.otype[f] = "shadow" THEN [s |-> S, ret |-> f] ELSE DefaultGet(S, f)

mobj_get_pframe(S, o, forwrite) ==
    IF S.otype[o] = "shadow" THEN shadow_get_pframe(S, o, forwrite)
    ELSE DefaultGet(S, o)

(***************************************************************************)
(* What process p reads at page a: through its page table entry, or what  *)
(* a read fault would map (the page a fill would create reads as Zero).    *)
(***************************************************************************)
\* The areas vmmap_lookup finds in p's map.
Mapped(p) == Walk([nx |-> nx], p).visited

ContentsIn(p, a, vis) ==
    LET o == IF a \in vis THEN amap[p][a] ELSE None
        f == IF otype[o] = "shadow"
             THEN ReadFrom([otype |-> otype, res |-> res, osh |-> osh], osh[o], MaxObjs)
             ELSE o
    IN CASE pt[p][a].o # NoObj -> data[pt[p][a].o]
         [] o \in {None, NoObj} -> EFAULT
         [] OTHER -> IF res[f] THEN data[f] ELSE Zero

Contents(p, a) == ContentsIn(p, a, Mapped(p))

-----------------------------------------------------------------------------
(***************************************************************************)
(* vmmap_clone: for each area of the parent in list order, a new area     *)
(* from the slab with the same range; for a private area (every area      *)
(* here) a shadow for the child and one for the parent, both of the        *)
(* parent's object, whose reference the parent's area then drops; then    *)
(* vmmap_insert of the new area into the child's map.  mobj_unlock runs on *)
(* each shadow before the NULL test.  A full vmarea slab destroys the      *)
(* child's map so far and returns NULL, leaving the parent's areas already *)
(* visited on their new shadows.                                           *)
(***************************************************************************)
CloneArea_noput(S, p, c, a) ==
    LET obj == S.amap[p][a]
        ns == shadow_create(S, obj)
        os == shadow_create(ns.s, obj)
    IN CASE obj = NoObj -> Fail(S, "null")
         [] ns.ret = NoObj -> Fail(ns.s, "null")
         [] os.ret = NoObj -> Fail(os.s, "null")
         [] OTHER -> [os.s EXCEPT !.amap[c][a] = ns.ret, !.amap[p][a] = os.ret]

CloneArea(S, p, c, a) ==
    LET obj == S.amap[p][a]
        ns == shadow_create(S, obj)
        os == shadow_create(ns.s, obj)
    IN CASE obj = NoObj -> Fail(S, "null")
         [] ns.ret = NoObj -> Fail(ns.s, "null")
         [] os.ret = NoObj -> Fail(os.s, "null")
         [] OTHER -> [mobj_put(os.s, obj) EXCEPT !.amap[c][a] = ns.ret,
                                                 !.amap[p][a] = os.ret]

\* vmarea_free: unlink the area if linked, put its object, free it.
vmarea_free(S, p, a) ==
    LET S1 == IF S.nx[p][a] # NIL THEN ListRemove(S, p, a) ELSE S
        S2 == IF S1.amap[p][a] \in {None, NoObj} THEN S1 ELSE mobj_put(S1, S1.amap[p][a])
    IN [S2 EXCEPT !.amap[p][a] = None, !.nvma = @ - 1]

\* vmmap_destroy: list_remove and vmarea_free of each area the walk of the
\* list visits, then the map is freed.  An area that is off the list keeps
\* its reference.
RECURSIVE DestroyLoop(_, _, _, _)
DestroyLoop(S, p, v, k) ==
    CASE S.fault # "none" \/ v = HEAD -> S
      [] v = NIL -> Fail(S, "null")
      [] k = 0 -> Fail(S, "hang")
      [] OTHER -> DestroyLoop(vmarea_free(ListRemove(S, p, v), p, v),
                              p, S.nx[p][v], k - 1)

vmmap_destroy(S, p) ==
    [DestroyLoop(S, p, S.nx[p][HEAD], Fuel)
        EXCEPT !.amap[p] = [a \in AreaIds |-> None], !.nx[p] = EmptyList,
               !.pv[p] = EmptyList]

RECURSIVE CloneLoop(_, _, _, _, _)
CloneLoop(S, p, c, v, k) ==
    CASE S.fault # "none" \/ v = HEAD -> [s |-> S, ok |-> TRUE]
      [] v = NIL -> [s |-> Fail(S, "null"), ok |-> TRUE]
      [] k = 0 -> [s |-> Fail(S, "hang"), ok |-> TRUE]
      [] S.nvma >= MaxVmas -> [s |-> vmmap_destroy(S, c), ok |-> FALSE]
      [] OTHER ->
            LET S1 == CloneArea([S EXCEPT !.nvma = @ + 1], p, c, v)
            IN CloneLoop(IF S1.fault = "none" THEN vmmap_insert(S1, c, v) ELSE S1,
                         p, c, S.nx[p][v], k - 1)

\* vmmap_clone of p's map into c's new (empty) map.
vmmap_clone(S, p, c) == CloneLoop(S, p, c, S.nx[p][HEAD], Fuel)

\* do_exit: kthread_exit calls proc_thread_exiting, which marks the thread
\* KT_EXITED and the process dead; its map is destroyed (spec 3: after
\* thread exit) and its page table emptied.
do_exit(S, p) ==
    [vmmap_destroy(S, p) EXCEPT !.alive = @ \ {p}, !.zombie = @ \cup {p},
                                !.kt[p] = "exited", !.pt[p] = EmptyPT]

(***************************************************************************)
(* proc_create (proc.c, not in the repository) takes a free process slot,  *)
(* or fails when there is none; the child gets a fresh page table and, in *)
(* "clone" mode, vmmap_clone of the parent's map (an empty map in "code"  *)
(* mode, as nothing in the repository calls vmmap_clone).  proc_destroy   *)
(* destroys the process's map and frees its slot.                          *)
(***************************************************************************)
proc_create(S, p, c) ==
    LET S0 == [S EXCEPT !.alive = @ \cup {c}, !.pt[c] = EmptyPT,
                        !.nx[c] = EmptyList, !.pv[c] = EmptyList]
        cl == vmmap_clone(S0, p, c)
    IN CASE c \in S.alive \cup S.zombie -> [s |-> S, ok |-> FALSE]
         [] ForkMode = "code" -> [s |-> S0, ok |-> TRUE]
         [] ~cl.ok -> [s |-> [cl.s EXCEPT !.alive = @ \ {c}], ok |-> FALSE]
         [] OTHER -> [s |-> cl.s, ok |-> TRUE]

proc_destroy(S, c) ==
    [vmmap_destroy(S, c) EXCEPT !.alive = @ \ {c}, !.zombie = @ \ {c},
                                !.pt[c] = EmptyPT]

\* kthread_clone: NULL when the kthread slab is full, else a new thread in
\* KT_NO_STATE (the retval, errno and cancelled it copies are not modelled).
kthread_clone(S, c) ==
    IF Cardinality({q \in Procs : S.kt[q] # "none"}) >= MaxThreads
    THEN [s |-> S, ok |-> FALSE]
    ELSE [s |-> [S EXCEPT !.kt[c] = "nostate"], ok |-> TRUE]

\* kthread_destroy panics unless the thread has exited; it frees the stack,
\* unlinks the thread from its process and frees the kthread.
kthread_destroy(S, p) ==
    IF S.kt[p] # "exited" THEN Fail(S, "panic") ELSE [S EXCEPT !.kt[p] = "none"]

(***************************************************************************)
(* do_fork: proc_create, or -ENOMEM; kthread_clone of the current thread, *)
(* or proc_destroy of the child and -ENOMEM; then the thread joins the     *)
(* child, the parent's user mappings are unmapped (pt_unmap_range) so that *)
(* its next access faults, and the thread is made runnable.               *)
(***************************************************************************)
do_fork_unmap_early(p, c) ==
    LET pc == proc_create(St, p, c)
        tc == kthread_clone([pc.s EXCEPT !.pt[p] = EmptyPT], c)
    IN SetState(CASE ~pc.ok -> [pc.s EXCEPT !.forkret = "ENOMEM"]
                  [] ~tc.ok -> [proc_destroy(tc.s, c) EXCEPT !.forkret = "ENOMEM"]
                  [] OTHER -> [tc.s EXCEPT !.kt[c] = "run", !.forkret = "pid"])

do_fork_nodestroy(p, c) ==
    LET pc == proc_create(St, p, c)
        tc == kthread_clone(pc.s, c)
    IN SetState(CASE ~pc.ok -> [pc.s EXCEPT !.forkret = "ENOMEM"]
                  [] ~tc.ok -> [tc.s EXCEPT !.forkret = "ENOMEM"]
                  [] OTHER -> [tc.s EXCEPT !.pt[p] = EmptyPT, !.kt[c] = "run",
                                           !.forkret = "pid"])

do_fork(p, c) ==
    LET pc == proc_create(St, p, c)
        tc == kthread_clone(pc.s, c)
    IN SetState(CASE ~pc.ok -> [pc.s EXCEPT !.forkret = "ENOMEM"]
                  [] ~tc.ok -> [proc_destroy(tc.s, c) EXCEPT !.forkret = "ENOMEM"]
                  [] OTHER -> [tc.s EXCEPT !.pt[p] = EmptyPT, !.kt[c] = "run",
                                           !.forkret = "pid"])

\* The fork system call, with c the slot proc_create would take (any, when
\* every slot is in use and proc_create fails).
Fork(p, c) ==
    /\ fault = "none"
    /\ p \in alive
    /\ c \notin alive \cup zombie \/ alive \cup zombie = Procs
    /\ do_fork(p, c)

\* do_waitpid (proc.c): a dead child is reaped, its thread destroyed first.
Reap(p) ==
    /\ fault = "none"
    /\ p \in zombie
    /\ SetState(proc_destroy(kthread_destroy(St, p), p))

(***************************************************************************)
(* handle_pagefault for a fault at page Start(a) of p: vmmap_lookup finds *)
(* no area, and the process exits with EFAULT;                            *)
(* with EFAULT; otherwise the page of the area's object is got, for        *)
(* writing on a write fault, and mapped writable only on a write fault.    *)
(* Every area is PROT_READ | PROT_WRITE, so the protection checks pass.   *)
(***************************************************************************)
handle_pagefault(p, a, write) ==
    LET l == vmmap_lookup(St, p, a)
        o == l.ret
        g == mobj_get_pframe(St, o, write)
    IN SetState(CASE l.fault # "none" -> Fail(St, l.fault)
                  [] o = None -> do_exit(St, p)
                  [] o = NoObj -> Fail(St, "null")
                  [] OTHER -> [g.s EXCEPT !.pt[p][a] = [o |-> g.ret, w |-> write]])

PageFault(p, a, write) ==
    /\ fault = "none"
    /\ p \in alive
    /\ pt[p][a].o = NoObj \/ (write /\ ~pt[p][a].w)
    /\ handle_pagefault(p, a, write)

\* A user store through a writable mapping.
UserWrite(p, a, v) ==
    /\ fault = "none"
    /\ p \in alive /\ pt[p][a].w
    /\ data' = [data EXCEPT ![pt[p][a].o] = v]
    /\ forkret' = "none"
    /\ UNCHANGED <<alive, amap, nx, pv, nvma, pt, olive, otype, rc, osh, obot, res, uaf, fault,
                   zombie, kt>>

Exit(p) ==
    /\ fault = "none"
    /\ p \in alive /\ p # Init0
    /\ SetState(do_exit(St, p))

(***************************************************************************)
(* shadow_collapse(o): for each shadow below o, move each of its frames    *)
(* up into o unless o has that page (then the frame is dropped from the    *)
(* shadow's list), assert the shadow has one reference, put it, and go on  *)
(* to its shadowed object, read from the shadow after the put.  At the     *)
(* end o's shadowed is set to its bottom, taking no reference.             *)
(***************************************************************************)
Migrate(S, o, cur) ==
    CASE ~S.res[cur] -> S
      [] ~S.res[o] -> [S EXCEPT !.res[o] = TRUE, !.data[o] = S.data[cur],
                                !.res[cur] = FALSE]
      [] OTHER -> [S EXCEPT !.res[cur] = FALSE]

RECURSIVE CollapseLoop(_, _, _, _)
CollapseLoop(S, o, cur, k) ==
    LET S0 == [S EXCEPT !.uaf = @ \/ cur \notin S.olive]   \* reads cur->mo_type
        S1 == mobj_put(Migrate(S0, o, cur), cur)
    IN CASE S.fault # "none" -> S
         [] S.otype[cur] # "shadow" \/ k = 0 -> [S0 EXCEPT !.osh[o] = S.obot[o]]
         [] S.rc[cur] # 1 -> Fail(S0, "assert")
         [] OTHER -> CollapseLoop([S1 EXCEPT !.uaf = @ \/ cur \notin S1.olive],
                                  o, S.osh[cur], k - 1)

shadow_collapse(S, o) == CollapseLoop(S, o, S.osh[o], MaxObjs)

\* vmmap_collapse: shadow_collapse on the object of every shadow area.
vmmap_collapse(S, p) ==
    LET RECURSIVE Loop(_, _, _)
        Loop(T, v, k) ==
            CASE T.fault # "none" \/ v = HEAD -> T
              [] v = NIL -> Fail(T, "null")
              [] k = 0 -> Fail(T, "hang")
              [] OTHER ->
                    Loop(IF T.otype[T.amap[p][v]] = "shadow"
                         THEN shadow_collapse(T, T.amap[p][v]) ELSE T,
                         T.nx[p][v], k - 1)
    IN Loop(S, S.nx[p][HEAD], Fuel)

\* The shadows strictly below o in its chain.
RECURSIVE Below(_, _)
Below(o, k) ==
    IF k = 0 \/ otype[osh[o]] # "shadow" THEN {}
    ELSE {osh[o]} \cup Below(osh[o], k - 1)

\* A caller may collapse p's map when every shadow below one of its areas
\* is referenced once only (spec 4.2: collapse requires it).
Collapse(p) ==
    /\ fault = "none"
    /\ p \in alive
    /\ \A a \in AreaIds :
          amap[p][a] \notin {None, NoObj} =>
             \A x \in Below(amap[p][a], MaxObjs) : rc[x] = 1
    /\ SetState(vmmap_collapse(St, p))

Init ==
    /\ alive = {Init0}
    /\ amap = [p \in Procs |-> [a \in AreaIds |-> IF p = Init0 THEN 2 * a - 1 ELSE None]]
    /\ nx = [p \in Procs |-> IF p # Init0 THEN EmptyList
                             ELSE [s \in Slots |-> IF s = NAreas THEN HEAD ELSE s + 1]]
    /\ pv = [p \in Procs |-> IF p # Init0 THEN EmptyList
                             ELSE [s \in Slots |-> IF s = HEAD THEN NAreas ELSE s - 1]]
    /\ nvma = NAreas
    /\ pt = [p \in Procs |-> EmptyPT]
    /\ olive = 1 .. 2 * NAreas
    /\ otype = [o \in ObjIds |-> IF o <= 2 * NAreas /\ o % 2 = 1 THEN "shadow" ELSE "anon"]
    /\ rc = [o \in ObjIds |-> IF o > 2 * NAreas THEN 0 ELSE IF o % 2 = 1 THEN 1 ELSE 2]
    /\ osh = [o \in ObjIds |-> IF o <= 2 * NAreas /\ o % 2 = 1 THEN o + 1 ELSE NoObj]
    /\ obot = osh
    /\ res = [o \in ObjIds |-> FALSE]
    /\ data = [o \in ObjIds |-> Zero]
    /\ uaf = FALSE
    /\ fault = "none"
    /\ zombie = {}
    /\ kt = [p \in Procs |-> IF p = Init0 THEN "run" ELSE "none"]
    /\ forkret = "none"

Next ==
    \/ \E p, c \in Procs : Fork(p, c)
    \/ \E p \in Procs, a \in AreaIds, w \in BOOLEAN : PageFault(p, a, w)
    \/ \E p \in Procs, a \in AreaIds, v \in Values : UserWrite(p, a, v)
    \/ \E p \in Procs : Exit(p)
    \/ \E p \in Procs : Reap(p)

Spec == Init /\ [][Next]_vars

\* The system with collapses as well.
SpecCollapse == Init /\ [][Next \/ \E p \in Procs : Collapse(p)]_vars

-----------------------------------------------------------------------------
TypeOK ==
    /\ alive \subseteq Procs
    /\ amap \in [Procs -> [AreaIds -> ObjIds \cup {NoObj, None}]]
    /\ nx \in [Procs -> [Slots -> Slots \cup {NIL}]]
    /\ pv \in [Procs -> [Slots -> Slots \cup {NIL}]]
    /\ nvma \in 0 .. MaxVmas
    /\ pt \in [Procs -> [AreaIds -> [o : ObjIds \cup {NoObj}, w : BOOLEAN]]]
    /\ olive \subseteq ObjIds
    /\ otype \in [ObjIds -> {"anon", "shadow"}]
    /\ rc \in [ObjIds -> Nat]
    /\ osh \in [ObjIds -> ObjIds \cup {NoObj}]
    /\ obot \in [ObjIds -> ObjIds \cup {NoObj}]
    /\ res \in [ObjIds -> BOOLEAN]
    /\ data \in [ObjIds -> Values \cup {Zero}]
    /\ uaf \in BOOLEAN
    /\ fault \in {"none", "null", "hang", "assert", "use_after_free", "panic"}
    /\ zombie \subseteq Procs
    /\ kt \in [Procs -> {"none", "nostate", "run", "exited"}]
    /\ forkret \in {"none", "pid", "ENOMEM"}

(***************************************************************************)
(* Each live object's reference count is the number of references held to *)
(* it: by the areas of live processes and by the live shadows that have it *)
(* as shadowed or bottom object; a freed object has count 0.  vmmap_clone  *)
(* hands the parent's reference to two new shadows, exit puts whole        *)
(* chains, and collapse re-points shadowed.  Once the kernel has faulted  *)
(* nothing more is claimed.                                                *)
(***************************************************************************)
Holders(o) ==
    Cardinality({<<p, a>> \in alive \X AreaIds : amap[p][a] = o})
    + Cardinality({x \in olive : otype[x] = "shadow" /\ osh[x] = o})
    + Cardinality({x \in olive : otype[x] = "shadow" /\ obot[x] = o})

RefcountsExact ==
    fault = "none" => \A o \in ObjIds : rc[o] = IF o \in olive THEN Holders(o) ELSE 0

(***************************************************************************)
(* Each process slot in use has exactly one kthread, and a free slot none: *)
(* a live process's thread is runnable, a dead one's has exited and waits  *)
(* for kthread_destroy in waitpid.  do_fork must undo proc_create when     *)
(* kthread_clone fails, and waitpid must free the thread with the process. *)
(***************************************************************************)
ThreadsMatchProcs ==
    fault = "none" =>
        /\ alive \cap zombie = {}
        /\ \A p \in Procs : kt[p] = CASE p \in alive -> "run"
                                     [] p \in zombie -> "exited"
                                     [] OTHER -> "none"

(***************************************************************************)
(* A fork that fails leaves the parent's world as it was (spec 5: fork is *)
(* atomic from the parent's perspective): no process or thread is created  *)
(* or lost, no page table entry is dropped, and every process reads what   *)
(* it read before.                                                          *)
(***************************************************************************)
ProcContents == [p \in alive |-> LET vis == Mapped(p)
                                 IN [a \in AreaIds |-> ContentsIn(p, a, vis)]]

ForkAtomic ==
    [][forkret' = "ENOMEM" /\ fault' = "none" =>
          /\ alive' = alive /\ zombie' = zombie /\ kt' = kt /\ pt' = pt
          /\ ProcContents' = ProcContents]_vars

(***************************************************************************)
(* Every live shadow's bottom_mobj is the non-shadow object its chain of   *)
(* shadowed links ends in (spec 4.2, the KASSERT of shadow_create): reads  *)
(* that miss the chain and every write fault go to this object.            *)
(***************************************************************************)
RECURSIVE ChainEnd(_, _)
ChainEnd(o, k) == IF otype[o] # "shadow" \/ k = 0 THEN o ELSE ChainEnd(osh[o], k - 1)

ChainsEndAtBottom ==
    fault = "none" => \A o \in olive : otype[o] = "shadow" =>
        obot[o] = ChainEnd(o, MaxObjs) /\ obot[o] \in olive

(***************************************************************************)
(* No freed memory object is ever read: shadow_collapse reads the next     *)
(* link from the shadow it has just put.                                   *)
(***************************************************************************)
NoUseAfterFree == ~uaf

(***************************************************************************)
(* Copy-on-write is invisible: what each process reads is its own private  *)
(* memory as PrivateMemory describes it.  A write by one process is never *)
(* seen by another, and a child starts with the parent's contents.         *)
(***************************************************************************)
Zeros == [a \in AreaIds |-> Zero]
memBar == [p \in Procs |-> IF p \in alive THEN [a \in AreaIds |-> Contents(p, a)]
                          ELSE Zeros]

PM == INSTANCE PrivateMemory WITH live <- alive, mem <- memBar

PrivateMemRefinement == PM!Spec
=============================================================================
