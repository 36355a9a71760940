------------------------------- MODULE VMMap -------------------------------
(***************************************************************************)
(* The address-space map of one weenix process (the vmmap.c part of        *)
(* src/kernel/vm/mmap.c) and the system calls that change it: do_mmap and  *)
(* do_munmap (the first copy in mmap.c) and do_brk (the brk part of      *)
(* mmap.c; brk.c holds a second, different do_brk, not modelled).         *)
(*                                                                         *)
(* The map's areas sit on an intrusive doubly linked list.  vmmap_insert   *)
(* can insert an area that is already on the list, so the list is modelled *)
(* at the level of its links: nx[n] and pv[n] are l_next and l_prev of     *)
(* node n, HEAD is the list head vmm_list and NIL a NULL link.  Areas are  *)
(* slots of the vmarea slab; memory objects are slots of the mobj slabs,   *)
(* with their reference counts and, for shadow objects, the shadowed and   *)
(* bottom objects they hold references to.                                 *)
(*                                                                         *)
(* Every operation is written over a record S of the whole state, so that  *)
(* a call nested in another (vmmap_remove in vmmap_map, vmmap_insert in    *)
(* vmmap_remove) is the same operator.  A NULL dereference or a list walk  *)
(* that never returns to the head sets S.fault; the kernel then stops.     *)
(***************************************************************************)
EXTENDS Naturals, Sequences, FiniteSetsExt

CONSTANTS
    PageSize,      \* PAGE_SIZE, in the model's bytes
    UserLo,        \* ADDR_TO_PN(USER_MEM_LOW)
    UserHi,        \* ADDR_TO_PN(USER_MEM_HIGH)
    PNMod,         \* 2^64 for page numbers held in size_t: -1 is PNMod - 1
    MaxAreas,      \* vmarea slab slots
    MaxObjs,       \* mobj slab slots (anonymous and shadow objects)
    StartBrk,      \* p_start_brk as set by the loader (end of bss)
    MmapAddrs, MmapLens, MmapFlags,   \* do_mmap arguments tried
    MunmapAddrs, MunmapLens,          \* do_munmap arguments tried
    BrkAddrs                          \* do_brk arguments tried

ASSUME 0 < UserLo /\ UserLo < UserHi /\ UserHi < PNMod

HEAD == 0
NIL == MaxAreas + 1
Slots == 1 .. MaxAreas
Nodes == {HEAD} \cup Slots
NoObj == 0
ObjIds == 1 .. MaxObjs
Fuel == MaxAreas + 2   \* more steps than a walk can take without a cycle

\* Flags of do_mmap; a member of MmapFlags is a set of these.
MAP_SHARED == "MAP_SHARED"
MAP_PRIVATE == "MAP_PRIVATE"
MAP_FIXED == "MAP_FIXED"
MAP_ANON == "MAP_ANON"

\* ADDR_TO_PN, PAGE_ALIGNED, PAGE_ALIGN_UP, PAGE_OFFSET (mm/page.h).
ADDR_TO_PN(a) == a \div PageSize
PN_TO_ADDR(p) == p * PageSize
PAGE_ALIGNED(a) == a % PageSize = 0
PAGE_ALIGN_UP(a) == ((a + PageSize - 1) \div PageSize) * PageSize
PAGE_OFFSET(a) == a % PageSize
USER_MEM_LOW == PN_TO_ADDR(UserLo)
USER_MEM_HIGH == PN_TO_ADDR(UserHi)

\* A vmarea_t as vmarea_alloc leaves it: every field zero.
NoArea == [start |-> 0, end |-> 0, off |-> 0, obj |-> NoObj]

VARIABLES
    nx, pv,        \* l_next and l_prev of the list head and every vmarea
    area,          \* area[s]: vma_start, vma_end, vma_off, vma_obj of slot s
    used,          \* vmarea slots allocated from the slab
    rc,            \* rc[o]: mo_refcount
    otype,         \* otype[o]: "free", "anon" or "shadow"
    osh, obot,     \* a shadow object's shadowed and bottom_mobj
    p_brk,         \* curproc->p_brk
    fault,         \* "none", or how the kernel went wrong
    lastCall       \* the last system call: its name, page range and result

vars == <<nx, pv, area, used, rc, otype, osh, obot, p_brk, fault, lastCall>>

St == [nx |-> nx, pv |-> pv, area |-> area, used |-> used, rc |-> rc,
       otype |-> otype, osh |-> osh, obot |-> obot, fault |-> fault]

\* An action ends with the state S a system call left.
SetState(S) ==
    /\ nx' = S.nx /\ pv' = S.pv /\ area' = S.area /\ used' = S.used
    /\ rc' = S.rc /\ otype' = S.otype /\ osh' = S.osh /\ obot' = S.obot
    /\ fault' = S.fault

Fail(S, why) == [S EXCEPT !.fault = why]
OK(S) == S.fault = "none"

(***************************************************************************)
(* The list primitives of util/list.h, which the vmmap code calls.         *)
(***************************************************************************)
\* list_insert_before(link, new): new.next = link; new.prev = link.prev;
\* link.prev.next = new; link.prev = new.  No check that new is unlinked.
ListInsertBefore(S, link, new) ==
    LET p == S.pv[link] IN
    IF p = NIL THEN Fail(S, "null")
    ELSE [S EXCEPT !.nx = [@ EXCEPT ![new] = link, ![p] = new],
                   !.pv = [@ EXCEPT ![new] = p, ![link] = new]]

\* list_remove(link): unlink it and clear its pointers.
ListRemove(S, link) ==
    LET n == S.nx[link]
        p == S.pv[link]
    IN IF n = NIL \/ p = NIL THEN Fail(S, "null")
       ELSE [S EXCEPT !.pv = [@ EXCEPT ![n] = p, ![link] = NIL],
                      !.nx = [@ EXCEPT ![p] = n, ![link] = NIL]]

\* The nodes list_iterate visits from the head, at most Fuel of them, and
\* where it stops: back at HEAD, at a NULL link, or nowhere (a cycle).
RECURSIVE WalkFrom(_, _, _)
WalkFrom(S, v, k) ==
    IF v = HEAD \/ v = NIL \/ k = 0 THEN <<v>>
    ELSE <<v>> \o WalkFrom(S, S.nx[v], k - 1)

Walk(S) == LET w == WalkFrom(S, S.nx[HEAD], Fuel)
           IN [visited |-> SubSeq(w, 1, Len(w) - 1),
               ends |-> CASE w[Len(w)] = HEAD -> "none"
                          [] w[Len(w)] = NIL  -> "null"
                          [] OTHER            -> "hang"]

Covers(a, vfn) == a.start <= vfn /\ a.end > vfn

(***************************************************************************)
(* vmmap_lookup: the first area of the walk that covers vfn.  A walk that  *)
(* does not find one and does not return to the head is a fault.           *)
(***************************************************************************)
vmmap_lookup(S, vfn) ==
    LET w == Walk(S)
        hits == {i \in 1 .. Len(w.visited) : Covers(S.area[w.visited[i]], vfn)}
    IN IF hits # {} THEN [fault |-> "none", ret |-> w.visited[Min(hits)]]
       ELSE [fault |-> w.ends, ret |-> NIL]

(***************************************************************************)
(* vmmap_find_range, VMMAP_DIR_HILO (the only direction its callers use):  *)
(* from page UserHi down to UserLo, count free pages and return the page   *)
(* at which the count reaches npages; -1 (PNMod - 1 once stored in a       *)
(* size_t) when none does.                                                 *)
(***************************************************************************)
RECURSIVE FindHiLo(_, _, _, _)
FindHiLo(S, i, count, npages) ==
    IF i < UserLo THEN [fault |-> "none", ret |-> PNMod - 1]
    ELSE LET l == vmmap_lookup(S, i)
             c == IF l.ret = NIL THEN count + 1 ELSE 0
         IN IF l.fault # "none" THEN [fault |-> l.fault, ret |-> 0]
            ELSE IF c = npages THEN [fault |-> "none", ret |-> i]
            ELSE FindHiLo(S, i - 1, c, npages)

vmmap_find_range(S, npages) == FindHiLo(S, UserHi, 0, npages)

(***************************************************************************)
(* Slab allocation of vmareas and memory objects.  An allocation fails     *)
(* (returns NULL) when every slot of the slab is in use.                   *)
(***************************************************************************)
\* vmarea_alloc: a zeroed, unlinked area, or NIL.
vmarea_alloc(S) ==
    LET free == Slots \ S.used IN
    IF free = {} THEN [s |-> S, ret |-> NIL]
    ELSE LET a == Min(free) IN
         [s |-> [S EXCEPT !.used = @ \cup {a}, !.area[a] = NoArea,
                          !.nx[a] = NIL, !.pv[a] = NIL],
          ret |-> a]

\* mobj_put: drop a reference; at zero run the destructor, which for a
\* shadow object (shadow_destructor) puts its shadowed and bottom objects.
RECURSIVE mobj_put(_, _)
mobj_put(S, o) ==
    CASE o = NoObj -> Fail(S, "null")
      [] S.rc[o] = 0 -> Fail(S, "use_after_free")
      [] S.rc[o] > 1 -> [S EXCEPT !.rc[o] = @ - 1]
      [] S.otype[o] = "shadow" ->
            mobj_put(mobj_put([S EXCEPT !.rc[o] = 0, !.otype[o] = "free"],
                              S.osh[o]), S.obot[o])
      [] OTHER -> [S EXCEPT !.rc[o] = 0, !.otype[o] = "free"]

\* vmarea_free: unlink the area if linked, put its object, free the slot.
vmarea_free(S, a) ==
    LET S1 == IF S.nx[a] # NIL THEN ListRemove(S, a) ELSE S
        S2 == IF S.area[a].obj # NoObj THEN mobj_put(S1, S.area[a].obj) ELSE S1
    IN [S2 EXCEPT !.used = @ \ {a}, !.nx[a] = NIL, !.pv[a] = NIL]

FreeObjs(S) == {o \in ObjIds : S.otype[o] = "free"}

\* anon_create: a new anonymous object with one reference, or NoObj.
anon_create(S) ==
    IF FreeObjs(S) = {} THEN [s |-> S, ret |-> NoObj]
    ELSE LET o == Min(FreeObjs(S)) IN
         [s |-> [S EXCEPT !.otype[o] = "anon", !.rc[o] = 1], ret |-> o]

\* shadow_create (shadow.c): a shadow of m with one reference; it takes a
\* reference on m and one on the bottom of m's chain.
shadow_create(S, m) ==
    IF FreeObjs(S) = {} THEN [s |-> S, ret |-> NoObj]
    ELSE LET o == Min(FreeObjs(S))
             bot == IF S.otype[m] = "shadow" THEN S.obot[m] ELSE m
         IN [s |-> [S EXCEPT !.otype[o] = "shadow", !.rc[o] = 1,
                             !.osh[o] = m, !.obot[o] = bot,
                             !.rc = [@ EXCEPT ![m] = @ + 1, ![bot] = @ + 1]],
             ret |-> o]

(***************************************************************************)
(* vmmap_insert: for every area of the list with vma_end >= the new area's *)
(* start, list_insert_before(area, new); then list_insert_tail(new).       *)
(* list_iterate reads an area's next link before running the body.         *)
(***************************************************************************)
RECURSIVE InsertLoop(_, _, _, _)
InsertLoop(S, v, new, k) ==
    CASE ~OK(S) -> S
      [] v = HEAD -> S
      [] v = NIL -> Fail(S, "null")
      [] k = 0 -> Fail(S, "hang")
      [] OTHER ->
            LET next == S.nx[v]
                S1 == IF S.area[v].end >= S.area[new].start
                        THEN ListInsertBefore(S, v, new) ELSE S
            IN InsertLoop(S1, next, new, k - 1)

vmmap_insert(S, new) ==
    LET S1 == InsertLoop(S, S.nx[HEAD], new, Fuel) IN
    IF OK(S1) THEN ListInsertBefore(S1, HEAD, new) ELSE S1
(***************************************************************************)
(* vmmap_remove: one pass over the list, testing the four cases in the     *)
(* code's order on each area with the code's comparisons.  A split         *)
(* allocates the right half, gives it a reference to the object and        *)
(* inserts it with vmmap_insert; an allocation failure returns -ENOMEM     *)
(* with the areas already visited changed.  A covered area is only taken   *)
(* off the list.                                                           *)
(***************************************************************************)
Split_noref(S, v, lo, endp) ==
    LET al == vmarea_alloc(S)
        n == al.ret
        a == S.area[v]
    IN IF n = NIL THEN [s |-> S, ret |-> "ENOMEM"]
       ELSE [s |-> vmmap_insert(
                     [al.s EXCEPT !.area[n] = [start |-> endp, end |-> a.end,
                                               off |-> 0, obj |-> a.obj],
                                  !.area[v].end = lo], n),
             ret |-> "ok"]

Split(S, v, lo, endp) ==
    LET al == vmarea_alloc(S)
        n == al.ret
        a == S.area[v]
    IN IF n = NIL THEN [s |-> S, ret |-> "ENOMEM"]
       ELSE [s |-> vmmap_insert(
                     [al.s EXCEPT !.area[n] = [start |-> endp, end |-> a.end,
                                               off |-> 0, obj |-> a.obj],
                                  !.rc[a.obj] = @ + 1,
                                  !.area[v].end = lo], n),
             ret |-> "ok"]

RECURSIVE RemoveLoop(_, _, _, _, _)
RemoveLoop(S, v, lo, endp, k) ==
    CASE ~OK(S) -> [s |-> S, ret |-> "ok"]
      [] v = HEAD -> [s |-> S, ret |-> "ok"]
      [] v = NIL -> [s |-> Fail(S, "null"), ret |-> "ok"]
      [] k = 0 -> [s |-> Fail(S, "hang"), ret |-> "ok"]
      [] OTHER ->
          LET next == S.nx[v]
              a == S.area[v]
              r == CASE a.start >= lo /\ a.end > endp ->
                           [s |-> [S EXCEPT !.area[v].start = endp,
                                            !.area[v].off = 0], ret |-> "ok"]
                     [] a.start < lo /\ a.end > endp -> Split(S, v, lo, endp)
                     [] a.start < lo /\ a.end >= lo ->
                           [s |-> [S EXCEPT !.area[v].end = lo], ret |-> "ok"]
                     [] a.start >= lo /\ a.end <= endp ->
                           [s |-> ListRemove(S, v), ret |-> "ok"]
                     [] OTHER -> [s |-> S, ret |-> "ok"]
          IN IF r.ret # "ok" THEN r ELSE RemoveLoop(r.s, next, lo, endp, k - 1)

vmmap_remove(S, lopage, npages) ==
    RemoveLoop(S, S.nx[HEAD], lopage, lopage + npages, Fuel)

\* vma_end = start + npages, computed in size_t.
AreaEnd(start, npages) == (start + npages) % PNMod

(***************************************************************************)
(* vmmap_map with file = NULL, one operator per stage of the code, each    *)
(* given the result of the call the stage makes.  The range comes from     *)
(* find_range when lopage is 0, whose -1 the test !start does not catch;   *)
(* then the area, an anonymous object and, for MAP_PRIVATE, a shadow of    *)
(* it; the MAP_FIXED removal runs only when lopage is 0; then              *)
(* vmmap_insert.  ret is "ok" or an error.                                 *)
(***************************************************************************)
\* After mobj_put(&mobj) the code's mobj is NULL: the removal's error path
\* puts it again.
MapUndo(S, a, mobj, shadow) ==
    LET U == mobj_put(vmarea_free(S, a), mobj)
    IN IF shadow # NoObj THEN mobj_put(U, shadow) ELSE U

MapFixed(a, mobj, shadow, rm) ==
    IF rm.ret # "ok" THEN [s |-> MapUndo(rm.s, a, mobj, shadow), ret |-> rm.ret]
    ELSE [s |-> vmmap_insert(rm.s, a), ret |-> "ok"]

MapRemove(S, a, mobj, shadow, lopage, npages, flags) ==
    MapFixed(a, mobj, shadow,
             IF MAP_FIXED \in flags /\ lopage = 0
               THEN vmmap_remove(S, lopage, npages) ELSE [s |-> S, ret |-> "ok"])

\* mobj_unlock(shadow) runs before the NULL test.
MapShadow(S, a, mobj, sh, lopage, npages, flags) ==
    CASE MAP_PRIVATE \notin flags ->
            MapRemove(S, a, mobj, NoObj, lopage, npages, flags)
      [] sh.ret = NoObj -> [s |-> Fail(S, "null"), ret |-> "fault"]
      [] OTHER ->
            MapRemove(mobj_put([sh.s EXCEPT !.area[a].obj = sh.ret], mobj),
                      a, NoObj, sh.ret, lopage, npages, flags)

MapObj(S, a, an, lopage, npages, flags) ==
    IF an.ret = NoObj THEN [s |-> vmarea_free(S, a), ret |-> "ENOMEM"]
    ELSE LET S2 == [an.s EXCEPT !.area[a].obj = an.ret]
         IN MapShadow(S2, a, an.ret,
                      IF MAP_PRIVATE \in flags THEN shadow_create(S2, an.ret)
                      ELSE [s |-> S2, ret |-> NoObj],
                      lopage, npages, flags)

MapArea(S, start, al, lopage, npages, flags, off) ==
    IF al.ret = NIL THEN [s |-> S, ret |-> "ENOMEM"]
    ELSE LET a == al.ret
             S1 == [al.s EXCEPT !.area[a] =
                      [start |-> start, end |-> AreaEnd(start, npages),
                       off |-> ADDR_TO_PN(PN_TO_ADDR(lopage) + off) - lopage,
                       obj |-> NoObj]]
         IN MapObj(S1, a, anon_create(S1), lopage, npages, flags)

MapStart(S, start, lopage, npages, flags, off) ==
    IF start = 0 THEN [s |-> S, ret |-> "ENOMEM"]
    ELSE MapArea(S, start, vmarea_alloc(S), lopage, npages, flags, off)

MapRange(S, fr, lopage, npages, flags, off) ==
    IF fr.fault # "none" THEN [s |-> Fail(S, fr.fault), ret |-> "fault"]
    ELSE MapStart(S, fr.ret, lopage, npages, flags, off)

vmmap_map(S, lopage, npages, flags, off) ==
    IF lopage = 0 THEN MapRange(S, vmmap_find_range(S, npages), lopage, npages, flags, off)
    ELSE MapStart(S, lopage, lopage, npages, flags, off)

(***************************************************************************)
(* vmmap_is_range_empty: 0 as soon as an area starts in [start, end) or    *)
(* ends in (start, end]; 1 otherwise.                                      *)
(***************************************************************************)
vmmap_is_range_empty(S, startvfn, npages) ==
    LET endvfn == startvfn + npages
        w == Walk(S)
        Hit(a) == \/ a.start < endvfn /\ a.start >= startvfn
                  \/ a.end <= endvfn /\ a.end > startvfn
    IN IF \E i \in 1 .. Len(w.visited) : Hit(S.area[w.visited[i]])
         THEN [fault |-> "none", ret |-> 0]
         ELSE [fault |-> w.ends, ret |-> 1]

-----------------------------------------------------------------------------
(***************************************************************************)
(* The process's address space after exec: text, data and bss in one area  *)
(* [UserLo, BssEnd) backed by one object; the break at the end of bss.     *)
(***************************************************************************)
BssEnd == ADDR_TO_PN(PAGE_ALIGN_UP(StartBrk))

Init ==
    /\ nx = [n \in Nodes |-> IF n \in {HEAD, 1} THEN 1 - n ELSE NIL]
    /\ pv = [n \in Nodes |-> IF n \in {HEAD, 1} THEN 1 - n ELSE NIL]
    /\ area = [s \in Slots |-> IF s = 1
                 THEN [start |-> UserLo, end |-> BssEnd, off |-> 0, obj |-> 1]
                 ELSE NoArea]
    /\ used = {1}
    /\ rc = [o \in ObjIds |-> IF o = 1 THEN 1 ELSE 0]
    /\ otype = [o \in ObjIds |-> IF o = 1 THEN "anon" ELSE "free"]
    /\ osh = [o \in ObjIds |-> NoObj]
    /\ obot = [o \in ObjIds |-> NoObj]
    /\ p_brk = StartBrk
    /\ fault = "none"
    /\ lastCall = [op |-> "exec", lo |-> 0, hi |-> 0, ret |-> "ok"]

\* do_mmap (mmap.c, first copy) with fd = -1 and off = 0: the argument
\* checks, then vmmap_map with VMMAP_DIR_HILO.  A call that returns an
\* error has changed nothing.
do_mmap(addr, len, flags) ==
    LET lopage == ADDR_TO_PN(addr - PAGE_OFFSET(addr))
        npages == ADDR_TO_PN(PAGE_ALIGN_UP(addr + len)) - lopage
        r == vmmap_map(St, lopage, npages, flags, 0)
    IN /\ len > 0
       /\ MAP_PRIVATE \in flags \/ MAP_SHARED \in flags
       /\ PAGE_ALIGNED(addr) \/ MAP_FIXED \notin flags
       /\ addr >= USER_MEM_LOW \/ MAP_FIXED \notin flags
       /\ MAP_ANON \in flags \/ MAP_FIXED \notin flags
       /\ SetState(r.s)
       /\ lastCall' = [op |-> "mmap", lo |-> lopage, hi |-> lopage + npages,
                       ret |-> r.ret]
       /\ UNCHANGED p_brk

\* do_munmap (mmap.c, first copy): the argument checks, then vmmap_remove.
do_munmap(addr, len) ==
    LET lopage == ADDR_TO_PN(addr)
        endpage == ADDR_TO_PN(PAGE_ALIGN_UP(addr + len))
        r == vmmap_remove(St, lopage, endpage - lopage)
    IN /\ PAGE_ALIGNED(addr)
       /\ len > 0
       /\ addr >= USER_MEM_LOW /\ addr <= USER_MEM_HIGH
       /\ len <= USER_MEM_HIGH /\ addr + len <= USER_MEM_HIGH
       /\ SetState(r.s)
       /\ lastCall' = [op |-> "munmap", lo |-> lopage, hi |-> endpage,
                       ret |-> r.ret]
       /\ UNCHANGED p_brk

\* do_brk (the brk part of mmap.c): the heap is the area holding the page
\* of p_start_brk.
\* Without one, map one page at addr's page (the result is ignored);
\* otherwise set its end to addr's page + 1, after checking the range from
\* p_brk's page when it grows.  do_brk(NULL) only reads p_brk.
do_brk(addr) ==
    LET lopage == ADDR_TO_PN(p_brk)
        endpage == ADDR_TO_PN(addr) + 1
        heap == vmmap_lookup(St, ADDR_TO_PN(StartBrk))
        h == heap.ret
        grow == h # NIL /\ area[h].end <= endpage
        empty == vmmap_is_range_empty(St, lopage, endpage - lopage)
        created == vmmap_map(St, ADDR_TO_PN(addr), 1,
                             {MAP_PRIVATE, MAP_ANON, MAP_FIXED}, PAGE_OFFSET(addr))
        S == CASE heap.fault # "none"          -> Fail(St, heap.fault)
               [] h = NIL                      -> created.s
               [] grow /\ empty.fault # "none" -> Fail(St, empty.fault)
               [] grow /\ empty.ret = 0        -> St
               [] OTHER -> [St EXCEPT !.area[h].end = endpage]
        ok == heap.fault = "none" /\ (h = NIL \/ ~grow \/ empty.ret = 1)
    IN /\ addr # 0
       /\ addr <= USER_MEM_HIGH
       /\ addr >= StartBrk
       /\ SetState(S)
       /\ p_brk' = IF ok THEN addr ELSE p_brk
       /\ lastCall' = [op |-> "brk", lo |-> lopage, hi |-> endpage,
                       ret |-> IF ok THEN "ok" ELSE "ENOMEM"]

\* After a fault (a NULL dereference or an endless list walk) the kernel
\* has stopped: no further call runs.
Mmap == fault = "none" /\ \E addr \in MmapAddrs, len \in MmapLens, flags \in MmapFlags :
            do_mmap(addr, len, flags)
Munmap == fault = "none" /\ \E addr \in MunmapAddrs, len \in MunmapLens :
            do_munmap(addr, len)
Brk == fault = "none" /\ \E addr \in BrkAddrs : do_brk(addr)

Next == Mmap \/ Munmap \/ Brk

Spec == Init /\ [][Next]_vars

-----------------------------------------------------------------------------
TypeOK ==
    /\ nx \in [Nodes -> Nodes \cup {NIL}]
    /\ pv \in [Nodes -> Nodes \cup {NIL}]
    /\ used \subseteq Slots
    /\ area \in [Slots -> [start : 0 .. PNMod - 1, end : 0 .. PNMod - 1,
                            off : Nat, obj : ObjIds \cup {NoObj}]]
    /\ rc \in [ObjIds -> Nat]
    /\ otype \in [ObjIds -> {"free", "anon", "shadow"}]
    /\ osh \in [ObjIds -> ObjIds \cup {NoObj}]
    /\ obot \in [ObjIds -> ObjIds \cup {NoObj}]
    /\ fault \in {"none", "null", "hang", "use_after_free"}

UserPages == UserLo .. UserHi - 1

\* The areas on the list, in list order.
Areas == Walk(St).visited

(***************************************************************************)
(* The kernel never dereferences a NULL link or object and never loops     *)
(* forever walking the area list, whatever sequence of mmap, munmap and    *)
(* brk calls the process makes.                                            *)
(***************************************************************************)
NoKernelFault == fault = "none"

(***************************************************************************)
(* The list stays a well-formed doubly linked list: walking l_next from    *)
(* the head returns to it through distinct areas, each area's l_prev is    *)
(* the one before it, and the areas on it are exactly the linked ones.     *)
(* vmmap_insert and vmmap_remove (with its nested insert) must keep it so. *)
(***************************************************************************)
ListIntact ==
    LET w == Walk(St)
        v == w.visited
        n == Len(v)
    IN /\ w.ends = "none"
       /\ \A i, j \in 1 .. n : i # j => v[i] # v[j]
       /\ n > 0 => pv[v[1]] = HEAD /\ pv[HEAD] = v[n]
       /\ \A i \in 1 .. n - 1 : pv[v[i + 1]] = v[i]
       /\ {v[i] : i \in 1 .. n} = {s \in Slots : nx[s] # NIL}

(***************************************************************************)
(* The map is what spec 4 says a vmmap is: a well-formed list (ListIntact) *)
(* of non-empty areas inside user memory, in ascending order and disjoint: *)
(* each area ends at or before the next one starts.  vmmap_find_range,     *)
(* vmmap_insert, vmmap_remove and the range test of do_brk must all keep   *)
(* it, over any sequence of calls.                                         *)
(***************************************************************************)
MapWellFormed ==
    LET v == Areas
    IN /\ ListIntact
       /\ \A i \in 1 .. Len(v) : UserLo <= area[v[i]].start
                                /\ area[v[i]].start < area[v[i]].end
                                /\ area[v[i]].end <= UserHi
       /\ \A i \in 1 .. Len(v) - 1 : area[v[i]].end <= area[v[i + 1]].start

(***************************************************************************)
(* Each object's reference count is exactly the number of references      *)
(* held to it: by the areas on the list and by the shadow objects above    *)
(* it (shadowed and bottom); a freed object has none.  Every path of       *)
(* vmmap_map, vmmap_remove and the destructors must keep the count.        *)
(***************************************************************************)
Holders(o) ==
    Cardinality({i \in 1 .. Len(Areas) : area[Areas[i]].obj = o})
    + Cardinality({x \in ObjIds : otype[x] = "shadow" /\ osh[x] = o})
    + Cardinality({x \in ObjIds : otype[x] = "shadow" /\ obot[x] = o})

RefcountsExact == \A o \in ObjIds : rc[o] = Holders(o)

(***************************************************************************)
(* No object is ever freed, or about to be, while something still refers  *)
(* to it: its reference count is at least the number of allocated areas   *)
(* and shadow objects holding it.  A count above that is a leak; below it, *)
(* the next put frees an object an area still maps.  vmmap_map's shadow    *)
(* set-up and vmmap_remove's split hand references around.                 *)
(***************************************************************************)
HeldBy(o) ==
    Cardinality({s \in used : area[s].obj = o})
    + Cardinality({x \in ObjIds : otype[x] = "shadow" /\ osh[x] = o})
    + Cardinality({x \in ObjIds : otype[x] = "shadow" /\ obot[x] = o})

NoRefcountUnderflow ==
    \A o \in ObjIds : rc[o] >= HeldBy(o) /\ (HeldBy(o) > 0 => otype[o] # "free")

(***************************************************************************)
(* The heap [p_start_brk, p_brk) is mapped: every page holding a byte of   *)
(* it lies in some area, as do_brk promises the caller.                    *)
(***************************************************************************)
HeapMapped ==
    \A p \in ADDR_TO_PN(StartBrk) .. ADDR_TO_PN(p_brk - 1) :
        \E i \in 1 .. Len(Areas) : Covers(area[Areas[i]], p)

\* The translation of page p that the map gives: the object of the first
\* area covering it and the page of that object, vma_off + p - vma_start.
Trans(p) ==
    LET hits == {i \in 1 .. Len(Areas) : Covers(area[Areas[i]], p)}
        a == area[Areas[Min(hits)]]
    IN IF hits = {} THEN <<>> ELSE <<a.obj, a.off + p - a.start>>

(***************************************************************************)
(* munmap removes exactly the pages it is given: after a successful call   *)
(* the pages in [lopage, endpage) are unmapped and every other user page   *)
(* still reaches the same page of the same object (spec 4.3: a split or a  *)
(* trimmed area keeps vma_off + page - vma_start for the pages it keeps).  *)
(***************************************************************************)
MunmapExact ==
    [][lastCall'.op = "munmap" /\ lastCall'.ret = "ok" /\ fault' = "none" =>
         \A p \in UserPages :
            IF lastCall'.lo <= p /\ p < lastCall'.hi
              THEN Trans(p)' = <<>>
              ELSE Trans(p)' = Trans(p)]_vars
=============================================================================
