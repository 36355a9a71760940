------------------------------- MODULE Ldisc -------------------------------
(***************************************************************************)
(* The TTY line discipline of src/unnamed/part_000 (ldisc.c): a circular  *)
(* buffer of N bytes with the cursors ldisc_tail, ldisc_cooked and        *)
(* ldisc_head, the ldisc_full flag and the read wait queue.  Keystrokes   *)
(* arrive from the keyboard interrupt (ldisc_key_pressed); reader threads *)
(* call ldisc_wait_read and then ldisc_read, as tty_read does, sleeping   *)
(* cancellably on ldisc_read_queue.  The interrupt handler and a reader   *)
(* never overlap (both run with the tty lock held / interrupts off), so   *)
(* each C function is one atomic step; a reader is suspended only inside  *)
(* sched_cancellable_sleep_on.                                            *)
(***************************************************************************)
EXTENDS Naturals, Sequences, SequencesExt

CONSTANTS N,         \* LDISC_BUFFER_SIZE
          Letters,   \* ordinary characters that can be typed
          Keys,      \* the keystrokes the keyboard may deliver
          Counts,    \* the count arguments readers pass to read(2)
          Readers,   \* reader threads
          InitMode   \* "ldisc_init" or "test_reset": see Init

NL  == "NL"    \* '\n'
EOT == "EOT"   \* ctrl-d
ETX == "ETX"   \* ctrl-c
BS  == "BS"    \* backspace
NUL == "NUL"   \* '\0', the byte ldisc_init wipes the buffer with

ASSUME N >= 2 /\ Keys \subseteq Letters \cup {NL, EOT, ETX, BS}

Bytes == Letters \cup {NL, EOT, NUL}
Index == 0 .. N - 1

VARIABLES buffer,    \* ldisc_buffer
          tail,      \* ldisc_tail: next byte a reader consumes
          cooked,    \* ldisc_cooked: end of the committed bytes
          head,      \* ldisc_head: next write position
          full,      \* ldisc_full = '1'
          rq,        \* ldisc_read_queue, FIFO of sleeping readers
          rstate,    \* each reader: idle, sleeping or woken
          rcount,    \* the count a sleeping or woken reader will read with
          lastRead   \* outcome of the most recent read(2) on the tty

ldisc == <<buffer, tail, cooked, head, full>>
readers == <<rq, rstate, rcount>>
vars == <<buffer, tail, cooked, head, full, rq, rstate, rcount, lastRead>>

NoRead == [done |-> FALSE, count |-> 0, bytes |-> <<>>, eot |-> FALSE, intr |-> FALSE]

\* Mutant of Inc: the wrap-around at the end of the buffer is forgotten.
Inc_nowrap(x) == x + 1

\* ldisc_increment / ldisc_decrement
Inc(x) == IF x = N - 1 THEN 0 ELSE x + 1
Dec(x) == IF x = 0 THEN N - 1 ELSE x - 1

(***************************************************************************)
(* ldisc_init sets ldisc_cooked to N-1 while tail and head are 0.  The     *)
(* driver tests end by resetting all three cursors to 0 (driverstest_main)*)
(* and the kernel runs with that state afterwards; both are states the     *)
(* line discipline is really in.                                          *)
(***************************************************************************)
ldisc_init ==
    /\ buffer = [i \in Index |-> NUL]
    /\ tail = 0 /\ head = 0
    /\ cooked = IF InitMode = "ldisc_init" THEN N - 1 ELSE 0
    /\ full = FALSE

Init ==
    /\ ldisc_init
    /\ rq = <<>>
    /\ rstate = [r \in Readers |-> "idle"]
    /\ rcount = [r \in Readers |-> CHOOSE c \in Counts : TRUE]
    /\ lastRead = NoRead

(***************************************************************************)
(* sched_wakeup_on(&ldisc_read_queue, NULL): wakes the first sleeper only. *)
(***************************************************************************)
Wakeup ==
    IF rq = <<>>
    THEN UNCHANGED <<rq, rstate>>
    ELSE /\ rq' = Tail(rq)
         /\ rstate' = [rstate EXCEPT ![Head(rq)] = "woken"]

\* The slot before the tail is reserved (the check on line 178).
NoRoom == head = Dec(tail)

(***************************************************************************)
(* ldisc_key_pressed, one action per branch.  A discarded keystroke leaves *)
(* the state unchanged and is not a step.                                 *)
(***************************************************************************)
KeyNewline ==
    /\ ~full
    /\ buffer' = [buffer EXCEPT ![head] = NL]
    /\ head' = Inc(head)
    /\ cooked' = Inc(head)
    /\ full' = NoRoom
    /\ Wakeup
    /\ UNCHANGED <<tail, rcount, lastRead>>

KeyEOT ==
    /\ ~full /\ ~NoRoom
    /\ buffer' = [buffer EXCEPT ![head] = EOT]
    /\ head' = Inc(head)
    /\ cooked' = Inc(head)
    /\ Wakeup
    /\ UNCHANGED <<tail, full, rcount, lastRead>>

\* Mutant of KeyETX: the blank line is cooked without writing its newline.
KeyETX_nonl ==
    /\ head' = Inc(cooked)
    /\ cooked' = Inc(cooked)
    /\ UNCHANGED <<buffer, tail, full, readers, lastRead>>

KeyETX ==
    /\ head' = Inc(cooked)
    /\ buffer' = [buffer EXCEPT ![cooked] = NL]
    /\ cooked' = Inc(cooked)
    /\ UNCHANGED <<tail, full, readers, lastRead>>

\* Mutant of KeyBS: backspace without the head = cooked check.
KeyBS_noguard ==
    /\ head' = Dec(head)
    /\ UNCHANGED <<buffer, tail, cooked, full, readers, lastRead>>

KeyBS ==
    /\ head # cooked
    /\ head' = Dec(head)
    /\ UNCHANGED <<buffer, tail, cooked, full, readers, lastRead>>

KeyChar(c) ==
    /\ ~full /\ ~NoRoom
    /\ buffer' = [buffer EXCEPT ![head] = c]
    /\ head' = Inc(head)
    /\ UNCHANGED <<tail, cooked, full, readers, lastRead>>

ldisc_key_pressed(c) ==
    \/ c = NL /\ KeyNewline
    \/ c = EOT /\ KeyEOT
    \/ c = ETX /\ KeyETX
    \/ c = BS /\ KeyBS
    \/ c \in Letters /\ KeyChar(c)

(***************************************************************************)
(* The copy loop of ldisc_read, from index it with the bytes out copied so *)
(* far.  It yields the new tail, the bytes returned and whether an EOT was *)
(* consumed.  When the loop reaches cooked it returns without moving tail. *)
(***************************************************************************)
\* Mutant of ReadLoop: the copy does not stop after count bytes.
RECURSIVE ReadLoop_nocount(_, _, _)
ReadLoop_nocount(it, out, count) ==
    LET o == Append(out, buffer[it]) IN
    IF it = cooked
    THEN [tail |-> tail, bytes |-> out, eot |-> FALSE]
    ELSE CASE buffer[it] = EOT
                -> [tail |-> Inc(it), bytes |-> out, eot |-> TRUE]
           [] buffer[it] = NL
                -> [tail |-> Inc(it), bytes |-> o, eot |-> FALSE]
           [] OTHER
                -> ReadLoop_nocount(Inc(it), o, count)

RECURSIVE ReadLoop(_, _, _)
ReadLoop(it, out, count) ==
    LET o == Append(out, buffer[it]) IN
    IF it = cooked
    THEN [tail |-> tail, bytes |-> out, eot |-> FALSE]
    ELSE CASE buffer[it] = EOT
                -> [tail |-> Inc(it), bytes |-> out, eot |-> TRUE]
           [] buffer[it] # EOT /\ (buffer[it] = NL \/ Len(o) = count)
                -> [tail |-> Inc(it), bytes |-> o, eot |-> FALSE]
           [] OTHER
                -> ReadLoop(Inc(it), o, count)

\* ldisc_read(count): the full flag is cleared once a byte is copied.
ldisc_read(r, count) ==
    LET res == ReadLoop(tail, <<>>, count) IN
    /\ tail' = res.tail
    /\ full' = (full /\ res.bytes = <<>>)
    /\ lastRead' = [done |-> TRUE, count |-> count, bytes |-> res.bytes,
                    eot |-> res.eot, intr |-> FALSE]
    /\ rstate' = [rstate EXCEPT ![r] = "idle"]
    /\ UNCHANGED <<buffer, cooked, head, rq, rcount>>

(***************************************************************************)
(* One pass of the loop of ldisc_wait_read: while head # tail, return 0 if *)
(* tail # cooked, else sleep.  When it returns 0 the reader goes on to     *)
(* ldisc_read in the same atomic step.                                    *)
(***************************************************************************)
MustSleep == head # tail /\ tail = cooked

ldisc_wait_read(r, count) ==
    \/ /\ MustSleep
       /\ rq' = Append(rq, r)
       /\ rstate' = [rstate EXCEPT ![r] = "sleeping"]
       /\ rcount' = [rcount EXCEPT ![r] = count]
       /\ UNCHANGED <<ldisc, lastRead>>
    \/ /\ ~MustSleep
       /\ ldisc_read(r, count)

\* A reader thread enters read(2) on the tty.
TtyRead(r) ==
    /\ rstate[r] = "idle"
    /\ \E count \in Counts : ldisc_wait_read(r, count)

\* A woken reader returns from sched_cancellable_sleep_on with 0 and loops.
Resume(r) ==
    /\ rstate[r] = "woken"
    /\ ldisc_wait_read(r, rcount[r])

\* kthread_cancel (kthread.c), by another thread: sched_cancel sets the
\* reader's cancelled bit and takes it off the read queue it sleeps on.
kthread_cancel(r) == rq' = Remove(rq, r)

\* A reader in the cancellable sleep is cancelled: the sleep returns -EINTR,
\* ldisc_wait_read returns it and the thread exits.  The reader slot then
\* stands for the next thread that reads the tty.
Cancel(r) ==
    /\ rstate[r] \in {"sleeping", "woken"}
    /\ kthread_cancel(r)
    /\ rstate' = [rstate EXCEPT ![r] = "idle"]
    /\ lastRead' = [NoRead EXCEPT !.done = TRUE, !.count = rcount[r], !.intr = TRUE]
    /\ UNCHANGED <<ldisc, rcount>>

Next ==
    \/ \E c \in Keys : ldisc_key_pressed(c)
    \/ \E r \in Readers : TtyRead(r) \/ Resume(r) \/ Cancel(r)

Spec == Init /\ [][Next]_vars

(***************************************************************************)
(* A runnable thread is eventually scheduled, and a reader that keeps     *)
(* reading the tty (a shell's input loop) eventually calls read again:    *)
(* weak fairness on each reader's steps.  Keystrokes get no fairness: the *)
(* user may stop typing.                                                  *)
(***************************************************************************)
FairSpec == Spec /\ \A r \in Readers : WF_vars(TtyRead(r) \/ Resume(r))

-----------------------------------------------------------------------------
(***************************************************************************)
(* Properties.                                                             *)
(***************************************************************************)

TypeOK ==
    /\ buffer \in [Index -> Bytes]
    /\ {tail, cooked, head} \subseteq Index
    /\ full \in BOOLEAN
    /\ rq \in Seq(Readers)
    /\ rstate \in [Readers -> {"idle", "sleeping", "woken"}]
    /\ rcount \in [Readers -> Counts]
    /\ lastRead.bytes \in Seq(Bytes)

\* Number of slots from cursor a forward to cursor b.
Dist(a, b) == (b - a + N) % N

\* The len bytes of the buffer starting at cursor from.
Region(from, len) == [i \in 1 .. len |-> buffer[(from + i - 1) % N]]

(***************************************************************************)
(* Spec 8: tail <= cooked <= head in circular order, i.e. walking forward  *)
(* from tail one meets cooked before (or at) head.  Backspace, ETX and the *)
(* reserved-slot check of ldisc_key_pressed are what keep it.             *)
(***************************************************************************)
CursorOrder ==
    /\ Dist(tail, cooked) + Dist(cooked, head) = Dist(tail, head)
    /\ full => tail = cooked /\ cooked = head

(***************************************************************************)
(* The refinement mapping: the committed bytes are [tail, cooked), all N   *)
(* bytes when the buffer is full; the edited line is [cooked, head).      *)
(***************************************************************************)
pendingBar == IF full THEN Region(tail, N) ELSE Region(tail, Dist(tail, cooked))
editingBar == Region(cooked, Dist(cooked, head))

LD == INSTANCE LineDiscipline
        WITH Capacity <- N, pending <- pendingBar, editing <- editingBar

(***************************************************************************)
(* ldisc_key_pressed and ldisc_read implement the abstract line           *)
(* discipline: readers get committed bytes in typing order, nothing is    *)
(* lost, invented or read while still being edited.                       *)
(***************************************************************************)
LineDiscRefinement == LD!Spec

(***************************************************************************)
(* A read(2) returns at most count bytes; a newline can only be its last   *)
(* byte and an EOT is never returned (ldisc_read's contract, lines 87-91). *)
(***************************************************************************)
ReadResultWellFormed ==
    lastRead.done /\ ~lastRead.intr =>
        /\ Len(lastRead.bytes) <= lastRead.count
        /\ \A i \in 1 .. Len(lastRead.bytes) :
              /\ lastRead.bytes[i] # EOT
              /\ lastRead.bytes[i] = NL => i = Len(lastRead.bytes)

(***************************************************************************)
(* Whenever committed bytes wait, the last of them is a newline or an EOT, *)
(* so the copy loop of ldisc_read always stops at a terminator and moves   *)
(* the tail; were it to run into cooked instead, it would return without  *)
(* moving the tail and every later read would return the same bytes.     *)
(* Newline, EOT and ctrl-c (which writes its own newline) must keep this. *)
(***************************************************************************)
CookedEndsWithTerminator ==
    tail # cooked => buffer[Dec(cooked)] \in {NL, EOT}

(***************************************************************************)
(* No reader stays asleep on the read queue while committed data waits    *)
(* and no other reader has been woken to take it (spec 4.7: committing a  *)
(* line wakes the readers).                                               *)
(***************************************************************************)
NoSleeperWithData ==
    (\E r \in Readers : rstate[r] = "sleeping") /\ (tail # cooked \/ full)
        => \E w \in Readers : rstate[w] = "woken"

(***************************************************************************)
(* A full buffer is eventually drained by the readers, so the terminal     *)
(* accepts keystrokes again (spec 4.7: full is cleared once a read         *)
(* consumes a byte).                                                       *)
(***************************************************************************)
FullBufferDrains == full ~> ~full
=============================================================================
