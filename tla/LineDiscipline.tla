--------------------------- MODULE LineDiscipline ---------------------------
(***************************************************************************)
(* What a TTY line discipline promises, independent of its circular        *)
(* buffer (spec section 4.7).  Keystrokes edit the current line; a newline *)
(* or EOT commits it, ETX commits an empty line and discards the edit;    *)
(* readers consume committed bytes in the order they were committed,      *)
(* never a byte that is still being edited, never one that was not typed. *)
(* A keystroke for which there is no room is dropped (a stuttering step). *)
(* The line discipline holds at most Capacity bytes, one of which is      *)
(* reserved for the newline that ends the line being edited.              *)
(***************************************************************************)
EXTENDS Naturals, Sequences, SequencesExt

CONSTANTS Capacity,   \* LDISC_BUFFER_SIZE
          Letters,    \* ordinary characters
          NL, EOT     \* the two line terminators

VARIABLES pending,    \* committed bytes not yet consumed by a reader
          editing     \* the line being edited

vars == <<pending, editing>>

Used == Len(pending) + Len(editing)

Init == pending = <<>> /\ editing = <<>>

\* An ordinary character joins the line if it leaves room for a newline.
Type(c) ==
    /\ Used < Capacity - 1
    /\ editing' = Append(editing, c)
    /\ UNCHANGED pending

\* Backspace erases the last character of the line being edited, never a
\* committed one.
Erase ==
    /\ editing # <<>>
    /\ editing' = Front(editing)
    /\ UNCHANGED pending

\* A newline may take the reserved slot; EOT may not.
Commit(t) ==
    /\ \/ t = NL /\ Used < Capacity
       \/ t = EOT /\ Used < Capacity - 1
    /\ pending' = pending \o Append(editing, t)
    /\ editing' = <<>>

\* ETX throws the edited line away and commits an empty line.
Interrupt ==
    /\ Len(pending) < Capacity
    /\ pending' = Append(pending, NL)
    /\ editing' = <<>>

\* A read consumes a non-empty prefix of the committed bytes.
Consume ==
    /\ \E k \in 1..Len(pending) : pending' = SubSeq(pending, k + 1, Len(pending))
    /\ UNCHANGED editing

Next ==
    \/ \E c \in Letters : Type(c)
    \/ Erase
    \/ Commit(NL) \/ Commit(EOT)
    \/ Interrupt
    \/ Consume

Spec == Init /\ [][Next]_vars

TypeOK ==
    /\ pending \in Seq(Letters \cup {NL, EOT})
    /\ editing \in Seq(Letters)
    /\ Used <= Capacity
=============================================================================
