------------------------------ MODULE MC_Ldisc ------------------------------
(***************************************************************************)
(* Model-checking instances of Ldisc: a 4-byte buffer (LDISC_BUFFER_SIZE  *)
(* is 128 in the kernel; 4 already lets a line fill the buffer, wrap the  *)
(* cursors and set ldisc_full), two letters so that backspace and         *)
(* ordering are visible, and two reader threads.                          *)
(***************************************************************************)
EXTENDS Ldisc

MC_Letters == {"a", "b"}

\* The keyboard without ctrl-c, and with it.
KeysNoETX == MC_Letters \cup {NL, EOT, BS}
KeysAll   == MC_Letters \cup {NL, EOT, ETX, BS}
=============================================================================
