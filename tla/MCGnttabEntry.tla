--------------------------- MODULE MCGnttabEntry ----------------------------
(* GnttabEntry with two threads and two references in one byte. *)
EXTENDS GnttabEntry

CONSTANTS t1, t2

TwoThreads == {t1, t2}
NoThreads == {}
OneByte == [r \in Ref |-> 0]
=============================================================================
