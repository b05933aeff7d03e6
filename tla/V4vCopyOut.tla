----------------------------- MODULE V4vCopyOut -----------------------------
(***************************************************************************)
(* Reading messages out of a V4V ring (inc/v4v.h): the wrap-around copy of *)
(* v4v_copy_out, and v4v_copy_out_offset, which skips the stream header.   *)
(*                                                                         *)
(* One unit stands for 8 bytes: messages are padded to 16 bytes, their     *)
(* header is 16 bytes, and a stream header is 8.  Xen writes the ring.     *)
(***************************************************************************)
EXTENDS Integers, Sequences, SequencesExt

CONSTANTS
    RingLen,  \* len of the v4v_ring, in units; a multiple of ALIGN
    MaxMsg    \* the largest payload, in units

ASSUME RingAssumption == RingLen > 0 /\ RingLen % 2 = 0 /\ MaxMsg \in 0..RingLen

ALIGN == 2   \* V4V_ROUNDUP
HDR == 2     \* sizeof (struct v4v_ring_message_header)
STREAM == 1  \* sizeof (V4V_STREAM)

VARIABLES
    ring,    \* ring[], what each unit holds
    rx_ptr, tx_ptr,
    unread,  \* the payloads of the messages in the ring, the oldest first
    lastRead \* the last call: what it was asked for, and what it returned

ringVars == <<ring, rx_ptr, tx_ptr, unread, lastRead>>

NoRead == [ret |-> -1]

RingInit ==
    /\ ring = [u \in 0..RingLen - 1 |-> 0]
    /\ rx_ptr \in {u \in 0..RingLen - 1 : u % ALIGN = 0}
    /\ tx_ptr = rx_ptr
    /\ unread = <<>>
    /\ lastRead = NoRead

V4V_ROUNDUP(n) == ((n + ALIGN - 1) \div ALIGN) * ALIGN

v4v_ring_bytes_to_read == (tx_ptr - rx_ptr) % RingLen

(* The len units at src of the ring, copied to the buffer at dst.           *)
memcpy(buf, dst, src, len) ==
    [k \in DOMAIN buf \cup (dst..dst + len - 1) |->
       IF k \in dst..dst + len - 1 THEN ring[src + (k - dst)] ELSE buf[k]]

(* A mutant of v4v_memcpy_skip: the source is not advanced past what was    *)
(* skipped.                                                                 *)
memcpy_skip_at_start(c, dst, src, len) ==
    IF c.skip >= len THEN [c EXCEPT !.skip = @ - len]
    ELSE [skip |-> 0, buf |-> memcpy(c.buf, dst + c.skip, src, len - c.skip)]

(* The same, without the units that are still to be skipped.                *)
v4v_memcpy_skip(c, dst, src, len) ==
    IF c.skip = 0
    THEN [c EXCEPT !.buf = memcpy(@, dst, src, len)]
    ELSE IF c.skip >= len
    THEN [c EXCEPT !.skip = @ - len]
    ELSE [skip |-> 0,
          buf  |-> memcpy(c.buf, dst + c.skip, src + c.skip, len - c.skip)]

Smaller(a, b) == IF a < b THEN a ELSE b

(* The call: the units stored in the buffer, the length of the message and  *)
(* the position of the next one.  A buffer of no size stands for NULL.      *)
v4v_copy_out_offset(t, skip) ==
    LET head  == (rx_ptr + HDR) % RingLen
        len   == ring[rx_ptr] - HDR
        bte   == RingLen - head
        wraps == bte < len
        empty == [skip |-> skip, buf |-> <<>>]
        first == IF wraps
                 THEN v4v_memcpy_skip(empty, 0 - skip, head, Smaller(t, bte))
                 ELSE empty
        t2    == IF ~wraps THEN t ELSE IF t < bte THEN 0 ELSE t - bte
        off2  == IF wraps THEN Smaller(t, bte) - skip ELSE 0 - skip
        rxp2  == IF wraps THEN 0 ELSE head
        len2  == IF wraps THEN len - bte ELSE len
    IN  [ret  |-> len,
         buf  |-> IF t2 = 0 THEN first.buf
                  ELSE v4v_memcpy_skip(first, off2, rxp2, Smaller(t2, len2)).buf,
         next |-> (rxp2 + V4V_ROUNDUP(len2)) % RingLen]

v4v_copy_out(t) == v4v_copy_out_offset(t, 0)

(* A reader: a peek at the header, a plain read, or a stream read.          *)
CopyOut(t, consume, skip) ==
    LET r == IF skip = 0 THEN v4v_copy_out(t) ELSE v4v_copy_out_offset(t, skip)
    IN  /\ v4v_ring_bytes_to_read >= HDR
        /\ v4v_ring_bytes_to_read >= ring[rx_ptr]
        /\ lastRead' = [ret |-> r.ret, buf |-> r.buf, t |-> t, skip |-> skip,
                        of |-> Head(unread)]
        /\ rx_ptr' = IF consume THEN r.next ELSE rx_ptr
        /\ unread' = IF consume THEN Tail(unread) ELSE unread
        \* no one reads a consumed unit again before Xen has written it
        /\ ring' = [u \in DOMAIN ring |->
                      IF consume /\ (u - rx_ptr) % RingLen < (r.next - rx_ptr) % RingLen
                      THEN 0 ELSE ring[u]]
        /\ UNCHANGED tx_ptr

(* Xen appends a message: the header, the payload and the padding.  It      *)
(* never fills the ring entirely, since rx_ptr = tx_ptr means empty.        *)
XenSend(msg) ==
    LET size == HDR + V4V_ROUNDUP(Len(msg))
        at(u) == (u - tx_ptr) % RingLen
    IN  /\ v4v_ring_bytes_to_read + size < RingLen
        /\ ring' = [u \in DOMAIN ring |->
                      IF at(u) = 0 THEN HDR + Len(msg)
                      ELSE IF at(u) - HDR \in 0..Len(msg) - 1
                      THEN msg[at(u) - HDR + 1]
                      ELSE ring[u]]
        /\ tx_ptr' = (tx_ptr + size) % RingLen
        /\ unread' = Append(unread, msg)
        /\ UNCHANGED <<rx_ptr, lastRead>>

(* Each payload is a run of numbers of its own, so that no unit can be      *)
(* taken for another.                                                       *)
RingNext ==
    \/ \E n \in 0..MaxMsg, b \in {10, 20} : XenSend([k \in 1..n |-> b + k])
    \/ \E t \in 0..MaxMsg + 1, c \in BOOLEAN, s \in {0, STREAM} :
         s <= t /\ CopyOut(t, c, s)

RingSpec == RingInit /\ [][RingNext]_ringVars

(* A read returns the message's whole length and stores exactly the units   *)
(* asked for, in order, wherever the message wraps; what it consumes leaves *)
(* rx_ptr at the header of the next message ("Copy at most t bytes of the   *)
(* next message in the ring ... skipping skip bytes ... returns the actual  *)
(* length of the message").                                                 *)
ReadsAreExact ==
    /\ lastRead # NoRead =>
         LET asked == SubSeq(lastRead.of, lastRead.skip + 1,
                             Smaller(lastRead.t, Len(lastRead.of)))
         IN  /\ lastRead.ret = Len(lastRead.of)
             /\ DOMAIN lastRead.buf = 0..Len(asked) - 1
             /\ \A k \in DOMAIN asked : lastRead.buf[k - 1] = asked[k]
    /\ unread = <<>> <=> rx_ptr = tx_ptr
    /\ unread # <<>> => ring[rx_ptr] = HDR + Len(Head(unread))
=============================================================================
