---------------------------- MODULE GnttabEntry -----------------------------
(***************************************************************************)
(* Granting and revoking access to a frame, and restoring the grants after *)
(* a suspend: xenutil/gnttab.c lines 76-80, 319-384 and 492-602.  Where    *)
(* references come from is module GnttabPool.                              *)
(*                                                                         *)
(* A grant is written twice: in the table that Xen and the backends see,   *)
(* which a suspend wipes, and in the copy that GnttabResume restores it    *)
(* from.  Neither is written under a lock.  A suspend cannot interrupt a   *)
(* caller at DISPATCH_LEVEL, because Quiesce captures each CPU with a DPC, *)
(* but it can interrupt one below that at any statement.                   *)
(***************************************************************************)
EXTENDS Integers, FiniteSets

CONSTANTS Granter,
          Interruptible,   \* the threads that call below DISPATCH_LEVEL
          Ref,             \* grant references
          ByteOf,          \* the byte of gnttab_readonly_flags of each
          Domain, Frame,   \* foreign domains, and frames that are granted
          MaxSuspends      \* bound: suspends

(* The values 0 are those of an entry of a new grant table: domain 0, in   *)
(* which most backends run, and frame 0, which is never granted.           *)
NoFrame == 0
Dom0 == 0
DOMID_INVALID == -1

ASSUME EntryAssumption ==
    /\ Interruptible \subseteq Granter
    /\ ByteOf \in [Ref -> Nat]
    /\ Domain \subseteq Nat
    /\ Frame \subseteq Nat \ {NoFrame}
    /\ MaxSuspends \in Nat

Request == [frame : Frame, domid : Domain, readonly : BOOLEAN]
NoRequest == [frame |-> NoFrame, domid |-> DOMID_INVALID, readonly |-> TRUE]
Flag == {"permit_access", "readonly", "reading", "writing"}

VARIABLES
    frame, domid, flags,             \* the grant table
    gnttab_pfns, gnttab_domids,      \* the copy to restore it from
    gnttab_readonly_flags,           \* the references whose bit is set
    mapping,   \* the access a backend has obtained through each reference
    asked,     \* the request in force: from the call that grants until the
               \* call that ends it has returned STATUS_SUCCESS
    gpc, gref,   \* where each thread is, and its argument
    byte, saw, \* its copies of a readonly byte and of the flags of an entry
    suspendsLeft

entryVars == <<frame, domid, flags>>
savedVars == <<gnttab_pfns, gnttab_domids, gnttab_readonly_flags>>
localVars == <<byte, saw>>
grantVars == <<entryVars, savedVars, mapping, asked, gpc, gref, localVars,
          suspendsLeft>>

(* GnttabInit clears the copy; ExpandGrantTable invalidates the entries.   *)
EntryInit ==
    /\ frame = [r \in Ref |-> NoFrame]
    /\ domid = [r \in Ref |-> DOMID_INVALID]
    /\ flags = [r \in Ref |-> {}]
    /\ gnttab_pfns = [r \in Ref |-> NoFrame]
    /\ gnttab_domids = [r \in Ref |-> DOMID_INVALID]
    /\ gnttab_readonly_flags = {}
    /\ mapping = [r \in Ref |-> NoRequest]
    /\ asked = [r \in Ref |-> NoRequest]
    /\ gpc = [t \in Granter |-> "idle"]
    /\ gref \in [Granter -> Ref]
    /\ byte = [t \in Granter |-> {}]
    /\ saw = [t \in Granter |-> {}]
    /\ suspendsLeft = MaxSuspends

InUse(r) == \E t \in Granter : gpc[t] # "idle" /\ gref[t] = r

Step(t, from, to) ==
    /\ gpc[t] = from
    /\ gpc' = [gpc EXCEPT ![t] = to]
    /\ UNCHANGED <<gref, suspendsLeft>>
-----------------------------------------------------------------------------
(* GnttabGrantForeignAccessRef, on a reference that is not in use.         *)
GnttabGrantForeignAccessRef(t) ==
    \E r \in Ref, q \in Request :
        /\ gpc[t] = "idle"
        /\ asked[r] = NoRequest
        /\ ~InUse(r)
        /\ asked' = [asked EXCEPT ![r] = q]
        /\ gref' = [gref EXCEPT ![t] = r]
        /\ gpc' = [gpc EXCEPT ![t] = "frame"]
        /\ UNCHANGED <<entryVars, savedVars, mapping, localVars, suspendsLeft>>

WriteFrame(t) ==
    /\ Step(t, "frame", "domid")
    /\ frame' = [frame EXCEPT ![gref[t]] = asked[gref[t]].frame]
    /\ UNCHANGED <<domid, flags, savedVars, mapping, asked, localVars>>

WriteDomid(t) ==
    /\ Step(t, "domid", "pfns")
    /\ domid' = [domid EXCEPT ![gref[t]] = asked[gref[t]].domid]
    /\ UNCHANGED <<frame, flags, savedVars, mapping, asked, localVars>>

SaveFrame(t) ==
    /\ Step(t, "pfns", "domids")
    /\ gnttab_pfns' = [gnttab_pfns EXCEPT ![gref[t]] = asked[gref[t]].frame]
    /\ UNCHANGED <<entryVars, gnttab_domids, gnttab_readonly_flags, mapping,
                   asked, localVars>>

SaveDomid(t) ==
    /\ Step(t, "domids", "readByte")
    /\ gnttab_domids' = [gnttab_domids EXCEPT ![gref[t]] = asked[gref[t]].domid]
    /\ UNCHANGED <<entryVars, gnttab_pfns, gnttab_readonly_flags, mapping,
                   asked, localVars>>

(* The |= and the &= on a byte of gnttab_readonly_flags are a read and a   *)
(* write of eight references' bits.                                        *)
ByteMates(r) == {s \in Ref : ByteOf[s] = ByteOf[r]}

ReadByte(t) ==
    /\ Step(t, "readByte", "writeByte")
    /\ byte' = [byte EXCEPT ![t] = gnttab_readonly_flags \intersect
                                   ByteMates(gref[t])]
    /\ UNCHANGED <<entryVars, savedVars, mapping, asked, saw>>

(* The faulty variant leaves the bit of an earlier grant in place. *)
WriteByteOrOnly(t) ==
    /\ Step(t, "writeByte", "flags")
    /\ gnttab_readonly_flags' =
           (gnttab_readonly_flags \ ByteMates(gref[t])) \union byte[t]
               \union (IF asked[gref[t]].readonly THEN {gref[t]} ELSE {})
    /\ byte' = [byte EXCEPT ![t] = {}]
    /\ UNCHANGED <<entryVars, gnttab_pfns, gnttab_domids, mapping, asked, saw>>

WriteByte(t) ==
    /\ Step(t, "writeByte", "flags")
    /\ gnttab_readonly_flags' =
           (gnttab_readonly_flags \ ByteMates(gref[t]))
               \union (IF asked[gref[t]].readonly THEN byte[t] \union {gref[t]}
                                                 ELSE byte[t] \ {gref[t]})
    /\ byte' = [byte EXCEPT ![t] = {}]
    /\ UNCHANGED <<entryVars, gnttab_pfns, gnttab_domids, mapping, asked, saw>>

Permit(readonly) ==
    IF readonly THEN {"permit_access", "readonly"} ELSE {"permit_access"}

WriteFlags(t) ==
    /\ Step(t, "flags", "idle")
    /\ flags' = [flags EXCEPT ![gref[t]] = Permit(asked[gref[t]].readonly)]
    /\ UNCHANGED <<frame, domid, savedVars, mapping, asked, localVars>>
-----------------------------------------------------------------------------
(* GnttabEndForeignAccessRef, on a reference that is granted.              *)
GnttabEndForeignAccessRef(t) ==
    \E r \in Ref :
        /\ gpc[t] = "idle"
        /\ asked[r] # NoRequest
        /\ ~InUse(r)
        /\ gref' = [gref EXCEPT ![t] = r]
        /\ saw' = [saw EXCEPT ![t] = flags[r]]
        /\ gpc' = [gpc EXCEPT ![t] = "test"]
        /\ UNCHANGED <<entryVars, savedVars, mapping, asked, byte,
                       suspendsLeft>>

(* The body of the loop: the test, which returns STATUS_DEVICE_BUSY, and   *)
(* the InterlockedCompareExchange16.                                       *)
TestFlags(t) ==
    /\ IF saw[t] \intersect {"reading", "writing"} # {}
       THEN Step(t, "test", "idle") /\ saw' = [saw EXCEPT ![t] = {}]
       ELSE Step(t, "test", "exchange") /\ UNCHANGED saw
    /\ UNCHANGED <<entryVars, savedVars, mapping, asked, byte>>

(* The faulty variant stores without comparing. *)
StoreZero(t) ==
    /\ Step(t, "exchange", "endDomid")
    /\ flags' = [flags EXCEPT ![gref[t]] = {}]
    /\ saw' = [saw EXCEPT ![t] = {}]
    /\ UNCHANGED <<frame, domid, savedVars, mapping, asked, byte>>

CompareExchange(t) ==
    /\ IF flags[gref[t]] = saw[t]
       THEN /\ Step(t, "exchange", "endDomid")
            /\ flags' = [flags EXCEPT ![gref[t]] = {}]
            /\ saw' = [saw EXCEPT ![t] = {}]
       ELSE /\ Step(t, "exchange", "test")
            /\ saw' = [saw EXCEPT ![t] = flags[gref[t]]]
            /\ UNCHANGED flags
    /\ UNCHANGED <<frame, domid, savedVars, mapping, asked, byte>>

EndDomid(t) ==
    /\ Step(t, "endDomid", "endFrame")
    /\ domid' = [domid EXCEPT ![gref[t]] = DOMID_INVALID]
    /\ UNCHANGED <<frame, flags, savedVars, mapping, asked, localVars>>

(* The entry gets its own number for a frame, which stands for no frame.   *)
EndFrame(t) ==
    /\ Step(t, "endFrame", "endPfns")
    /\ frame' = [frame EXCEPT ![gref[t]] = NoFrame]
    /\ UNCHANGED <<domid, flags, savedVars, mapping, asked, localVars>>

(* The faulty variant keeps the saved frame. *)
KeepPfn(t) ==
    /\ Step(t, "endPfns", "endDomids")
    /\ UNCHANGED <<entryVars, savedVars, mapping, asked, localVars>>

ForgetPfn(t) ==
    /\ Step(t, "endPfns", "endDomids")
    /\ gnttab_pfns' = [gnttab_pfns EXCEPT ![gref[t]] = NoFrame]
    /\ UNCHANGED <<entryVars, gnttab_domids, gnttab_readonly_flags, mapping,
                   asked, localVars>>

(* The last statement, and the return of STATUS_SUCCESS. *)
ForgetDomid(t) ==
    /\ Step(t, "endDomids", "idle")
    /\ gnttab_domids' = [gnttab_domids EXCEPT ![gref[t]] = DOMID_INVALID]
    /\ asked' = [asked EXCEPT ![gref[t]] = NoRequest]
    /\ UNCHANGED <<entryVars, gnttab_pfns, gnttab_readonly_flags, mapping,
                   localVars>>
-----------------------------------------------------------------------------
(* A suspend, with the world stopped: a new grant table, backends that     *)
(* have lost what they had mapped, and _GnttabResume.                      *)
_GnttabResume ==
    LET saved == {r \in Ref : gnttab_pfns[r] # NoFrame}
        Restored(copy, new) ==
            [r \in Ref |-> IF r \in saved THEN copy[r] ELSE new]
    IN  /\ frame' = Restored(gnttab_pfns, NoFrame)
        /\ domid' = Restored(gnttab_domids, Dom0)
        /\ flags' = [r \in Ref |-> IF r \in saved
                                   THEN Permit(r \in gnttab_readonly_flags)
                                   ELSE {}]

Suspend ==
    /\ suspendsLeft > 0
    /\ suspendsLeft' = suspendsLeft - 1
    /\ \A t \in Granter : gpc[t] = "idle" \/ t \in Interruptible
    /\ _GnttabResume
    /\ mapping' = [r \in Ref |-> NoRequest]
    /\ UNCHANGED <<savedVars, asked, gpc, gref, localVars>>

(* Xen, when a backend maps a reference or unmaps it again. *)
Map(r, d) ==
    /\ "permit_access" \in flags[r]
    /\ domid[r] = d
    /\ mapping[r] = NoRequest
    /\ \E readonly \in BOOLEAN :
          /\ "readonly" \in flags[r] => readonly
          /\ mapping' = [mapping EXCEPT ![r] =
                 [frame |-> frame[r], domid |-> d, readonly |-> readonly]]
          /\ flags' = [flags EXCEPT ![r] = @ \union {"reading"} \union
                           IF readonly THEN {} ELSE {"writing"}]
    /\ UNCHANGED <<frame, domid, savedVars, asked, gpc, gref, localVars,
                   suspendsLeft>>

Unmap(r) ==
    /\ mapping[r] # NoRequest
    /\ mapping' = [mapping EXCEPT ![r] = NoRequest]
    /\ flags' = [flags EXCEPT ![r] = @ \ {"reading", "writing"}]
    /\ UNCHANGED <<frame, domid, savedVars, asked, gpc, gref, localVars,
                   suspendsLeft>>

Grant(t) ==
    \/ GnttabGrantForeignAccessRef(t)
    \/ WriteFrame(t)
    \/ WriteDomid(t)
    \/ SaveFrame(t)
    \/ SaveDomid(t)
    \/ ReadByte(t)
    \/ WriteByte(t)
    \/ WriteFlags(t)

End(t) ==
    \/ GnttabEndForeignAccessRef(t)
    \/ TestFlags(t)
    \/ CompareExchange(t)
    \/ EndDomid(t)
    \/ EndFrame(t)
    \/ ForgetPfn(t)
    \/ ForgetDomid(t)

EntryNext ==
    \/ \E t \in Granter : Grant(t) \/ End(t)
    \/ \E r \in Ref : Unmap(r) \/ \E d \in Domain : Map(r, d)
    \/ Suspend

EntrySpec == EntryInit /\ [][EntryNext]_grantVars
-----------------------------------------------------------------------------
EntryTypeOK ==
    /\ frame \in [Ref -> Frame \union {NoFrame}]
    /\ domid \in [Ref -> Domain \union {Dom0, DOMID_INVALID}]
    /\ flags \in [Ref -> SUBSET Flag]
    /\ gnttab_pfns \in [Ref -> Frame \union {NoFrame}]
    /\ gnttab_domids \in [Ref -> Domain \union {DOMID_INVALID}]
    /\ gnttab_readonly_flags \subseteq Ref
    /\ mapping \in [Ref -> [frame : Frame \union {NoFrame},
                            domid : Domain \union {DOMID_INVALID},
                            readonly : BOOLEAN]]
    /\ asked \in [Ref -> Request \union {NoRequest}]
    /\ gpc \in [Granter -> {"idle", "frame", "domid", "pfns", "domids",
                          "readByte", "writeByte", "flags", "test", "exchange",
                          "endDomid", "endFrame", "endPfns", "endDomids"}]
    /\ gref \in [Granter -> Ref]
    /\ byte \in [Granter -> SUBSET Ref]
    /\ saw \in [Granter -> SUBSET Flag]
    /\ suspendsLeft \in 0..MaxSuspends

(* A backend never has access that is not granted at that moment: the      *)
(* frame and the domain of a mapping are those of the request in force,    *)
(* and it is writable only if that is.  GnttabEndForeignAccess promises to *)
(* "stop any further accesses through the reference" (inc/xsapi.h:949) and *)
(* fails while one is left.                                                *)
AccessIsGranted ==
    \A r \in Ref :
        mapping[r] # NoRequest =>
            /\ mapping[r].frame = asked[r].frame
            /\ mapping[r].domid = asked[r].domid
            /\ asked[r].readonly => mapping[r].readonly

(* "GRANT_REFs are preserved across dom0-driver save/restore"              *)
(* (inc/xsapi.h:879): a grant that is made and not being ended is in the   *)
(* table as it was asked for, however many suspends have passed.           *)
GrantsPreserved ==
    \A r \in Ref :
        asked[r] # NoRequest /\ ~InUse(r) =>
            /\ frame[r] = asked[r].frame
            /\ domid[r] = asked[r].domid
            /\ flags[r] \ {"reading", "writing"} = Permit(asked[r].readonly)

(* A reference that has been given back permits nothing, and a suspend     *)
(* does not bring the old grant back.                                      *)
RevokedStaysRevoked ==
    \A r \in Ref :
        asked[r] = NoRequest => flags[r] = {} /\ mapping[r] = NoRequest
=============================================================================
