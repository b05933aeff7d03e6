------------------------- MODULE GnttabEntryProofs --------------------------
(***************************************************************************)
(* GnttabEntry for any threads, references, domains, frames and suspends,  *)
(* when its callers are at DISPATCH_LEVEL and no two references share a    *)
(* byte of gnttab_readonly_flags.  Both conditions are needed: the runs of *)
(* GnttabEntry show what happens without the second.                       *)
(*                                                                         *)
(* The invariant says what a reference looks like at rest, granted or not, *)
(* and at each statement of the one thread that may be working on it.      *)
(***************************************************************************)
EXTENDS GnttabEntry, TLAPS

Uninterrupted == Interruptible = {}
SeparateBits == \A r, s \in Ref : ByteOf[r] = ByteOf[s] => r = s

Quiet(r) == flags[r] = {} /\ mapping[r] = NoRequest

Entered(r) == frame[r] = asked[r].frame /\ domid[r] = asked[r].domid

Permitted(r) == flags[r] \ {"reading", "writing"} = Permit(asked[r].readonly)

Marked(r) == r \in gnttab_readonly_flags <=> asked[r].readonly = TRUE

Saved(r) ==
    /\ gnttab_pfns[r] = asked[r].frame
    /\ gnttab_domids[r] = asked[r].domid

Granted(r) == Entered(r) /\ Permitted(r) /\ Saved(r) /\ Marked(r)

(* A reference on which no thread is working. *)
Rest(r) ==
    IF asked[r] = NoRequest THEN Quiet(r) /\ gnttab_pfns[r] = NoFrame
                            ELSE Granted(r)

(* The reference of a thread that is at p. *)
At(t, p, r) ==
    /\ asked[r] # NoRequest
    /\ p \in {"test", "exchange"} => Granted(r)
    /\ p \notin {"test", "exchange"} => Quiet(r)
    /\ p = "domid" => frame[r] = asked[r].frame
    /\ p \in {"pfns", "domids", "readByte", "writeByte", "flags"} => Entered(r)
    /\ p = "domids" => gnttab_pfns[r] = asked[r].frame
    /\ p \in {"readByte", "writeByte", "flags"} => Saved(r)
    /\ p = "writeByte" => byte[t] \subseteq ByteMates(r)
    /\ p = "flags" => Marked(r)
    /\ p = "exchange" => saw[t] \intersect {"reading", "writing"} = {}
    /\ p = "endDomids" => gnttab_pfns[r] = NoFrame

Exclusive ==
    \A t, u \in Granter :
        gpc[t] # "idle" /\ gpc[u] # "idle" /\ gref[t] = gref[u] => t = u

(* A mapping is what was asked for, and shows in the flags. *)
Mapped(r) ==
    mapping[r] # NoRequest =>
        /\ "reading" \in flags[r]
        /\ mapping[r].frame = asked[r].frame
        /\ mapping[r].domid = asked[r].domid
        /\ asked[r].readonly => mapping[r].readonly

IInv ==
    /\ EntryTypeOK
    /\ Exclusive
    /\ \A t \in Granter : gpc[t] # "idle" => At(t, gpc[t], gref[t])
    /\ \A r \in Ref : ~InUse(r) => Rest(r)
    /\ \A r \in Ref : Mapped(r)
-----------------------------------------------------------------------------
LEMMA NoRequestIsNone ==
  /\ NoRequest \notin Request
  /\ NoRequest \in [frame : Frame \union {NoFrame},
                    domid : Domain \union {DOMID_INVALID},
                    readonly : BOOLEAN]
  BY EntryAssumption DEF NoRequest, Request, NoFrame

LEMMA TypeStep == EntryTypeOK /\ [EntryNext]_grantVars => EntryTypeOK'
<1> SUFFICES ASSUME EntryTypeOK, [EntryNext]_grantVars PROVE EntryTypeOK'
  OBVIOUS
<1> USE NoRequestIsNone DEF EntryTypeOK, entryVars, savedVars, localVars, Step
<1>1. ASSUME NEW t \in Granter, Grant(t) PROVE EntryTypeOK'
  <2>1. CASE GnttabGrantForeignAccessRef(t)
    BY <2>1 DEF GnttabGrantForeignAccessRef
  <2>2. CASE WriteFrame(t)
    BY <2>2 DEF WriteFrame, Request, NoRequest
  <2>3. CASE WriteDomid(t)
    BY <2>3 DEF WriteDomid, Request, NoRequest
  <2>4. CASE SaveFrame(t)
    BY <2>4 DEF SaveFrame, Request, NoRequest
  <2>5. CASE SaveDomid(t)
    BY <2>5 DEF SaveDomid, Request, NoRequest
  <2>6. CASE ReadByte(t)
    BY <2>6 DEF ReadByte
  <2>7. CASE WriteByte(t)
    BY <2>7 DEF WriteByte
  <2>8. CASE WriteFlags(t)
    BY <2>8 DEF WriteFlags, Permit, Flag
  <2> QED
    BY <1>1, <2>1, <2>2, <2>3, <2>4, <2>5, <2>6, <2>7, <2>8 DEF Grant
<1>2. ASSUME NEW t \in Granter, End(t) PROVE EntryTypeOK'
  <2>1. CASE GnttabEndForeignAccessRef(t)
    BY <2>1 DEF GnttabEndForeignAccessRef
  <2>2. CASE TestFlags(t)
    BY <2>2 DEF TestFlags
  <2>3. CASE CompareExchange(t)
    <3>1. CASE flags[gref[t]] = saw[t]
      BY <2>3, <3>1 DEF CompareExchange
    <3>2. CASE flags[gref[t]] # saw[t]
      <4>1. flags[gref[t]] \in SUBSET Flag
        OBVIOUS
      <4>2. saw' \in [Granter -> SUBSET Flag]
        BY <2>3, <3>2, <4>1 DEF CompareExchange
      <4> QED
        BY <2>3, <3>2, <4>2 DEF CompareExchange
    <3> QED
      BY <3>1, <3>2
  <2>4. CASE EndDomid(t)
    BY <2>4 DEF EndDomid
  <2>5. CASE EndFrame(t)
    BY <2>5 DEF EndFrame
  <2>6. CASE ForgetPfn(t)
    BY <2>6 DEF ForgetPfn
  <2>7. CASE ForgetDomid(t)
    BY <2>7 DEF ForgetDomid
  <2> QED
    BY <1>2, <2>1, <2>2, <2>3, <2>4, <2>5, <2>6, <2>7 DEF End
<1>3. ASSUME NEW r \in Ref, NEW d \in Domain, Map(r, d) PROVE EntryTypeOK'
  <2>1. PICK readonly \in BOOLEAN :
          /\ mapping' = [mapping EXCEPT ![r] =
                 [frame |-> frame[r], domid |-> d, readonly |-> readonly]]
          /\ flags' = [flags EXCEPT ![r] = @ \union {"reading"} \union
                           IF readonly THEN {} ELSE {"writing"}]
    BY <1>3, Zenon DEF Map
  <2> QED
    BY <1>3, <2>1 DEF Map, Flag
<1>4. ASSUME NEW r \in Ref, Unmap(r) PROVE EntryTypeOK'
  BY <1>4 DEF Unmap
<1>5. CASE Suspend
  <2>1. suspendsLeft' \in 0..MaxSuspends
    BY <1>5, EntryAssumption DEF Suspend
  <2>2. frame' \in [Ref -> Frame \union {NoFrame}]
    BY <1>5 DEF Suspend, _GnttabResume
  <2>3. domid' \in [Ref -> Domain \union {Dom0, DOMID_INVALID}]
    BY <1>5 DEF Suspend, _GnttabResume
  <2>4. flags' \in [Ref -> SUBSET Flag]
    BY <1>5 DEF Suspend, _GnttabResume, Permit, Flag
  <2> QED
    BY <1>5, <2>1, <2>2, <2>3, <2>4 DEF Suspend
<1>6. CASE UNCHANGED grantVars
  BY <1>6 DEF grantVars
<1> QED
  BY <1>1, <1>2, <1>3, <1>4, <1>5, <1>6 DEF EntryNext

LEMMA InitIInv == EntryInit => IInv
<1> SUFFICES ASSUME EntryInit PROVE IInv
  OBVIOUS
<1>1. EntryTypeOK
  BY NoRequestIsNone, EntryAssumption DEF EntryInit, EntryTypeOK
<1>2. \A r \in Ref : Rest(r) /\ Mapped(r)
  BY DEF EntryInit, Rest, Mapped, Quiet
<1> QED
  BY <1>1, <1>2 DEF EntryInit, IInv, Exclusive

(* The step changes nothing but the reference and the locals of t. *)
Elsewhere(t) ==
    /\ UNCHANGED mapping
    /\ \A s \in Ref \ {gref[t]} :
          /\ UNCHANGED <<frame[s], domid[s], flags[s], asked[s],
                         gnttab_pfns[s], gnttab_domids[s]>>
          /\ s \in gnttab_readonly_flags' <=> s \in gnttab_readonly_flags
    /\ \A u \in Granter \ {t} : UNCHANGED <<byte[u], saw[u]>>

(* A statement that a thread executes on its own reference: what remains   *)
(* to be shown is what it does to that reference.                          *)
LEMMA LocalStep ==
  ASSUME IInv, [EntryNext]_grantVars, NEW t \in Granter, NEW from, NEW to,
         Step(t, from, to), from # "idle",
         Elsewhere(t),
         to # "idle" => At(t, to, gref[t])',
         to = "idle" => Rest(gref[t])',
         Mapped(gref[t])'
  PROVE  IInv'
<1> DEFINE r == gref[t]
<1>0. /\ EntryTypeOK /\ EntryTypeOK' /\ r \in Ref /\ gref' = gref
      /\ gpc[t] = from /\ gpc'[t] = to
      /\ \A u \in Granter \ {t} : gpc'[u] = gpc[u]
  BY TypeStep DEF IInv, Step, EntryTypeOK
<1>1. Exclusive'
  BY <1>0 DEF IInv, Exclusive
<1>2. ASSUME NEW u \in Granter, gpc'[u] # "idle" PROVE At(u, gpc[u], gref[u])'
  <2>1. CASE u = t
    BY <1>0, <1>2, <2>1
  <2>2. CASE u # t
    <3>1. gref[u] \in Ref \ {r} /\ At(u, gpc[u], gref[u])
      BY <1>0, <1>2, <2>2 DEF IInv, Exclusive, EntryTypeOK
    <3> QED
      BY <1>0, <2>2, <3>1 DEF At, Granted, Quiet, Entered, Permitted, Saved,
                              Marked, Elsewhere
  <2> QED
    BY <2>1, <2>2
<1>3. ASSUME NEW s \in Ref, ~InUse(s)' PROVE Rest(s)'
  <2>1. CASE s = r
    BY <1>0, <1>3, <2>1 DEF InUse
  <2>2. CASE s # r
    <3>1. Rest(s)
      BY <1>0, <1>3, <2>2 DEF IInv, InUse
    <3> QED
      BY <2>2, <3>1 DEF Rest, Granted, Quiet, Entered, Permitted, Saved,
                        Marked, Elsewhere
  <2> QED
    BY <2>1, <2>2
<1>4. ASSUME NEW s \in Ref PROVE Mapped(s)'
  <2>1. CASE s = r
    BY <1>0, <2>1
  <2>2. CASE s # r
    BY <2>2 DEF IInv, Mapped, Elsewhere
  <2> QED
    BY <2>1, <2>2
<1> QED
  BY <1>0, <1>1, <1>2, <1>3, <1>4 DEF IInv

LEMMA GrantStatement ==
  ASSUME IInv, SeparateBits, NEW t \in Granter, Grant(t), EntryNext,
         ~GnttabGrantForeignAccessRef(t)
  PROVE  IInv'
<1> DEFINE r == gref[t]
<1>0. /\ r \in Ref /\ EntryTypeOK /\ Mapped(r)
      /\ gpc[t] # "idle" => At(t, gpc[t], r)
  BY DEF IInv, EntryTypeOK
<1> USE <1>0
<1>1. CASE WriteFrame(t)
  <2>1. Step(t, "frame", "domid") /\ At(t, "domid", gref[t])'
    BY <1>1 DEF WriteFrame, Step, savedVars, localVars, At, Quiet,
                EntryTypeOK
  <2>2. Elsewhere(t) /\ Mapped(gref[t])'
    BY <1>1 DEF WriteFrame, Step, savedVars, localVars, Elsewhere, Mapped, EntryTypeOK
  <2> QED
    BY <2>1, <2>2, LocalStep
<1>2. CASE WriteDomid(t)
  <2>1. Step(t, "domid", "pfns") /\ At(t, "pfns", gref[t])'
    BY <1>2 DEF WriteDomid, Step, savedVars, localVars, At, Quiet,
                Entered, EntryTypeOK
  <2>2. Elsewhere(t) /\ Mapped(gref[t])'
    BY <1>2 DEF WriteDomid, Step, savedVars, localVars, Elsewhere, Mapped, EntryTypeOK
  <2> QED
    BY <2>1, <2>2, LocalStep
<1>3. CASE SaveFrame(t)
  <2>1. Step(t, "pfns", "domids") /\ At(t, "domids", gref[t])'
    BY <1>3 DEF SaveFrame, Step, entryVars, localVars, At, Quiet,
                Entered, EntryTypeOK
  <2>2. Elsewhere(t) /\ Mapped(gref[t])'
    BY <1>3 DEF SaveFrame, Step, entryVars, localVars, Elsewhere, Mapped, EntryTypeOK
  <2> QED
    BY <2>1, <2>2, LocalStep
<1>4. CASE SaveDomid(t)
  <2>1. Step(t, "domids", "readByte") /\ At(t, "readByte", gref[t])'
    BY <1>4 DEF SaveDomid, Step, entryVars, localVars, At, Quiet,
                Entered, Saved, EntryTypeOK
  <2>2. Elsewhere(t) /\ Mapped(gref[t])'
    BY <1>4 DEF SaveDomid, Step, entryVars, localVars, Elsewhere, Mapped, EntryTypeOK
  <2> QED
    BY <2>1, <2>2, LocalStep
<1>5. CASE ReadByte(t)
  <2>1. Step(t, "readByte", "writeByte") /\ At(t, "writeByte", gref[t])'
    BY <1>5 DEF ReadByte, Step, entryVars, savedVars, At, Quiet,
                Entered, Saved, EntryTypeOK
  <2>2. Elsewhere(t) /\ Mapped(gref[t])'
    BY <1>5 DEF ReadByte, Step, entryVars, savedVars, Elsewhere, Mapped, EntryTypeOK
  <2> QED
    BY <2>1, <2>2, LocalStep
<1>6. CASE WriteByte(t)
  <2>1. ByteMates(r) = {r}
    BY DEF ByteMates, SeparateBits
  <2>2. Marked(gref[t])'
    <3>1. CASE asked[r].readonly
      BY <1>6, <3>1 DEF WriteByte, Step, Marked, EntryTypeOK, Request, NoRequest
    <3>2. CASE ~asked[r].readonly
      BY <1>6, <2>1, <3>2 DEF WriteByte, Step, Marked
    <3> QED
      BY <3>1, <3>2
  <2>3. Step(t, "writeByte", "flags") /\ At(t, "flags", gref[t])'
    BY <1>6, <2>2 DEF WriteByte, Step, entryVars, At, Quiet, Entered, Saved,
                      EntryTypeOK
  <2>4. byte[t] \subseteq {r}
    BY <1>6, <2>1 DEF WriteByte, Step, At
  <2>5. Elsewhere(t) /\ Mapped(gref[t])'
    BY <1>6, <2>1, <2>4
    DEF WriteByte, Step, entryVars, Elsewhere, Mapped, EntryTypeOK
  <2> QED
    BY <2>3, <2>5, LocalStep
<1>7. CASE WriteFlags(t)
  <2>1. Permitted(gref[t])'
    BY <1>7 DEF WriteFlags, Step, Permitted, Permit, EntryTypeOK
  <2>2. Step(t, "flags", "idle") /\ Rest(gref[t])'
    BY <1>7, <2>1
    DEF WriteFlags, Step, savedVars, localVars, At, Rest, Granted, Marked,
        Entered, Saved, EntryTypeOK
  <2>3. Elsewhere(t) /\ Mapped(gref[t])'
    BY <1>7 DEF WriteFlags, Step, savedVars, localVars, Elsewhere, Mapped,
                At, Quiet, EntryTypeOK
  <2> QED
    BY <2>2, <2>3, LocalStep
<1> QED
  BY <1>1, <1>2, <1>3, <1>4, <1>5, <1>6, <1>7 DEF Grant

LEMMA EndStatement ==
  ASSUME IInv, NEW t \in Granter, End(t), EntryNext, ~GnttabEndForeignAccessRef(t)
  PROVE  IInv'
<1> DEFINE r == gref[t]
<1>0. /\ r \in Ref /\ EntryTypeOK /\ Mapped(r)
      /\ gpc[t] # "idle" => At(t, gpc[t], r)
  BY DEF IInv, EntryTypeOK
<1> USE <1>0
<1>1. CASE TestFlags(t)
  <2>1. /\ Granted(gref[t])' /\ asked'[gref'[t]] # NoRequest
        /\ saw' # saw => gpc'[t] = "idle"
    BY <1>1 DEF TestFlags, Step, entryVars, savedVars, Granted, Entered,
                Permitted, Saved, Marked, At, EntryTypeOK
  <2>2. Elsewhere(t) /\ Mapped(gref[t])'
    BY <1>1
    DEF TestFlags, Step, entryVars, savedVars, Elsewhere, Mapped, EntryTypeOK
  <2>3. CASE saw[t] \intersect {"reading", "writing"} # {}
    <3>1. Step(t, "test", "idle") /\ Rest(gref[t])'
      BY <1>1, <2>1, <2>3 DEF TestFlags, Rest
    <3> QED
      BY <2>2, <3>1, LocalStep
  <2>4. CASE saw[t] \intersect {"reading", "writing"} = {}
    <3>1. Step(t, "test", "exchange") /\ At(t, "exchange", gref[t])'
      BY <1>1, <2>1, <2>4 DEF TestFlags, At
    <3> QED
      BY <2>2, <3>1, LocalStep
  <2> QED
    BY <2>3, <2>4
<1>2. CASE CompareExchange(t)
  <2>1. CASE flags[r] = saw[t]
    <3>1. mapping[r] = NoRequest
      BY <1>2, <2>1 DEF CompareExchange, Step, Mapped, At
    <3>2. Step(t, "exchange", "endDomid") /\ asked[r] # NoRequest
      BY <1>2, <2>1 DEF CompareExchange, Step, At
    <3>3. Quiet(gref[t])' /\ UNCHANGED <<asked, gref>>
      BY <1>2, <2>1, <3>1 DEF CompareExchange, Step, Quiet, EntryTypeOK
    <3>4. At(t, "endDomid", gref[t])'
      BY <3>2, <3>3 DEF At
    <3>5. Elsewhere(t) /\ Mapped(gref[t])'
      BY <1>2, <2>1, <3>1
      DEF CompareExchange, Step, savedVars, Elsewhere, Mapped, EntryTypeOK
    <3> QED
      BY <3>2, <3>4, <3>5, LocalStep
  <2>2. CASE flags[r] # saw[t]
    <3>1. Step(t, "exchange", "test") /\ At(t, "test", gref[t])'
      BY <1>2, <2>2 DEF CompareExchange, Step, savedVars, Granted, Entered,
                        Permitted, Saved, Marked, At, EntryTypeOK
    <3>2. Elsewhere(t) /\ Mapped(gref[t])'
      BY <1>2, <2>2
      DEF CompareExchange, Step, savedVars, Elsewhere, Mapped, EntryTypeOK
    <3> QED
      BY <3>1, <3>2, LocalStep
  <2> QED
    BY <2>1, <2>2
<1>3. CASE EndDomid(t)
  <2>1. Step(t, "endDomid", "endFrame") /\ At(t, "endFrame", gref[t])'
    BY <1>3 DEF EndDomid, Step, savedVars, localVars, At, Quiet,
                EntryTypeOK
  <2>2. Elsewhere(t) /\ Mapped(gref[t])'
    BY <1>3 DEF EndDomid, Step, savedVars, localVars, Elsewhere, Mapped, EntryTypeOK
  <2> QED
    BY <2>1, <2>2, LocalStep
<1>4. CASE EndFrame(t)
  <2>1. Step(t, "endFrame", "endPfns") /\ At(t, "endPfns", gref[t])'
    BY <1>4 DEF EndFrame, Step, savedVars, localVars, At, Quiet,
                EntryTypeOK
  <2>2. Elsewhere(t) /\ Mapped(gref[t])'
    BY <1>4 DEF EndFrame, Step, savedVars, localVars, Elsewhere, Mapped, EntryTypeOK
  <2> QED
    BY <2>1, <2>2, LocalStep
<1>5. CASE ForgetPfn(t)
  <2>1. Step(t, "endPfns", "endDomids") /\ At(t, "endDomids", gref[t])'
    BY <1>5 DEF ForgetPfn, Step, entryVars, localVars, At, Quiet,
                EntryTypeOK
  <2>2. Elsewhere(t) /\ Mapped(gref[t])'
    BY <1>5 DEF ForgetPfn, Step, entryVars, localVars, Elsewhere, Mapped, EntryTypeOK
  <2> QED
    BY <2>1, <2>2, LocalStep
<1>6. CASE ForgetDomid(t)
  <2>1. Step(t, "endDomids", "idle") /\ Rest(gref[t])'
    BY <1>6 DEF ForgetDomid, Step, entryVars, localVars, At, Quiet,
                Rest, EntryTypeOK
  <2>2. Elsewhere(t) /\ Mapped(gref[t])'
    BY <1>6 DEF ForgetDomid, Step, entryVars, localVars, Elsewhere, Mapped,
                At, Quiet, EntryTypeOK
  <2> QED
    BY <2>1, <2>2, LocalStep
<1> QED
  BY <1>1, <1>2, <1>3, <1>4, <1>5, <1>6 DEF End

(* A call begins on a reference that nobody is working on. *)
LEMMA BeginCall ==
  ASSUME IInv, EntryNext, NEW t \in Granter,
         GnttabGrantForeignAccessRef(t) \/ GnttabEndForeignAccessRef(t)
  PROVE  IInv'
<1>0. EntryTypeOK /\ EntryTypeOK' /\ gpc[t] = "idle"
  BY TypeStep DEF IInv, GnttabGrantForeignAccessRef, GnttabEndForeignAccessRef
<1>1. PICK r \in Ref :
        /\ ~InUse(r) /\ gref' = [gref EXCEPT ![t] = r]
        /\ UNCHANGED <<frame, domid, flags, gnttab_pfns, gnttab_domids,
                       gnttab_readonly_flags, mapping, byte>>
        /\ \A s \in Ref \ {r} : UNCHANGED asked[s]
        /\ \A u \in Granter \ {t} : UNCHANGED saw[u]
        /\ \/ /\ gpc' = [gpc EXCEPT ![t] = "frame"]
              /\ asked[r] = NoRequest /\ asked'[r] \in Request
           \/ /\ gpc' = [gpc EXCEPT ![t] = "test"]
              /\ asked[r] # NoRequest /\ asked' = asked
  <2>1. CASE GnttabGrantForeignAccessRef(t)
    <3>1. PICK r \in Ref, q \in Request :
            /\ asked[r] = NoRequest /\ ~InUse(r)
            /\ asked' = [asked EXCEPT ![r] = q]
            /\ gref' = [gref EXCEPT ![t] = r]
            /\ gpc' = [gpc EXCEPT ![t] = "frame"]
            /\ UNCHANGED <<entryVars, savedVars, mapping, localVars>>
      BY <2>1 DEF GnttabGrantForeignAccessRef
    <3>2. asked'[r] = q /\ \A s \in Ref \ {r} : UNCHANGED asked[s]
      BY <1>0, <3>1 DEF EntryTypeOK
    <3> WITNESS r \in Ref
    <3> QED
      BY <3>1, <3>2 DEF entryVars, savedVars, localVars
  <2>2. CASE GnttabEndForeignAccessRef(t)
    BY <1>0, <2>2 DEF GnttabEndForeignAccessRef, entryVars, savedVars, EntryTypeOK
  <2> QED
    BY <2>1, <2>2
<1>2. /\ gpc'[t] # "idle" /\ gref'[t] = r
      /\ \A u \in Granter \ {t} : gpc'[u] = gpc[u] /\ gref'[u] = gref[u]
      /\ \A u \in Granter : gpc[u] # "idle" => gref[u] # r
  BY <1>0, <1>1 DEF EntryTypeOK, InUse
<1>3. Exclusive'
  BY <1>2 DEF IInv, Exclusive
<1>4. At(t, gpc[t], gref[t])'
  <2>1. Rest(r)
    BY <1>1 DEF IInv
  <2> QED
    BY <1>0, <1>1, <1>2, <2>1, NoRequestIsNone
    DEF At, Rest, Quiet, Granted, Entered, Permitted, Saved, Marked, EntryTypeOK
<1>5. ASSUME NEW u \in Granter, gpc'[u] # "idle", u # t
      PROVE  At(u, gpc[u], gref[u])'
  <2>1. gref[u] \in Ref \ {r} /\ At(u, gpc[u], gref[u])
    BY <1>0, <1>2, <1>5 DEF IInv, EntryTypeOK
  <2>2. /\ UNCHANGED <<gpc[u], gref[u], byte[u], saw[u], asked[gref[u]]>>
        /\ UNCHANGED <<frame, domid, flags, gnttab_pfns, gnttab_domids,
                       gnttab_readonly_flags, mapping>>
    BY <1>1, <1>2, <1>5, <2>1
  <2> QED
    BY <2>1, <2>2 DEF At, Quiet, Granted, Entered, Permitted, Saved, Marked
<1>6. ASSUME NEW s \in Ref, ~InUse(s)' PROVE Rest(s)'
  <2>1. s # r /\ Rest(s)
    BY <1>0, <1>2, <1>6 DEF IInv, InUse
  <2> QED
    BY <1>1, <2>1 DEF Rest, Quiet, Granted, Entered, Permitted, Saved, Marked
<1>7. ASSUME NEW s \in Ref PROVE Mapped(s)'
  <2>1. CASE s = r
    BY <1>1, <2>1 DEF IInv, Mapped, Rest, Quiet
  <2>2. CASE s # r
    BY <1>1, <2>2 DEF IInv, Mapped
  <2> QED
    BY <2>1, <2>2
<1> QED
  BY <1>0, <1>3, <1>4, <1>5, <1>6, <1>7 DEF IInv

LEMMA MapStep ==
  ASSUME IInv, EntryNext, NEW r \in Ref, NEW d, Map(r, d) \/ Unmap(r)
  PROVE  IInv'
<1>0. /\ EntryTypeOK /\ EntryTypeOK'
      /\ UNCHANGED <<frame, domid, savedVars, asked, gpc, gref, localVars>>
      /\ \A s \in Ref \ {r} : UNCHANGED <<flags[s], mapping[s]>>
  BY TypeStep DEF IInv, Map, Unmap, EntryTypeOK
<1> USE DEF savedVars, localVars
<1>1. flags[r] # {} /\ asked[r] # NoRequest /\ Granted(r)
  <2>1. flags[r] # {}
    BY DEF Map, Unmap, IInv, Mapped
  <2>2. CASE InUse(r)
    BY <2>1, <2>2 DEF InUse, IInv, At, Quiet
  <2>3. CASE ~InUse(r)
    BY <2>1, <2>3 DEF IInv, Rest, Quiet
  <2> QED
    BY <2>1, <2>2, <2>3
<1>2. Granted(r)'
  <2>1. flags'[r] \ {"reading", "writing"} = flags[r] \ {"reading", "writing"}
    BY <1>0 DEF Map, Unmap, EntryTypeOK
  <2> QED
    BY <1>0, <1>1, <2>1 DEF Granted, Entered, Permitted, Saved, Marked
<1>3. ASSUME NEW u \in Granter, gpc'[u] # "idle" PROVE At(u, gpc[u], gref[u])'
  <2>1. At(u, gpc[u], gref[u]) /\ gref[u] \in Ref
    BY <1>0, <1>3 DEF IInv, EntryTypeOK
  <2>2. CASE gref[u] = r
    BY <1>0, <1>1, <1>2, <2>1, <2>2 DEF At, Quiet
  <2>3. CASE gref[u] # r
    BY <1>0, <2>1, <2>3
    DEF At, Quiet, Granted, Entered, Permitted, Saved, Marked
  <2> QED
    BY <2>2, <2>3
<1>4. ASSUME NEW s \in Ref, ~InUse(s)' PROVE Rest(s)'
  <2>1. Rest(s)
    BY <1>0, <1>4 DEF IInv, InUse
  <2>2. CASE s = r
    BY <1>0, <1>1, <1>2, <2>2 DEF Rest
  <2>3. CASE s # r
    BY <1>0, <2>1, <2>3
    DEF Rest, Quiet, Granted, Entered, Permitted, Saved, Marked
  <2> QED
    BY <2>2, <2>3
<1>5. Mapped(r)'
  <2>1. CASE Unmap(r)
    BY <1>0, <2>1 DEF Unmap, Mapped, EntryTypeOK
  <2>2. CASE Map(r, d)
    <3>1. PICK readonly \in BOOLEAN :
            /\ "readonly" \in flags[r] => readonly
            /\ mapping' = [mapping EXCEPT ![r] =
                   [frame |-> frame[r], domid |-> d, readonly |-> readonly]]
            /\ flags' = [flags EXCEPT ![r] = @ \union {"reading"} \union
                             IF readonly THEN {} ELSE {"writing"}]
      BY <2>2, Zenon DEF Map
    <3>2. asked[r].readonly => "readonly" \in flags[r]
      BY <1>1 DEF Granted, Permitted, Permit
    <3>3. mapping'[r] = [frame |-> frame[r], domid |-> d, readonly |-> readonly]
      BY <1>0, <3>1 DEF EntryTypeOK
    <3>4. "reading" \in flags'[r]
      BY <1>0, <3>1 DEF EntryTypeOK
    <3>5. frame[r] = asked[r].frame /\ d = asked[r].domid
      BY <1>1, <2>2 DEF Granted, Entered, Map
    <3> QED
      BY <1>0, <3>1, <3>2, <3>3, <3>4, <3>5 DEF Mapped
  <2> QED
    BY <2>1, <2>2
<1>6. ASSUME NEW s \in Ref PROVE Mapped(s)'
  BY <1>0, <1>5 DEF IInv, Mapped
<1> QED
  BY <1>0, <1>3, <1>4, <1>6 DEF IInv, Exclusive

(* Callers at DISPATCH_LEVEL are not in the middle of anything when a      *)
(* suspend comes, so every reference is at rest and _GnttabResume writes   *)
(* the grants that were asked for, or nothing.                             *)
LEMMA SuspendStep ==
  ASSUME Uninterrupted, IInv, EntryNext, Suspend
  PROVE  IInv'
<1>0. EntryTypeOK /\ EntryTypeOK'
  BY TypeStep DEF IInv
<1>1. /\ \A t \in Granter : gpc[t] = "idle"
      /\ UNCHANGED <<gnttab_pfns, gnttab_domids, gnttab_readonly_flags, asked,
                     gpc, gref, byte, saw>>
      /\ mapping' = [r \in Ref |-> NoRequest]
  BY DEF Suspend, Uninterrupted, savedVars, localVars
<1>2. ASSUME NEW r \in Ref PROVE Rest(r)'
  <2>1. Rest(r)
    BY <1>1 DEF IInv, InUse
  <2>2. CASE asked[r] = NoRequest
    BY <1>1, <2>1, <2>2 DEF Suspend, _GnttabResume, Rest, Quiet
  <2>3. CASE asked[r] # NoRequest
    <3>1. Granted(r) /\ asked[r] \in Request
      BY <1>0, <2>1, <2>3 DEF Rest, EntryTypeOK
    <3>2. gnttab_pfns[r] # NoFrame
      BY <3>1, EntryAssumption DEF Granted, Saved, Request
    <3>3. /\ frame'[r] = gnttab_pfns[r]
          /\ domid'[r] = gnttab_domids[r]
          /\ flags'[r] = Permit(r \in gnttab_readonly_flags)
      BY <3>2 DEF Suspend, _GnttabResume
    <3>4. flags'[r] = Permit(asked[r].readonly)
      BY <3>1, <3>3 DEF Granted, Marked, Permit, Request
    <3>5. Permitted(r)'
      BY <1>1, <3>4 DEF Permitted, Permit
    <3> QED
      BY <1>1, <2>3, <3>1, <3>3, <3>5
      DEF Rest, Granted, Entered, Saved, Marked
  <2> QED
    BY <2>2, <2>3
<1>3. ASSUME NEW r \in Ref PROVE Mapped(r)'
  BY <1>1 DEF Mapped
<1> QED
  BY <1>0, <1>1, <1>2, <1>3 DEF IInv, Exclusive

LEMMA NextIInv ==
  ASSUME Uninterrupted, SeparateBits, IInv, [EntryNext]_grantVars
  PROVE  IInv'
<1>1. ASSUME EntryNext, NEW t \in Granter, Grant(t) PROVE IInv'
  BY <1>1, BeginCall, GrantStatement DEF Grant
<1>2. ASSUME EntryNext, NEW t \in Granter, End(t) PROVE IInv'
  BY <1>2, BeginCall, EndStatement DEF End
<1>3. ASSUME EntryNext, NEW r \in Ref, Unmap(r) PROVE IInv'
  BY <1>3, MapStep
<1>4. ASSUME EntryNext, NEW r \in Ref, NEW d \in Domain, Map(r, d) PROVE IInv'
  BY <1>4, MapStep
<1>5. ASSUME EntryNext, Suspend PROVE IInv'
  BY <1>5, SuspendStep
<1>6. CASE UNCHANGED grantVars
  <2>1. UNCHANGED <<frame, domid, flags, gnttab_pfns, gnttab_domids,
                    gnttab_readonly_flags, mapping, asked, gpc, gref, byte, saw>>
    BY <1>6 DEF grantVars, entryVars, savedVars, localVars
  <2>2. EntryTypeOK' /\ Exclusive' /\ \A r \in Ref : Mapped(r)'
    BY <2>1, TypeStep DEF IInv, Exclusive, Mapped
  <2>3. \A t \in Granter : gpc'[t] # "idle" => At(t, gpc[t], gref[t])'
    BY <2>1 DEF IInv, At, Quiet, Entered, Permitted, Marked, Saved, Granted
  <2>4. \A r \in Ref : ~InUse(r)' => Rest(r)'
    BY <2>1 DEF IInv, InUse, Rest, Quiet, Entered, Permitted, Marked, Saved,
                Granted
  <2> QED
    BY <2>2, <2>3, <2>4 DEF IInv
<1> QED
  BY <1>1, <1>2, <1>3, <1>4, <1>5, <1>6 DEF EntryNext
-----------------------------------------------------------------------------
(* The table, its copy and the locals of gnttab.c keep their types whoever *)
(* calls, at whatever IRQL and with whatever layout of the readonly bits.  *)
THEOREM TypeCorrect == EntrySpec => []EntryTypeOK
<1>1. EntryInit => EntryTypeOK
  BY EntryAssumption, NoRequestIsNone
  DEF EntryInit, EntryTypeOK, NoFrame, DOMID_INVALID, Flag
<1> QED
  BY <1>1, TypeStep, PTL DEF EntrySpec

(* When GnttabGrantForeignAccessRef and GnttabEndForeignAccessRef are      *)
(* called at DISPATCH_LEVEL and no two references share a byte of          *)
(* gnttab_readonly_flags, every reference is always in the state that the  *)
(* last call on it, or the statement the current one has reached, left.    *)
THEOREM Invariance ==
  ASSUME Uninterrupted, SeparateBits
  PROVE  EntrySpec => []IInv
<1>1. EntryInit => IInv
  BY InitIInv
<1>2. IInv /\ [EntryNext]_grantVars => IInv'
  BY NextIInv
<1> QED
  BY <1>1, <1>2, PTL DEF EntrySpec

(* Under the same conditions a backend only has the access that is granted *)
(* at that moment: GnttabEndForeignAccessRef succeeds only when the        *)
(* compare-and-exchange finds no mapping, and nothing maps later.          *)
THEOREM AccessIsAlwaysGranted ==
  ASSUME Uninterrupted, SeparateBits
  PROVE  EntrySpec => []AccessIsGranted
<1>1. IInv => AccessIsGranted
  BY DEF IInv, Mapped, AccessIsGranted
<1> QED
  BY <1>1, Invariance, PTL

(* Under the same conditions every grant that is in force is in the table  *)
(* as it was asked for, after any number of runs of GnttabResume.          *)
THEOREM GrantsArePreserved ==
  ASSUME Uninterrupted, SeparateBits
  PROVE  EntrySpec => []GrantsPreserved
<1>1. IInv => GrantsPreserved
  BY DEF IInv, Rest, Granted, Entered, Permitted, GrantsPreserved
<1> QED
  BY <1>1, Invariance, PTL

(* Under the same conditions a reference whose grant has been ended        *)
(* permits nothing, and no run of GnttabResume revives it.                 *)
THEOREM RevokedIsFinal ==
  ASSUME Uninterrupted, SeparateBits
  PROVE  EntrySpec => []RevokedStaysRevoked
<1>1. ASSUME IInv, NEW r \in Ref, asked[r] = NoRequest PROVE Quiet(r)
  <2>1. ~InUse(r)
    BY <1>1 DEF InUse, IInv, At
  <2> QED
    BY <1>1, <2>1 DEF IInv, Rest
<1>2. IInv => RevokedStaysRevoked
  BY <1>1 DEF RevokedStaysRevoked, Quiet
<1> QED
  BY <1>2, Invariance, PTL
=============================================================================
