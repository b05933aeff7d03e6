# Verification of the Xen PV drivers for Windows

This directory holds TLA+ models of the parts of the drivers in which several
actors share state: the library `xenutil`, which every driver links to. Each
module is a translation of C code, TLC checks it on a small instance, and TLAPS
proves the most important results for every instance. `PROJECT.json` lists the
components, the runs, the source lines behind every definition, the hazards
and the theorems.

## The system

The repository holds the paravirtual drivers of a Windows guest under Xen.

| Part | Source | State |
|---|---|---|
| Quiescing the processors | `xenutil/suspend.c` 74-430 | modelled, proved |
| Suspend thread, handlers, tokens | `xenutil/suspend.c` 432-996, `xenutil/thread.c` | modelled, main result proved |
| Grant table, references and caches | `xenutil/gnttab.c` | modelled, main results proved |
| Grant table, entries across a suspend | `xenutil/gnttab.c` | modelled, proved |
| Event channel ports | `xenutil/evtchn.c` | partly modelled |
| Xenbus client | `xenutil/xenbus.c` (2889 lines) | planned |
| Balloon, range sets, work items, remote grants, I/O hole | `xenutil/balloon.c`, `rangeset.c`, `work.c`, `gntmap.c`, `iohole.c` | planned |
| V2V streams, V4V | `xenevtchn/v2v*.c`, `xenv4v/` | planned |
| Block frontend, SCSI filter | `xenvbd/`, `scsifilt/` | planned: handshake and suspend |
| User space access to xenstore | `xenevtchn/user.c` | planned, after Xenbus |
| Plug and play, power, DMA | `xenevtchn/` | not modelled: driven by the I/O manager |
| Network, graphics, audio, input | `net/`, `wnet/`, `xengfx/`, `xenvesa/`, `xenaud/`, `input/` | not modelled: plumbing around device data |
| Austere mode, diagnostics, logging, registry, hypercall set-up | `xenutil/` | not modelled: sequential, or text |
| User space agents, samples, installers | `xenuser/`, `samples/`, `sockpipe/`, `installdriver/` and others | not modelled: sequential clients |

How the modelled parts interact: dom0 asks for a suspend by writing
`control/shutdown`. The suspend thread wakes, checks that no suspend token is
out, runs the pre-suspend handlers, stops every other processor with
`QuiesceSystem`, makes the suspend hypercall and, still alone, runs the early
handlers: the grant table is restored from its copy and every event channel
port is bound again. Then the processors go on and the late handlers run.
`Quiesce` shows that the middle of this is atomic. `Suspend`, `GnttabEntry` and
`Evtchn` use that: the suspend is one step in each of them, guarded by what the
quiesce lets finish first (DPCs, interrupts, and threads at `DISPATCH_LEVEL`
or above).

## Modules

### `StopTheWorld` and `Quiesce`

`StopTheWorld` is the promise of `QuiesceSystem` in the comment above it: when
the caller has it, nothing else runs. `Quiesce` is the code: the initiator
queues a DPC on every other processor, all count `processorCount` down with
interrupts off, and a processor that has waited for too long counts itself
back in, lowers its IRQL and tries again. Each read, interlocked operation and
change of IRQL is a step. Windows' synchronous IPIs are the environment: a
processor that waits for one makes progress only if the others take it, which
is the deadlock that the timeout is for.

`irql`, `dpcQueued` and the IPIs are the hardware; `phase`, the two spin counts,
`processorCount` and `frame` (is the initiator's stack frame still there?) are
the program's. A `Quiesced` state of the initiator maps to `holding`.

### `Suspend`

`tpc` is the suspend thread, `cpc` the clients that allocate and release
tokens, and `launcher`, `worker` and `killer` are the three routines that start
and stop the thread. Each access to the idle event, to `suspend_thread` and to
the token list is a step, because no lock covers them together. The handler
list, its marking and its walk are modelled with the lock dropped around each
call, as in `InvokeSuspendHandlers`. The watch on `control/shutdown`
(`Dom0Request`, `DeliverWatch`) is external.

### `GnttabPool`

Which list each reference is on: the free list, a cache, or with a user. The
lists are linked through one array, `gnttab_list`, with the reference's cache
encoded in the `GRANT_REF` (`wrap_GRANT_REF`). Threads are at a place inside
`get_free_entry`, `put_free_entry`, `ReplenishCache` or `TrimCache`; the lock
and its owner are explicit, so that a release by the wrong thread shows. Each
step is what lies between two accesses to `gnttab_lock` or to the shared list.

### `GnttabEntry`

What a grant does: the statements of `GnttabGrantForeignAccessRef` and of
`GnttabEndForeignAccessRef` one by one, in the table that the remote domain
reads and in the copies for a resume. The remote domain maps and unmaps at any
time (`Map`, `Unmap`, external). `gnttab_readonly_flags` packs eight references
into a byte; `ByteOf` says which share one, and `|=` is a read and a write.
The constant `Interruptible` is the set of threads that call below
`DISPATCH_LEVEL`, which a suspend can stop half way.

### `Evtchn`

The bits that Xen shares with the guest (`pending`, `mask`, `sel`, `upcall`), the
interrupt handler on CPU 0 (`ipc`), the DPC that it preempts (`dpc`), and a
thread for each port that allocates, raises, masks, unmasks, stops and closes
it (`ppc`). Each access to a shared word is a step. Xen's part is external.
`Suspend` gives every listed port a new number and forgets what was pending.
The last branch of `EvtchnRaiseLocally`, which masks a DPC port again, is reached
only in the run `evtchn_raise`.

Abstractions: one selector word; the order in which ports are scanned is free;
the classes of ports are DPC and other. Assumptions, both recorded as hazards:
Xen does not give a number away while `EvtchnPortStop` still waits for its last
user (`Released`), and owners keep suspends off while they allocate or raise.

## Runs

The passing runs:

| Run | Instance | What it shows |
|---|---|---|
| `quiesce` | 3 processors, 2 IPIs, 2 timeouts | the exclusion, the lifetime of the frame, the assertions, no bump from zero, the refinement of `StopTheWorld`, and that a quiesce completes |
| `suspend` | 1 client, 2 handlers, from before the launch of the thread; xenbus may fail, memory may run out | a token that was waited for holds off the suspend; the handler passes are consistent |
| `suspend_live` | 2 clients, 2 requests, a running thread | a deferred suspend happens, allocations return |
| `gnttab_pool` | 2 threads, one with a cache; 2 frames of 3 entries | the lock discipline, lists and counts, each reference in one place, the minimum population |
| `gnttab_pool_empty` | 2 threads, no cache, expansion may fail | the same on the error path |
| `gnttab_entry` | 2 threads, 2 references in separate bytes, 2 domains, 2 frames, 2 suspends | access only as granted, grants survive, revocations too |
| `evtchn` | a DPC port and an ordinary port, 2 Xen numbers, 3 events, 1 suspend | lifetime, `insert_count`, assertions, no stranded event, delivery, stops return |

The runs that find a document and the code in disagreement, each with an entry
in "findings":

| Run | What TLC finds |
|---|---|
| `suspend_unregister` | a handler runs after `EvtchnUnregisterSuspendHandler` has returned |
| `suspend_anonymous` | releasing an anonymous token increments their count, and no suspend happens again |
| `gnttab_pool_full` | `get_free_entry` releases its caller's lock when the table is full |
| `gnttab_entry_byte` | two grants whose references share a byte of `gnttab_readonly_flags` lose an update |
| `evtchn_raise` | `EvtchnRaiseLocally` on a DPC port loses the event if the DPC unmasks between its steps |

The bounds. Three processors are the initiator and two that can disagree with
each other; two timeouts allow a processor to back off while another is about
to, and again after. Two handlers make a pass over the list that changes while
one of them runs. Frames of three entries, one of them reserved, fill after
two allocations. Two references are enough for two to share a byte, and two
suspends for what the first leaves behind to meet the second. Three events
on two ports give an event to the interrupt, one to the DPC and one to the
window between. Two numbers give each port a new one at a resume.

`MaxIpis`, `MaxTimeouts`, `MaxLaunches`, `MaxRequests`, `MaxSuspends`,
`MaxAnonymous`, `MaxHeld`, `MaxLent` and `MaxEvents` bound what the environment
does. Deadlock is checked except in `Suspend`, whose system comes to rest when
dom0 makes no more requests and the thread has been killed.

Fairness. `Quiesce`: weak fairness of each processor's steps, since they spin
without blocking, and of the delivery of an IPI to a processor that has its
interrupts on. `Suspend`: weak fairness of the suspend thread, of the
delivery of the watch and of what a client has begun; nobody is obliged to
allocate, but who holds a token releases it. `Evtchn`: CPU 0 takes its
interrupts and runs its DPCs, and owners finish the calls they have begun.

## Proofs

`QuiesceProofs` proves, for any finite set of processors and any number of IPIs
and timeouts, type correctness, the exclusion, the lifetime of the frame, the
assertions, that the count is never raised from zero, and the refinement of
`StopTheWorld`. None of these is inductive. The invariant is `IInv`: where each
processor can be in each phase (`Places`), which DPCs are queued (`Queues`),
that each counter is the cardinality of a set of processors (`Counts`), and
that a processor that is out of the loop has seen zero (`Zero`). The
heart is `Counts`: `processorCount` is the number of processors that are not
captured, so it is zero exactly if all are, and whoever backs off was captured
and not alone in it.

`SuspendProofs` proves `WaitedTokensInhibit` for any clients and handlers. The
invariant says that the thread is not idle while it is busy (`BusyIsNotIdle`),
that a client's token is on the list or is counted as anonymous
(`TokensAccounted`), and that no client which has seen the idle event since was
missed by the thread's two checks (`ChecksAreFinal`).

`GnttabPoolProofs` proves that a cache keeps its minimum (`MinimumKept`) and,
without caches, that `gnttab_lock` is held where the code says it is
(`LockHeld`). With caches `LockHeld` is false, which is the run
`gnttab_pool_full`.

`GnttabEntryProofs` proves the three properties of `GnttabEntry` for any threads,
references, domains, frames and suspends, under two conditions: the callers are
at `DISPATCH_LEVEL` (`Uninterrupted`), and no two references share a byte of
`gnttab_readonly_flags` (`SeparateBits`). The second does not hold of the code,
and `gnttab_entry_byte` shows what that costs. The first is needed as well:
with a caller in `Interruptible` a suspend between two of its statements refutes
each of the three. Type correctness needs neither. The invariant says how the
table, its copy and the request agree at rest (`Rest`) and at each
statement of the thread that works on a reference (`At`), that there is at most
one (`Exclusive`), and that a mapping shows in the flags (`Mapped`), which is
what makes the compare-and-exchange refuse to end a grant in use.

Only model-checked: liveness, which is beyond the prover; the list structure of
`GnttabPool` (its lists are recursive); the handler passes of `Suspend`; and
`Evtchn`.

## Plan

1. `EvtchnProofs`: the lifetime of ports and `insert_count`.
2. `Xenbus`: requests on the ring and replies in any order, watches with their
   thread and reference counts, transactions, and what a suspend does to all
   three; an abstract store that a request reads or writes once. Its hazards
   are in `PROJECT.json`.
3. `RangeSet` as an algorithm against plain sets; `Balloon` on top of it.
4. `WorkItem`, `Gntmap`.
5. `V4v` streams and `V2v` rings; the block handshake of
   `doc/blk_handshake.txt`; the pausing of `scsifilt` around a suspend.
6. A composition of `Suspend` with the grant table's and Xenbus' handlers, to
   check the order in which they run at a resume.
