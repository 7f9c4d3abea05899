--------------------------- MODULE StateSnapshot ----------------------------
(***************************************************************************)
(* The triple buffer of lbr_fri_ros2/state_snapshot.hpp that carries the   *)
(* robot state from the FRI thread (the one producer) to every thread that *)
(* calls StateInterface::get_state (the readers).                          *)
(*                                                                         *)
(* One action per access to shared memory: each word of the copy of T      *)
(* (lines 22 and 31), the atomic load (28), the two atomic exchanges (23   *)
(* and 29), and taking and releasing reader_mutex_.  The words of T are    *)
(* copied in any order, as a compiler may.  The atomics are sequentially   *)
(* consistent here; the code's acquire/release orders give the same as     *)
(* long as nobody races on a slot, which is the invariant SlotOwnership.   *)
(***************************************************************************)
EXTENDS Integers

CONSTANTS
  Readers,     \* the threads that call read()
  Words,       \* the words a snapshot T consists of
  NoReader,    \* reader_mutex_ is free
  MaxPublish   \* bound of the model: number of calls of publish()

ASSUME SnapshotAssumption ==
  /\ NoReader \notin Readers
  /\ MaxPublish \in Nat

VARIABLES
  slots_,          \* slots_[i][w]: word w of slot i, the number of a snapshot
  producer_slot_,  \* slot the producer owns (plain member, producer only)
  consumer_slot_,  \* slot the readers own (plain member, under reader_mutex_)
  exchange_,       \* the atomic: index of the third slot, plus kUnread
  reader_mutex_,   \* the reader inside read()'s critical section, or NoReader
  calls,           \* number of the snapshot last passed to publish()
  ppc,             \* where the producer is: "idle" or inside "publish"
  unstored,        \* words publish() has still to copy into its slot
  rpc,             \* rpc[r]: where reader r is in read()
  uncopied,        \* words read() has still to copy out of consumer_slot_
  copy             \* copy[r]: the T that r is copying, or last returned

producerVars == <<calls, ppc, unstored, producer_slot_>>
readerVars == <<consumer_slot_, reader_mutex_, rpc, uncopied, copy>>
vars == <<slots_, exchange_, producerVars, readerVars>>

-----------------------------------------------------------------------------
Slot == 0 .. 2
kUnread == 4
Index(e) == e % 4
Unread(e) == e >= kUnread

Image(n) == [w \in Words |-> n]

\* The last snapshot whose publish() has exchanged its slot.
Latest == IF ppc = "publish" THEN calls - 1 ELSE calls

Init ==
  /\ slots_ = [i \in Slot |-> Image(0)]
  /\ producer_slot_ = 2
  /\ consumer_slot_ = 0
  /\ exchange_ = 1
  /\ reader_mutex_ = NoReader
  /\ calls = 0
  /\ ppc = "idle"
  /\ unstored = {}
  /\ rpc = [r \in Readers |-> "idle"]
  /\ uncopied = [r \in Readers |-> {}]
  /\ copy = [r \in Readers |-> Image(0)]

-----------------------------------------------------------------------------
(* publish(), by the FRI thread *)

PublishCall ==
  /\ ppc = "idle"
  /\ calls < MaxPublish
  /\ ppc' = "publish"
  /\ calls' = calls + 1
  /\ unstored' = Words
  /\ UNCHANGED <<slots_, exchange_, producer_slot_, readerVars>>

StoreWord(w) ==
  /\ ppc = "publish"
  /\ w \in unstored
  /\ slots_' = [slots_ EXCEPT ![producer_slot_][w] = calls]
  /\ unstored' = unstored \ {w}
  /\ UNCHANGED <<exchange_, calls, ppc, producer_slot_, readerVars>>

\* Plausible bugs of publish(): kUnread is not set; the readers' mutex is waited
\* for.
PublishExchangeUnflagged ==
  /\ ppc = "publish"
  /\ unstored = {}
  /\ exchange_' = producer_slot_
  /\ producer_slot_' = Index(exchange_)
  /\ ppc' = "idle"
  /\ UNCHANGED <<slots_, calls, unstored, readerVars>>

PublishExchangeLocked ==
  /\ reader_mutex_ = NoReader
  /\ ppc = "publish"
  /\ unstored = {}
  /\ exchange_' = producer_slot_ + kUnread
  /\ producer_slot_' = Index(exchange_)
  /\ ppc' = "idle"
  /\ UNCHANGED <<slots_, calls, unstored, readerVars>>

PublishExchange ==
  /\ ppc = "publish"
  /\ unstored = {}
  /\ exchange_' = producer_slot_ + kUnread
  /\ producer_slot_' = Index(exchange_)
  /\ ppc' = "idle"
  /\ UNCHANGED <<slots_, calls, unstored, readerVars>>

-----------------------------------------------------------------------------
(* read(), by any thread *)

Goto(r, from, to) ==
  /\ rpc[r] = from
  /\ rpc' = [rpc EXCEPT ![r] = to]

ReadCall(r) ==
  /\ Goto(r, "idle", "lock")
  /\ UNCHANGED <<slots_, exchange_, producerVars, consumer_slot_,
                 reader_mutex_, uncopied, copy>>

\* Plausible bug: read() without the lock_guard.
LockIgnored(r) ==
  /\ Goto(r, "lock", "load")
  /\ reader_mutex_' = r
  /\ UNCHANGED <<slots_, exchange_, producerVars, consumer_slot_, uncopied, copy>>

Lock(r) ==
  /\ reader_mutex_ = NoReader
  /\ Goto(r, "lock", "load")
  /\ reader_mutex_' = r
  /\ UNCHANGED <<slots_, exchange_, producerVars, consumer_slot_, uncopied, copy>>

\* Plausible bug: the copy starts without looking at the flag.
LoadSeenUnchecked(r) ==
  /\ Goto(r, "load", "copy")
  /\ uncopied' = [uncopied EXCEPT ![r] = Words]
  /\ UNCHANGED <<slots_, exchange_, producerVars, consumer_slot_,
                 reader_mutex_, copy>>

\* exchange_.load() finds nothing new: the copy starts.
LoadSeen(r) ==
  /\ ~ Unread(exchange_)
  /\ Goto(r, "load", "copy")
  /\ uncopied' = [uncopied EXCEPT ![r] = Words]
  /\ UNCHANGED <<slots_, exchange_, producerVars, consumer_slot_,
                 reader_mutex_, copy>>

\* exchange_.load() finds kUnread; the producer may publish again before the
\* exchange below.
LoadUnread(r) ==
  /\ Unread(exchange_)
  /\ Goto(r, "load", "exchange")
  /\ UNCHANGED <<slots_, exchange_, producerVars, consumer_slot_,
                 reader_mutex_, uncopied, copy>>

\* Plausible bug: a load of exchange_ in place of the exchange.
ReadExchangeLoads(r) ==
  /\ Goto(r, "exchange", "copy")
  /\ consumer_slot_' = Index(exchange_)
  /\ uncopied' = [uncopied EXCEPT ![r] = Words]
  /\ UNCHANGED <<slots_, exchange_, producerVars, reader_mutex_, copy>>

ReadExchange(r) ==
  /\ Goto(r, "exchange", "copy")
  /\ consumer_slot_' = Index(exchange_)
  /\ exchange_' = consumer_slot_
  /\ uncopied' = [uncopied EXCEPT ![r] = Words]
  /\ UNCHANGED <<slots_, producerVars, reader_mutex_, copy>>

\* Plausible bug: a reader waits while a publish() is in progress.
CopyWordWaits(r, w) ==
  /\ ppc = "idle"
  /\ rpc[r] = "copy"
  /\ w \in uncopied[r]
  /\ copy' = [copy EXCEPT ![r][w] = slots_[consumer_slot_][w]]
  /\ uncopied' = [uncopied EXCEPT ![r] = @ \ {w}]
  /\ UNCHANGED <<slots_, exchange_, producerVars, consumer_slot_,
                 reader_mutex_, rpc>>

CopyWord(r, w) ==
  /\ rpc[r] = "copy"
  /\ w \in uncopied[r]
  /\ copy' = [copy EXCEPT ![r][w] = slots_[consumer_slot_][w]]
  /\ uncopied' = [uncopied EXCEPT ![r] = @ \ {w}]
  /\ UNCHANGED <<slots_, exchange_, producerVars, consumer_slot_,
                 reader_mutex_, rpc>>

\* The lock_guard is released after the returned T has been copied.
Unlock(r) ==
  /\ uncopied[r] = {}
  /\ Goto(r, "copy", "idle")
  /\ reader_mutex_' = NoReader
  /\ UNCHANGED <<slots_, exchange_, producerVars, consumer_slot_, uncopied, copy>>

-----------------------------------------------------------------------------
PublishStep == PublishExchange \/ \E w \in Words : StoreWord(w)

CriticalStep(r) ==
  \/ LoadSeen(r) \/ LoadUnread(r) \/ ReadExchange(r) \/ Unlock(r)
  \/ \E w \in Words : CopyWord(r, w)

Next ==
  \/ PublishCall
  \/ PublishStep
  \/ \E r \in Readers : ReadCall(r) \/ Lock(r) \/ CriticalStep(r)

Spec == Init /\ [][Next]_vars

-----------------------------------------------------------------------------
(* Properties *)

InCritical(r) == rpc[r] \in {"load", "exchange", "copy"}

\* Every variable has its type; a snapshot number is at most the number of
\* publish() calls.
TypeOK ==
  /\ slots_ \in [Slot -> [Words -> Nat]]
  /\ producer_slot_ \in Slot
  /\ consumer_slot_ \in Slot
  /\ exchange_ \in Slot \cup {4, 5, 6}
  /\ reader_mutex_ \in Readers \cup {NoReader}
  /\ calls \in 0 .. MaxPublish
  /\ ppc \in {"idle", "publish"}
  /\ ppc = "publish" => calls > 0
  /\ unstored \in SUBSET Words
  /\ rpc \in [Readers -> {"idle", "lock", "load", "exchange", "copy"}]
  /\ uncopied \in [Readers -> SUBSET Words]
  /\ copy \in [Readers -> [Words -> Nat]]

\* No slot has two owners: the one the producer writes, the one the readers
\* copy and the one waiting in exchange_ differ, whatever order the exchanges
\* of lines 23 and 29 happen in ("Slot ownership prevents the producer from
\* overwriting a snapshot being copied", line 12).
SlotOwnership ==
  /\ producer_slot_ # consumer_slot_
  /\ producer_slot_ # Index(exchange_)
  /\ consumer_slot_ # Index(exchange_)

\* A read() that has returned delivered one published snapshot, whole: no word
\* of a snapshot that was being stored meanwhile (get_state of the control
\* loop against set_state of the FRI thread).
NoTornRead ==
  \A r \in Readers :
    rpc[r] # "copy" => \E n \in 0 .. Latest : copy[r] = Image(n)

\* Once the producer is between two publish() calls the latest snapshot is the
\* one the next reader will copy: the unread flag never hides it, even when a
\* reader's load and its exchange have a publish() between them.
LatestReachable ==
  slots_[IF Unread(exchange_) THEN Index(exchange_) ELSE consumer_slot_]
    = Image(Latest)

\* StateSnapshot is an atomic register: a read() takes effect at its load if
\* nothing is unread and at its exchange otherwise.
Phase ==
  [r \in Readers |-> CASE rpc[r] = "idle" -> "idle"
                       [] rpc[r] = "copy" -> "taken"
                       [] OTHER -> "called"]

Seen ==
  [r \in Readers |-> IF rpc[r] = "copy" THEN slots_[consumer_slot_] ELSE copy[r]]

Register == INSTANCE SnapshotRegister WITH
  latest <- Latest, phase <- Phase, seen <- Seen

ImplementsRegister == Register!Spec

\* "Publishing never waits for readers" (line 13): the producer finishes
\* publish() by its own steps alone, even if a reader is preempted for ever
\* inside its critical section.
PublishWaitFree == WF_vars(PublishStep) => (ppc = "publish" ~> ppc = "idle")

\* A reader inside the critical section leaves it by its own steps alone: it
\* has no retry loop, and neither a producer that stops inside publish() nor
\* one that keeps publishing holds it up.
ReadWaitFree ==
  \A r \in Readers : WF_vars(CriticalStep(r)) => (InCritical(r) ~> ~ InCritical(r))
=============================================================================
