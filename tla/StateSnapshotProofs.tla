------------------------ MODULE StateSnapshotProofs -------------------------
(***************************************************************************)
(* Proofs, for any set of readers, any set of words and any number of      *)
(* publish() calls, that the triple buffer keeps its slots apart, never    *)
(* tears a snapshot and implements the atomic register.                    *)
(***************************************************************************)
EXTENDS StateSnapshot, TLAPS

\* Whoever is in the critical section holds reader_mutex_, and conversely.
MutexInv == \A r \in Readers : InCritical(r) <=> reader_mutex_ = r

\* Only the holder of the mutex clears kUnread, so it is still set when a
\* reader that saw it set comes to its exchange.
FlagInv == \A r \in Readers : rpc[r] = "exchange" => Unread(exchange_)

\* The part of the producer's slot already stored belongs to snapshot `calls'.
StoreInv ==
  ppc = "publish" => \A w \in Words \ unstored : slots_[producer_slot_][w] = calls

\* The part already copied equals the slot it is copied from, which nobody
\* writes meanwhile.
CopyInv ==
  \A r \in Readers :
    rpc[r] = "copy" =>
      \A w \in Words \ uncopied[r] : copy[r][w] = slots_[consumer_slot_][w]

\* The readers' slot always holds one published snapshot.
ConsumerInv == \E n \in 0 .. Latest : slots_[consumer_slot_] = Image(n)

\* The inductive invariant.  SlotOwnership alone is inductive only with the
\* flag and the mutex; NoTornRead needs what both copies have done so far.
IInv ==
  /\ TypeOK
  /\ SlotOwnership
  /\ MutexInv
  /\ FlagInv
  /\ StoreInv
  /\ CopyInv
  /\ ConsumerInv
  /\ LatestReachable
  /\ NoTornRead

-----------------------------------------------------------------------------
USE SnapshotAssumption

\* What the exchange word carries: adding kUnread to a slot keeps its index.
LEMMA ExchangeWord ==
  /\ \A i \in Slot : Index(i) = i /\ ~ Unread(i)
  /\ \A i \in Slot : Index(i + kUnread) = i /\ Unread(i + kUnread)
  /\ \A e \in Slot \cup {4, 5, 6} : Index(e) \in Slot
  /\ \A i \in Slot : i + kUnread \in Slot \cup {4, 5, 6}
BY DEF Slot, Index, Unread, kUnread

LEMMA ImageType == \A n \in Nat : Image(n) \in [Words -> Nat]
BY DEF Image

LEMMA LatestType == TypeOK => Latest \in Nat
BY DEF TypeOK, Latest

\* The initial state satisfies the inductive invariant.
LEMMA InitInv == Init => IInv
<1> SUFFICES ASSUME Init PROVE IInv
  OBVIOUS
<1>1. Image(0) \in [Words -> Nat]
  BY ImageType
<1>2. Latest = 0
  BY DEF Init, Latest
<1>3. TypeOK
  <2>1. slots_ \in [Slot -> [Words -> Nat]]
    BY <1>1 DEF Init
  <2>2. copy \in [Readers -> [Words -> Nat]]
    BY <1>1 DEF Init
  <2>3. calls \in 0 .. MaxPublish
    BY DEF Init
  <2>4. /\ rpc \in [Readers -> {"idle", "lock", "load", "exchange", "copy"}]
        /\ uncopied \in [Readers -> SUBSET Words]
    BY DEF Init
  <2>. QED
    BY <2>1, <2>2, <2>3, <2>4 DEF Init, TypeOK, Slot
<1>4. SlotOwnership
  BY DEF Init, SlotOwnership, Index
<1>5. MutexInv /\ FlagInv /\ StoreInv /\ CopyInv
  BY DEF Init, MutexInv, InCritical, FlagInv, StoreInv, CopyInv
<1>6. ConsumerInv /\ LatestReachable /\ NoTornRead
  <2>1. 0 \in 0 .. Latest
    BY <1>2
  <2>2. slots_[0] = Image(0)
    BY DEF Init, Slot
  <2>. QED
    BY <1>2, <2>1, <2>2
       DEF Init, ConsumerInv, LatestReachable, NoTornRead, Unread, kUnread
<1>. QED
  BY <1>3, <1>4, <1>5, <1>6 DEF IInv

-----------------------------------------------------------------------------
(* Type correctness *)

\* Every step keeps the types.
LEMMA TypeStep == TypeOK /\ [Next]_vars => TypeOK'
<1> SUFFICES ASSUME TypeOK, [Next]_vars PROVE TypeOK'
  OBVIOUS
<1> USE DEF TypeOK
<1>1. CASE PublishCall
  BY <1>1 DEF PublishCall, readerVars
<1>2. ASSUME NEW w \in Words, StoreWord(w) PROVE TypeOK'
  BY <1>2 DEF StoreWord, readerVars
<1>3. CASE PublishExchange
  BY <1>3, ExchangeWord DEF PublishExchange, readerVars
<1>4. ASSUME NEW r \in Readers, ReadCall(r) PROVE TypeOK'
  BY <1>4 DEF ReadCall, Goto, producerVars
<1>5. ASSUME NEW r \in Readers, Lock(r) PROVE TypeOK'
  BY <1>5 DEF Lock, Goto, producerVars
<1>6. ASSUME NEW r \in Readers, LoadSeen(r) PROVE TypeOK'
  BY <1>6 DEF LoadSeen, Goto, producerVars
<1>7. ASSUME NEW r \in Readers, LoadUnread(r) PROVE TypeOK'
  BY <1>7 DEF LoadUnread, Goto, producerVars
<1>8. ASSUME NEW r \in Readers, ReadExchange(r) PROVE TypeOK'
  BY <1>8, ExchangeWord DEF ReadExchange, Goto, producerVars
<1>9. ASSUME NEW r \in Readers, NEW w \in Words, CopyWord(r, w) PROVE TypeOK'
  BY <1>9 DEF CopyWord, producerVars
<1>10. ASSUME NEW r \in Readers, Unlock(r) PROVE TypeOK'
  BY <1>10 DEF Unlock, Goto, producerVars
<1>11. CASE UNCHANGED vars
  BY <1>11 DEF vars, producerVars, readerVars
<1>. QED
  BY <1>1, <1>2, <1>3, <1>4, <1>5, <1>6, <1>7, <1>8, <1>9, <1>10, <1>11
     DEF Next, PublishStep, CriticalStep

\* The triple buffer is type correct for every value of the constants.
THEOREM TypeCorrect == Spec => []TypeOK
<1>1. Init => TypeOK
  BY InitInv DEF IInv
<1>. QED
  BY <1>1, TypeStep, PTL DEF Spec

-----------------------------------------------------------------------------
(* The inductive step, one lemma per action *)

\* publish() is called: nothing is stored yet, the latest snapshot stays.
LEMMA PublishCallInv == IInv /\ PublishCall => IInv'
<1> SUFFICES ASSUME IInv, PublishCall PROVE IInv'
  OBVIOUS
<1> USE DEF IInv
<1>1. TypeOK'
  BY TypeStep DEF Next
<1>2. Latest' = Latest
  BY DEF PublishCall, Latest, TypeOK
<1>3. UNCHANGED <<slots_, exchange_, producer_slot_, readerVars>>
  BY DEF PublishCall
<1>4. SlotOwnership' /\ MutexInv' /\ FlagInv' /\ CopyInv'
  BY <1>3 DEF readerVars, SlotOwnership, MutexInv, InCritical, FlagInv, CopyInv
<1>5. StoreInv'
  BY DEF PublishCall, StoreInv
<1>6. ConsumerInv' /\ LatestReachable' /\ NoTornRead'
  BY <1>2, <1>3 DEF readerVars, ConsumerInv, LatestReachable, NoTornRead
<1>. QED
  BY <1>1, <1>4, <1>5, <1>6

\* A word is stored in the producer's slot, which is neither the readers' nor
\* the one in exchange_.
LEMMA StoreWordInv == ASSUME NEW w \in Words, IInv, StoreWord(w) PROVE IInv'
<1> USE DEF IInv
<1>1. TypeOK'
  BY TypeStep DEF Next, PublishStep
<1>2. UNCHANGED <<exchange_, producer_slot_, calls, ppc, readerVars>>
  BY DEF StoreWord
<1>3. Latest' = Latest
  BY <1>2 DEF Latest
<1>4. \A i \in Slot : i # producer_slot_ => slots_'[i] = slots_[i]
  BY DEF StoreWord, TypeOK
<1>5. SlotOwnership' /\ MutexInv' /\ FlagInv'
  BY <1>2 DEF readerVars, SlotOwnership, MutexInv, InCritical, FlagInv
<1>6. StoreInv'
  BY DEF StoreWord, StoreInv, TypeOK
<1>7. slots_'[consumer_slot_] = slots_[consumer_slot_]
  BY <1>4 DEF TypeOK, SlotOwnership
<1>8. slots_'[Index(exchange_)] = slots_[Index(exchange_)]
  BY <1>4, ExchangeWord DEF TypeOK, SlotOwnership
<1>9. CopyInv' /\ ConsumerInv' /\ NoTornRead'
  BY <1>2, <1>3, <1>7 DEF readerVars, CopyInv, ConsumerInv, NoTornRead
<1>10. LatestReachable'
  BY <1>2, <1>3, <1>7, <1>8 DEF readerVars, LatestReachable
<1>. QED
  BY <1>1, <1>5, <1>6, <1>9, <1>10

\* The stored slot and the one in exchange_ change places, and the stored
\* snapshot becomes the latest.
LEMMA PublishExchangeInv == IInv /\ PublishExchange => IInv'
<1> SUFFICES ASSUME IInv, PublishExchange PROVE IInv'
  OBVIOUS
<1> USE DEF IInv
<1>1. TypeOK'
  BY TypeStep DEF Next, PublishStep
<1>2. UNCHANGED <<slots_, calls, unstored, readerVars>>
  BY DEF PublishExchange
<1>3. /\ exchange_' = producer_slot_ + kUnread
      /\ producer_slot_' = Index(exchange_)
      /\ ppc' = "idle"
  BY DEF PublishExchange
<1>4. /\ Index(exchange_') = producer_slot_
      /\ Unread(exchange_')
  BY <1>3, ExchangeWord DEF TypeOK
<1>5. SlotOwnership'
  BY <1>2, <1>3, <1>4 DEF readerVars, SlotOwnership
<1>6. MutexInv' /\ CopyInv'
  BY <1>2 DEF readerVars, MutexInv, InCritical, CopyInv
<1>7. FlagInv'
  BY <1>4 DEF FlagInv, Unread
<1>8. StoreInv'
  BY <1>3 DEF StoreInv
<1>9. calls = Latest + 1 /\ Latest' = calls /\ Latest \in Nat
  BY DEF PublishExchange, Latest, TypeOK
<1>10. ConsumerInv' /\ NoTornRead'
  <2>1. 0 .. Latest \subseteq 0 .. Latest'
    BY <1>9
  <2>. QED
    BY <1>2, <2>1 DEF readerVars, ConsumerInv, NoTornRead
<1>11. LatestReachable'
  <2>1. \A w \in Words : slots_[producer_slot_][w] = calls
    BY DEF PublishExchange, StoreInv
  <2>2. slots_[producer_slot_] = Image(calls)
    BY <2>1 DEF Image, TypeOK
  <2>. QED
    BY <1>2, <1>4, <1>9, <2>2 DEF LatestReachable, Unread
<1>. QED
  BY <1>1, <1>5, <1>6, <1>7, <1>8, <1>10, <1>11

\* A read() is called, or takes the mutex, or sees the flag: only rpc and
\* reader_mutex_ change, and no reader starts or ends its copy.
LEMMA ReadEntryInv ==
  ASSUME NEW r \in Readers, IInv, ReadCall(r) \/ Lock(r) \/ LoadUnread(r)
  PROVE  IInv'
<1> USE DEF IInv
<1>1. TypeOK'
  BY TypeStep DEF Next, CriticalStep
<1>2. UNCHANGED <<slots_, exchange_, producerVars, consumer_slot_, uncopied, copy>>
  BY DEF ReadCall, Lock, LoadUnread
<1>3. Latest' = Latest
  BY <1>2 DEF producerVars, Latest
<1>4. SlotOwnership' /\ StoreInv' /\ ConsumerInv' /\ LatestReachable'
  BY <1>2, <1>3
     DEF producerVars, SlotOwnership, StoreInv, ConsumerInv, LatestReachable
<1>5. \A q \in Readers : rpc'[q] = "copy" <=> rpc[q] = "copy"
  BY DEF ReadCall, Lock, LoadUnread, Goto, TypeOK
<1>6. CopyInv' /\ NoTornRead'
  BY <1>2, <1>3, <1>5 DEF CopyInv, NoTornRead
<1>7. MutexInv'
  BY DEF ReadCall, Lock, LoadUnread, Goto, MutexInv, InCritical, TypeOK
<1>8. FlagInv'
  BY DEF ReadCall, Lock, LoadUnread, Goto, FlagInv, TypeOK
<1>. QED
  BY <1>1, <1>4, <1>6, <1>7, <1>8

\* Nothing is unread: the readers' slot already holds the latest snapshot.
LEMMA LoadSeenInv == ASSUME NEW r \in Readers, IInv, LoadSeen(r) PROVE IInv'
<1> USE DEF IInv
<1>1. TypeOK'
  BY TypeStep DEF Next, CriticalStep
<1>2. UNCHANGED <<slots_, exchange_, producerVars, consumer_slot_,
                  reader_mutex_, copy>>
  BY DEF LoadSeen
<1>3. Latest' = Latest
  BY <1>2 DEF producerVars, Latest
<1>4. SlotOwnership' /\ StoreInv' /\ ConsumerInv' /\ LatestReachable'
  BY <1>2, <1>3
     DEF producerVars, SlotOwnership, StoreInv, ConsumerInv, LatestReachable
<1>5. MutexInv'
  BY DEF LoadSeen, Goto, MutexInv, InCritical, TypeOK
<1>6. FlagInv'
  BY DEF LoadSeen, Goto, FlagInv, TypeOK
<1>7. CopyInv'
  BY DEF LoadSeen, Goto, CopyInv, TypeOK
<1>8. NoTornRead'
  <2>1. \A q \in Readers : rpc'[q] # "copy" => rpc[q] # "copy"
    BY DEF LoadSeen, Goto, TypeOK
  <2>. QED
    BY <1>2, <1>3, <2>1 DEF NoTornRead
<1>. QED
  BY <1>1, <1>4, <1>5, <1>6, <1>7, <1>8

\* The unread slot, which holds the latest snapshot, becomes the readers'; a
\* publish() since the load only made it a later one.
LEMMA ReadExchangeInv == ASSUME NEW r \in Readers, IInv, ReadExchange(r) PROVE IInv'
<1> USE DEF IInv
<1>1. TypeOK'
  BY TypeStep DEF Next, CriticalStep
<1>2. UNCHANGED <<slots_, producerVars, reader_mutex_, copy>>
  BY DEF ReadExchange
<1>3. /\ consumer_slot_' = Index(exchange_)
      /\ exchange_' = consumer_slot_
      /\ rpc[r] = "exchange"
  BY DEF ReadExchange, Goto
<1>4. Index(exchange_') = consumer_slot_ /\ ~ Unread(exchange_')
  BY <1>3, ExchangeWord DEF TypeOK
<1>5. Latest' = Latest /\ Latest \in 0 .. Latest
  BY <1>2, LatestType DEF producerVars, Latest
<1>6. SlotOwnership'
  BY <1>2, <1>3, <1>4 DEF producerVars, SlotOwnership
<1>7. MutexInv'
  BY DEF ReadExchange, Goto, MutexInv, InCritical, TypeOK
<1>8. FlagInv'
  BY <1>3 DEF ReadExchange, Goto, FlagInv, MutexInv, InCritical, TypeOK
<1>9. StoreInv'
  BY <1>2 DEF producerVars, StoreInv
<1>10. slots_'[consumer_slot_'] = Image(Latest')
  BY <1>2, <1>3, <1>5 DEF LatestReachable, FlagInv
<1>11. ConsumerInv' /\ LatestReachable'
  BY <1>4, <1>5, <1>10 DEF ConsumerInv, LatestReachable
<1>12. \A q \in Readers : q # r => rpc'[q] # "copy"
  BY <1>3 DEF ReadExchange, Goto, MutexInv, InCritical, TypeOK
<1>13. CopyInv'
  BY <1>12 DEF ReadExchange, CopyInv, TypeOK
<1>14. NoTornRead'
  <2>1. \A q \in Readers : rpc'[q] # "copy" => rpc[q] # "copy"
    BY DEF ReadExchange, Goto, TypeOK
  <2>. QED
    BY <1>2, <1>5, <2>1 DEF NoTornRead
<1>. QED
  BY <1>1, <1>6, <1>7, <1>8, <1>9, <1>11, <1>13, <1>14

\* A word is copied out of the readers' slot.
LEMMA CopyWordInv ==
  ASSUME NEW r \in Readers, NEW w \in Words, IInv, CopyWord(r, w) PROVE IInv'
<1> USE DEF IInv
<1>1. TypeOK'
  BY TypeStep DEF Next, CriticalStep
<1>2. UNCHANGED <<slots_, exchange_, producerVars, consumer_slot_,
                  reader_mutex_, rpc>>
  BY DEF CopyWord
<1>3. Latest' = Latest
  BY <1>2 DEF producerVars, Latest
<1>4. /\ SlotOwnership' /\ MutexInv' /\ FlagInv'
      /\ StoreInv' /\ ConsumerInv' /\ LatestReachable'
  BY <1>2, <1>3
     DEF producerVars, SlotOwnership, MutexInv, InCritical, FlagInv, StoreInv,
         ConsumerInv, LatestReachable
<1>5. CopyInv'
  BY <1>2 DEF CopyWord, CopyInv, TypeOK
<1>6. NoTornRead'
  <2>1. \A q \in Readers : rpc[q] # "copy" => copy'[q] = copy[q]
    BY DEF CopyWord, TypeOK
  <2>. QED
    BY <1>2, <1>3, <2>1 DEF NoTornRead
<1>. QED
  BY <1>1, <1>4, <1>5, <1>6

\* All words are copied: the result is what the readers' slot holds.
LEMMA UnlockInv == ASSUME NEW r \in Readers, IInv, Unlock(r) PROVE IInv'
<1> USE DEF IInv
<1>1. TypeOK'
  BY TypeStep DEF Next, CriticalStep
<1>2. UNCHANGED <<slots_, exchange_, producerVars, consumer_slot_, uncopied, copy>>
  BY DEF Unlock
<1>3. Latest' = Latest
  BY <1>2 DEF producerVars, Latest
<1>4. SlotOwnership' /\ StoreInv' /\ ConsumerInv' /\ LatestReachable'
  BY <1>2, <1>3
     DEF producerVars, SlotOwnership, StoreInv, ConsumerInv, LatestReachable
<1>5. MutexInv' /\ FlagInv'
  BY DEF Unlock, Goto, MutexInv, InCritical, FlagInv, TypeOK
<1>6. CopyInv'
  BY DEF Unlock, Goto, CopyInv, TypeOK
<1>7. copy[r] = slots_[consumer_slot_]
  <2>1. \A w \in Words : copy[r][w] = slots_[consumer_slot_][w]
    BY DEF Unlock, Goto, CopyInv
  <2>. QED
    BY <2>1 DEF TypeOK
<1>8. NoTornRead'
  <2>1. \E n \in 0 .. Latest : copy[r] = Image(n)
    BY <1>7 DEF ConsumerInv
  <2>2. \A q \in Readers : q # r => rpc'[q] = rpc[q]
    BY DEF Unlock, Goto, TypeOK
  <2>. QED
    BY <1>2, <1>3, <2>1, <2>2 DEF NoTornRead
<1>. QED
  BY <1>1, <1>4, <1>5, <1>6, <1>8

\* Every step keeps the inductive invariant.
LEMMA StepInv == IInv /\ [Next]_vars => IInv'
<1> SUFFICES ASSUME IInv, [Next]_vars PROVE IInv'
  OBVIOUS
<1>1. CASE UNCHANGED vars
  BY <1>1 DEF vars, producerVars, readerVars, IInv, TypeOK, SlotOwnership,
       MutexInv, InCritical, FlagInv, StoreInv, CopyInv, ConsumerInv,
       LatestReachable, NoTornRead, Latest
<1>. QED
  BY <1>1, PublishCallInv, StoreWordInv, PublishExchangeInv, ReadEntryInv,
     LoadSeenInv, ReadExchangeInv, CopyWordInv, UnlockInv
     DEF Next, PublishStep, CriticalStep

LEMMA Invariance == Spec => []IInv
BY InitInv, StepInv, PTL DEF Spec

\* The producer, the readers and the exchange word never own the same slot.
THEOREM SlotsStayApart == Spec => []SlotOwnership
<1>1. IInv => SlotOwnership
  BY DEF IInv
<1>. QED
  BY <1>1, Invariance, PTL

\* Every read() returns one published snapshot, whole.
THEOREM ReadsAreWhole == Spec => []NoTornRead
<1>1. IInv => NoTornRead
  BY DEF IInv
<1>. QED
  BY <1>1, Invariance, PTL

\* The next reader always finds the latest snapshot.
THEOREM LatestIsReachable == Spec => []LatestReachable
<1>1. IInv => LatestReachable
  BY DEF IInv
<1>. QED
  BY <1>1, Invariance, PTL

-----------------------------------------------------------------------------
(* Refinement *)

\* The initial state is an initial state of the register.
LEMMA InitRefines == Init => Register!Init
<1> SUFFICES ASSUME Init PROVE Register!Init
  OBVIOUS
<1>1. Latest = 0
  BY DEF Init, Latest
<1>2. Phase = [r \in Readers |-> "idle"]
  BY DEF Init, Phase
<1>3. Seen = [r \in Readers |-> Register!Image(0)]
  BY DEF Init, Seen, Image, Register!Image
<1>. QED
  BY <1>1, <1>2, <1>3 DEF Register!Init

\* A step that leaves the three abstract variables alone.
LEMMA Stutters ==
  ASSUME Latest' = Latest, Phase' = Phase, Seen' = Seen
  PROVE  [Register!Next]_(Register!vars)
BY DEF Register!vars

\* The latest snapshot changes at the exchange of publish() and nowhere else.
LEMMA PublishExchangeRefines ==
  ASSUME IInv, PublishExchange PROVE Register!Publish
<1>1. Latest' = Latest + 1
  BY DEF PublishExchange, Latest, IInv, TypeOK
<1>2. Phase' = Phase /\ Seen' = Seen
  BY DEF PublishExchange, readerVars, Phase, Seen
<1>. QED
  BY <1>1, <1>2 DEF Register!Publish

\* Storing a word is invisible: no reader copies from the producer's slot.
LEMMA StoreWordRefines ==
  ASSUME IInv, NEW w \in Words, StoreWord(w) PROVE [Register!Next]_(Register!vars)
<1>1. slots_'[consumer_slot_] = slots_[consumer_slot_]
  BY DEF StoreWord, IInv, TypeOK, SlotOwnership
<1>2. Latest' = Latest /\ Phase' = Phase /\ Seen' = Seen
  BY <1>1 DEF StoreWord, readerVars, Latest, Phase, Seen
<1>. QED
  BY <1>2, Stutters

\* The read() takes effect at its load if nothing is unread, ...
LEMMA LoadSeenRefines ==
  ASSUME IInv, NEW r \in Readers, LoadSeen(r) PROVE Register!Take(r)
<1>1. Latest' = Latest
  BY DEF LoadSeen, producerVars, Latest
<1>2. Phase' = [Phase EXCEPT ![r] = "taken"] /\ Phase[r] = "called"
  BY DEF LoadSeen, Goto, Phase, IInv, TypeOK
<1>3. slots_[consumer_slot_] = Register!Image(Latest)
  BY DEF LoadSeen, IInv, LatestReachable, Image, Register!Image
<1>4. Seen' = [Seen EXCEPT ![r] = slots_[consumer_slot_]]
  BY DEF LoadSeen, Goto, Seen, IInv, TypeOK
<1>. QED
  BY <1>1, <1>2, <1>3, <1>4 DEF Register!Take

\* ... and at its exchange otherwise.
LEMMA ReadExchangeRefines ==
  ASSUME IInv, NEW r \in Readers, ReadExchange(r) PROVE Register!Take(r)
<1>1. Latest' = Latest
  BY DEF ReadExchange, producerVars, Latest
<1>2. Phase' = [Phase EXCEPT ![r] = "taken"] /\ Phase[r] = "called"
  BY DEF ReadExchange, Goto, Phase, IInv, TypeOK
<1>3. slots_'[consumer_slot_'] = Register!Image(Latest)
  BY DEF ReadExchange, Goto, IInv, FlagInv, LatestReachable, Image, Register!Image
<1>4. \A q \in Readers : q # r => rpc'[q] = rpc[q] /\ rpc[q] # "copy"
  BY DEF ReadExchange, Goto, IInv, MutexInv, InCritical, TypeOK
<1>5. rpc'[r] = "copy" /\ copy' = copy
  BY DEF ReadExchange, Goto, IInv, TypeOK
<1>6. Seen' = [Seen EXCEPT ![r] = slots_'[consumer_slot_']]
  BY <1>4, <1>5 DEF Seen
<1>. QED
  BY <1>1, <1>2, <1>3, <1>6 DEF Register!Take

\* Only the holder of the mutex copies, and what it returns is its slot.
LEMMA UnlockRefines ==
  ASSUME IInv, NEW r \in Readers, Unlock(r) PROVE Register!Return(r)
<1>1. Latest' = Latest
  BY DEF Unlock, producerVars, Latest
<1>2. Phase' = [Phase EXCEPT ![r] = "idle"] /\ Phase[r] = "taken"
  BY DEF Unlock, Goto, Phase, IInv, TypeOK
<1>3. copy[r] = slots_[consumer_slot_]
  <2>1. \A w \in Words : copy[r][w] = slots_[consumer_slot_][w]
    BY DEF Unlock, Goto, IInv, CopyInv
  <2>. QED
    BY <2>1 DEF IInv, TypeOK
<1>4. Seen' = Seen
  BY <1>3 DEF Unlock, Goto, Seen, IInv, TypeOK
<1>. QED
  BY <1>1, <1>2, <1>4 DEF Register!Return

\* Every step of the triple buffer is a step of the register or a stutter.
LEMMA StepRefines == IInv /\ [Next]_vars => [Register!Next]_(Register!vars)
<1> SUFFICES ASSUME IInv, [Next]_vars PROVE [Register!Next]_(Register!vars)
  OBVIOUS
<1>1. CASE PublishCall
  <2>1. Latest' = Latest /\ Phase' = Phase /\ Seen' = Seen
    BY <1>1 DEF PublishCall, readerVars, Latest, Phase, Seen, IInv, TypeOK
  <2>. QED
    BY <2>1, Stutters
<1>2. ASSUME NEW w \in Words, StoreWord(w) PROVE [Register!Next]_(Register!vars)
  BY <1>2, StoreWordRefines
<1>3. CASE PublishExchange
  BY <1>3, PublishExchangeRefines DEF Register!Next
<1>4. ASSUME NEW r \in Readers, ReadCall(r) PROVE Register!Call(r)
  <2>1. Latest' = Latest
    BY <1>4 DEF ReadCall, producerVars, Latest
  <2>2. Phase' = [Phase EXCEPT ![r] = "called"] /\ Phase[r] = "idle"
    BY <1>4 DEF ReadCall, Goto, Phase, IInv, TypeOK
  <2>3. Seen' = Seen
    BY <1>4 DEF ReadCall, Goto, Seen, IInv, TypeOK
  <2>. QED
    BY <2>1, <2>2, <2>3 DEF Register!Call
<1>5. ASSUME NEW r \in Readers, Lock(r) \/ LoadUnread(r)
      PROVE  [Register!Next]_(Register!vars)
  <2>1. Latest' = Latest
    BY <1>5 DEF Lock, LoadUnread, producerVars, Latest
  <2>2. Phase' = Phase /\ Seen' = Seen
    BY <1>5 DEF Lock, LoadUnread, Goto, Phase, Seen, IInv, TypeOK
  <2>. QED
    BY <2>1, <2>2, Stutters
<1>6. ASSUME NEW r \in Readers, NEW w \in Words, CopyWord(r, w)
      PROVE  [Register!Next]_(Register!vars)
  <2>1. Latest' = Latest /\ Phase' = Phase
    BY <1>6 DEF CopyWord, producerVars, Latest, Phase
  <2>2. Seen' = Seen
    BY <1>6 DEF CopyWord, Seen, IInv, TypeOK
  <2>. QED
    BY <2>1, <2>2, Stutters
<1>7. CASE UNCHANGED vars
  <2>1. Latest' = Latest /\ Phase' = Phase /\ Seen' = Seen
    BY <1>7 DEF vars, producerVars, readerVars, Latest, Phase, Seen
  <2>. QED
    BY <2>1, Stutters
<1>. QED
  BY <1>1, <1>2, <1>3, <1>4, <1>5, <1>6, <1>7, LoadSeenRefines,
     ReadExchangeRefines, UnlockRefines
     DEF Next, PublishStep, CriticalStep, Register!Next

\* The triple buffer implements the atomic register: a read() returns what the
\* last publish() before some instant of the call published.
THEOREM Refinement == Spec => ImplementsRegister
<1>1. Init => Register!Init
  BY InitRefines
<1>2. IInv /\ [Next]_vars => [Register!Next]_(Register!vars)
  BY StepRefines
<1>. QED
  BY <1>1, <1>2, Invariance, PTL DEF Spec, ImplementsRegister, Register!Spec
=============================================================================
