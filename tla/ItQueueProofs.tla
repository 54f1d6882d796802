--------------------------- MODULE ItQueueProofs ---------------------------
(***************************************************************************)
(* Proofs about ItQueue, for any number of producers, any items and any    *)
(* maximal length.  With or without flushes the length agrees with the     *)
(* list and no wakeup is lost; without flushes the callback never takes    *)
(* from an empty list, and every item is accounted for in order.           *)
(***************************************************************************)
EXTENDS ItQueue, FiniteSetTheorems, SequenceTheorems, TLAPS

\* A flush aside, the counter, the iterations under way and the producers about
\* to signal announce exactly the items in the list.
ExactlyAnnounced == flushes = 0 => Len(list) = event + todo + Cardinality(signalling)

\* The inductive invariant.
IInv == /\ TypeOK
        /\ IsFiniteSet(signalling)
        /\ LengthAgrees
        /\ Announced
        /\ ExactlyAnnounced
        /\ EmptiedOnlyByFlush
        /\ Accounted

\* The initial states satisfy the invariant.
LEMMA InitInvariant == Init => IInv
<1> SUFFICES ASSUME Init PROVE IInv
  OBVIOUS
<1> USE LengthAssumption DEF Init, EmptiedOnlyByFlush
<1>1. IsFiniteSet(signalling) /\ Cardinality(signalling) = 0
  BY FS_EmptySet
<1>2. <<>> \in Seq(Item)
  BY EmptySeq
<1>3. TypeOK
  <2>1. list \in Seq(Item) /\ entered \in Seq(Item) /\ delivered \in Seq(Item)
    BY <1>2
  <2>2. current_length \in 0 .. LengthMod - 1 /\ flushes \in 0 .. MaxFlush
    OBVIOUS
  <2> QED
    BY <2>1, <2>2 DEF TypeOK
<1>4. LengthAgrees /\ Announced /\ ExactlyAnnounced /\ Accounted
  BY <1>1, EmptySeq, ConcatEmptySeq DEF LengthAgrees, Announced, ExactlyAnnounced, Accounted
<1> QED
  BY <1>1, <1>3, <1>4 DEF IInv

\* _osmo_it_q_enqueue adds one item and one producer that will announce it.
LEMMA EnqueueInvariant ==
  ASSUME IInv, NEW p \in Producers, NEW item \in Item, Enqueue(p, item)
  PROVE  IInv'
<1> USE LengthAssumption DEF IInv, TypeOK, EmptiedOnlyByFlush
<1>1. /\ Append(list, item) \in Seq(Item)
      /\ Len(Append(list, item)) = Len(list) + 1
      /\ Append(entered, item) \in Seq(Item)
  BY AppendProperties
<1>2. /\ IsFiniteSet(signalling')
      /\ Cardinality(signalling') = Cardinality(signalling) + 1
      /\ Cardinality(signalling) \in Nat
  BY FS_AddElement, FS_CardinalityType DEF Enqueue
<1>3. TypeOK'
  BY <1>1 DEF Enqueue, HasRoom
<1>4. LengthAgrees'
  BY <1>1 DEF Enqueue, HasRoom, LengthAgrees
<1>5. Announced' /\ ExactlyAnnounced'
  BY <1>1, <1>2 DEF Enqueue, Announced, ExactlyAnnounced
<1>6. Accounted'
  <2>1. (delivered \o list) \o <<item>> = delivered \o (list \o <<item>>)
    BY ConcatAssociative
  <2>2. /\ Append(list, item) = list \o <<item>>
        /\ Append(delivered \o list, item) = (delivered \o list) \o <<item>>
    BY AppendIsConcat, ConcatProperties
  <2> QED
    BY <2>1, <2>2 DEF Enqueue, Accounted
<1> QED
  BY <1>2, <1>3, <1>4, <1>5, <1>6 DEF Enqueue

\* A producer writes the eventfd: what it announced itself, the counter announces.
LEMMA SignalInvariant ==
  ASSUME IInv, NEW p \in Producers, Signal(p)
  PROVE  IInv'
<1> USE DEF IInv, TypeOK, EmptiedOnlyByFlush
<1>1. /\ IsFiniteSet(signalling')
      /\ Cardinality(signalling') = Cardinality(signalling) - 1
      /\ Cardinality(signalling) \in Nat
  BY FS_RemoveElement, FS_CardinalityType DEF Signal
<1>2. TypeOK' /\ LengthAgrees' /\ Accounted'
  BY DEF Signal, LengthAgrees, Accounted
<1>3. Announced' /\ ExactlyAnnounced'
  BY <1>1 DEF Signal, Announced, ExactlyAnnounced
<1> QED
  BY <1>1, <1>2, <1>3 DEF Signal

\* The callback reads the counter: its iterations announce what the counter did.
LEMMA ReadEventInvariant ==
  ASSUME IInv, ReadEvent
  PROVE  IInv'
<1> USE DEF IInv, TypeOK, EmptiedOnlyByFlush
<1>1. Cardinality(signalling) \in Nat
  BY FS_CardinalityType
<1>2. TypeOK' /\ LengthAgrees' /\ Accounted'
  BY DEF ReadEvent, LengthAgrees, Accounted
<1>3. Announced' /\ ExactlyAnnounced'
  BY <1>1 DEF ReadEvent, Announced, ExactlyAnnounced
<1> QED
  BY <1>2, <1>3 DEF ReadEvent

\* An iteration moves the oldest item from the list to the delivered ones.
LEMMA DequeueInvariant ==
  ASSUME IInv, Dequeue
  PROVE  IInv'
<1> USE LengthAssumption DEF IInv, TypeOK, EmptiedOnlyByFlush
<1>1. /\ Head(list) \in Item
      /\ Tail(list) \in Seq(Item)
      /\ Len(Tail(list)) = Len(list) - 1
      /\ Len(list) \in Nat \ {0}
  BY HeadTailProperties, EmptySeq DEF Dequeue
<1>2. Append(delivered, Head(list)) \in Seq(Item)
  BY <1>1, AppendProperties
<1>3. Cardinality(signalling) \in Nat
  BY FS_CardinalityType
<1>4. TypeOK'
  BY <1>1, <1>2 DEF Dequeue, Decremented
<1>5. LengthAgrees'
  BY <1>1 DEF Dequeue, Decremented, LengthAgrees
<1>6. Announced' /\ ExactlyAnnounced'
  BY <1>1, <1>3 DEF Dequeue, Announced, ExactlyAnnounced
<1>7. Accounted'
  <2>1. list = <<Head(list)>> \o Tail(list)
    BY <1>1, SubSeqFull, SubSeqRecursiveFirst, TailIsSubSeq, LenProperties DEF Dequeue
  <2>2. Append(delivered, Head(list)) = delivered \o <<Head(list)>>
    BY <1>1, AppendIsConcat
  <2>3. <<Head(list)>> \in Seq(Item)
    BY <1>1
  <2>4. delivered \o (<<Head(list)>> \o Tail(list))
          = (delivered \o <<Head(list)>>) \o Tail(list)
    BY SMTT(40), <1>1, <2>3, ConcatAssociative
  <2> QED
    BY <2>1, <2>2, <2>4 DEF Dequeue, Accounted
<1> QED
  BY <1>4, <1>5, <1>6, <1>7 DEF Dequeue

\* Without a flush an iteration never finds the list empty.
LEMMA DequeueEmptyInvariant ==
  ASSUME IInv, DequeueEmpty
  PROVE  IInv'
<1> USE LengthAssumption DEF IInv, TypeOK, EmptiedOnlyByFlush, DequeueEmpty
<1>1. Cardinality(signalling) \in Nat /\ Len(list) = 0
  BY FS_CardinalityType, EmptySeq
<1>2. flushes # 0
  BY <1>1 DEF ExactlyAnnounced
<1>3. TypeOK'
  BY DEF Decremented
<1> QED
  BY <1>2, <1>3 DEF LengthAgrees, Announced, ExactlyAnnounced, Accounted

\* A flush leaves more announcements than items, never fewer.
LEMMA FlushInvariant ==
  ASSUME IInv, Flush
  PROVE  IInv'
<1> USE LengthAssumption DEF IInv, TypeOK, EmptiedOnlyByFlush, Flush
<1>1. /\ Cardinality(signalling) \in Nat
      /\ <<>> \in Seq(Item) /\ Len(<<>>) = 0
  BY FS_CardinalityType, EmptySeq
<1>2. TypeOK' /\ LengthAgrees' /\ Announced'
  BY <1>1 DEF LengthAgrees, Announced
<1>3. flushes' # 0
  OBVIOUS
<1> QED
  BY <1>2, <1>3 DEF ExactlyAnnounced, Accounted

\* Every step preserves the invariant.
THEOREM NextInvariant == IInv /\ [Next]_vars => IInv'
<1> SUFFICES ASSUME IInv, [Next]_vars PROVE IInv'
  OBVIOUS
<1>1. CASE Next
  BY <1>1, EnqueueInvariant, SignalInvariant, ReadEventInvariant, DequeueInvariant,
     DequeueEmptyInvariant, FlushInvariant DEF Next
<1>2. CASE UNCHANGED vars
  BY <1>2 DEF vars, IInv, TypeOK, EmptiedOnlyByFlush, LengthAgrees, Announced, ExactlyAnnounced, Accounted
<1> QED
  BY <1>1, <1>2

\* The invariant holds throughout.
LEMMA Invariant == Spec => []IInv
<1> QED
  BY InitInvariant, NextInvariant, PTL DEF Spec

\* current_length stays a word of its width, and the producers about to write the
\* eventfd are producers, for any number of them (it_q.c).
THEOREM TypeCorrect == Spec => []TypeOK
<1>1. IInv => TypeOK
  BY DEF IInv
<1> QED
  BY <1>1, Invariant, PTL

\* current_length is the length of the list and stays within max_length,
\* whatever the threads do and whenever the queue is flushed.
THEOREM LengthAlwaysAgrees == Spec => []LengthAgrees
<1>1. IInv => LengthAgrees
  BY DEF IInv
<1> QED
  BY <1>1, Invariant, PTL

\* No item waits in the list without a wakeup that will reach it.
THEOREM WakeupNeverLost == Spec => []Announced
<1>1. IInv => Announced
  BY DEF IInv
<1> QED
  BY <1>1, Invariant, PTL

\* Every item enqueued is delivered or still in the list, in the order of the
\* enqueues, as long as nobody flushes.
THEOREM EveryItemAccounted == Spec => []Accounted
<1>1. IInv => Accounted
  BY DEF IInv
<1> QED
  BY <1>1, Invariant, PTL

\* A queue nobody has flushed is never dequeued while it is empty, so that the
\* missing `else' in _osmo_it_q_dequeue is reached by a flush only.
THEOREM EmptiedAfterFlushOnly == Spec => []EmptiedOnlyByFlush
<1>1. IInv => EmptiedOnlyByFlush
  BY DEF IInv
<1> QED
  BY <1>1, Invariant, PTL
============================================================================
