------------------------------ MODULE ItQueue ------------------------------
(***************************************************************************)
(* The inter-thread queue of libosmocore (it_q.c) with an event file       *)
(* descriptor: any number of threads enqueue, one thread dequeues what its *)
(* select loop is woken up for, and some thread may flush the queue.       *)
(*                                                                         *)
(* Whatever happens under queue->mutex is one step.  The eventfd is        *)
(* written after the mutex is released, and its counter is read as a whole *)
(* before the first dequeue, so the counter and the list disagree in       *)
(* between.  The list is undefined once the list head was taken out of     *)
(* itself (poisoned): the behaviours end there.  A definition marked       *)
(* `Faulty variant' is a plausible mistake, for the run that notices it.   *)
(***************************************************************************)
EXTENDS Naturals, Sequences, FiniteSets

CONSTANTS
  Producers,   \* threads that enqueue
  Item,        \* items, each enqueued at most once
  MaxLength,   \* max_length of the queue
  LengthMod,   \* number of values of current_length (2^32 in the code)
  MaxFlush     \* bound: calls of osmo_it_q_flush

ASSUME LengthAssumption == /\ MaxLength \in Nat \ {0}
                           /\ LengthMod \in Nat
                           /\ MaxLength < LengthMod
                           /\ MaxFlush \in Nat

VARIABLES
  list,            \* the items, oldest first
  current_length,  \* current_length
  event,           \* counter of the eventfd
  todo,            \* iterations left to the running osmo_it_q_fd_cb
  signalling,      \* producers between the unlock and the write to the eventfd
  poisoned,        \* a dequeue found the list empty
  flushes,         \* calls of osmo_it_q_flush so far
  entered,         \* history: the items enqueued, in order
  delivered        \* history: the items given to read_cb, in order

vars == <<list, current_length, event, todo, signalling, poisoned, flushes,
          entered, delivered>>

TypeOK ==
  /\ list \in Seq(Item)
  /\ current_length \in 0 .. LengthMod - 1
  /\ event \in Nat
  /\ todo \in Nat
  /\ signalling \in SUBSET Producers
  /\ poisoned \in BOOLEAN
  /\ flushes \in 0 .. MaxFlush
  /\ entered \in Seq(Item)
  /\ delivered \in Seq(Item)

Init ==
  /\ list = <<>>
  /\ current_length = 0
  /\ event = 0
  /\ todo = 0
  /\ signalling = {}
  /\ poisoned = FALSE
  /\ flushes = 0
  /\ entered = <<>>
  /\ delivered = <<>>

-----------------------------------------------------------------------------

\* Faulty variant: one item too many is let in.
HasRoomOff == current_length <= MaxLength

\* The room test of _osmo_it_q_enqueue; a full queue refuses with -ENOSPC.
HasRoom == current_length + 1 <= MaxLength

\* Faulty variant: llist_add in place of llist_add_tail.
EnqueueAtHead(p, item) ==
  /\ ~poisoned
  /\ p \notin signalling
  /\ \A n \in DOMAIN entered : entered[n] # item
  /\ HasRoom
  /\ list' = <<item>> \o list
  /\ current_length' = current_length + 1
  /\ signalling' = signalling \cup {p}
  /\ entered' = Append(entered, item)
  /\ UNCHANGED <<event, todo, poisoned, flushes, delivered>>

\* _osmo_it_q_enqueue, up to the unlock.
Enqueue(p, item) ==
  /\ ~poisoned
  /\ p \notin signalling
  /\ \A n \in DOMAIN entered : entered[n] # item
  /\ HasRoom
  /\ list' = Append(list, item)
  /\ current_length' = current_length + 1
  /\ signalling' = signalling \cup {p}
  /\ entered' = Append(entered, item)
  /\ UNCHANGED <<event, todo, poisoned, flushes, delivered>>

\* _osmo_it_q_enqueue: eventfd_increment, after the unlock.
Signal(p) ==
  /\ ~poisoned
  /\ p \in signalling
  /\ event' = event + 1
  /\ signalling' = signalling \ {p}
  /\ UNCHANGED <<list, current_length, todo, poisoned, flushes, entered, delivered>>

\* Faulty variant: the callback serves one item per wakeup, whatever the counter says.
ReadEventOnce ==
  /\ ~poisoned
  /\ todo = 0
  /\ event > 0
  /\ todo' = 1
  /\ event' = 0
  /\ UNCHANGED <<list, current_length, signalling, poisoned, flushes, entered, delivered>>

\* Faulty variant: the counter is read without being cleared, as with EFD_SEMAPHORE.
ReadEventKeeps ==
  /\ ~poisoned
  /\ todo = 0
  /\ event > 0
  /\ todo' = event
  /\ event' = event - 1
  /\ UNCHANGED <<list, current_length, signalling, poisoned, flushes, entered, delivered>>

\* osmo_it_q_fd_cb: the read takes the whole counter and clears it.
ReadEvent ==
  /\ ~poisoned
  /\ todo = 0
  /\ event > 0
  /\ todo' = event
  /\ event' = 0
  /\ UNCHANGED <<list, current_length, signalling, poisoned, flushes, entered, delivered>>

\* current_length--, an unsigned int.
Decremented == IF current_length = 0 THEN LengthMod - 1 ELSE current_length - 1

\* One iteration of osmo_it_q_fd_cb: _osmo_it_q_dequeue and read_cb.
Dequeue ==
  /\ ~poisoned
  /\ todo > 0
  /\ list # <<>>
  /\ list' = Tail(list)
  /\ current_length' = Decremented
  /\ todo' = todo - 1
  /\ delivered' = Append(delivered, Head(list))
  /\ UNCHANGED <<event, signalling, poisoned, flushes, entered>>

\* The same on an empty list: the NULL is overwritten by list.next, which is
\* the list head; llist_del poisons its pointers, the length goes below zero.
DequeueEmpty ==
  /\ ~poisoned
  /\ todo > 0
  /\ list = <<>>
  /\ poisoned' = TRUE
  /\ current_length' = Decremented
  /\ todo' = todo - 1
  /\ UNCHANGED <<list, event, signalling, flushes, entered, delivered>>

\* osmo_it_q_flush: the items are freed, the eventfd keeps its counter.
Flush ==
  /\ ~poisoned
  /\ flushes < MaxFlush
  /\ flushes' = flushes + 1
  /\ list' = <<>>
  /\ current_length' = 0
  /\ UNCHANGED <<event, todo, signalling, poisoned, entered, delivered>>

Next ==
  \/ \E p \in Producers, item \in Item : Enqueue(p, item)
  \/ \E p \in Producers : Signal(p)
  \/ ReadEvent
  \/ Dequeue
  \/ DequeueEmpty
  \/ Flush

Spec == Init /\ [][Next]_vars

\* A producer finishes its call, and the select loop of the consumer serves a
\* readable descriptor and runs its callback to the end.
FairSpec == /\ Spec
            /\ \A p \in Producers : WF_vars(Signal(p))
            /\ WF_vars(ReadEvent)
            /\ WF_vars(Dequeue \/ DequeueEmpty)

-----------------------------------------------------------------------------

\* The loop in osmo_it_q_fd_cb meets an empty list after a flush only: without
\* one, each of its iterations was announced by a producer whose item is still
\* in the list, however the producers and the loop interleave.
EmptiedOnlyByFlush == poisoned => flushes > 0

\* current_length, on which the limit of the queue rests, is the length of
\* the list, and the list never grows beyond max_length.
LengthAgrees == ~poisoned => /\ current_length = Len(list)
                             /\ Len(list) <= MaxLength

\* Without a flush every item was delivered or is still in the list, in the
\* order in which the producers took the mutex.
Accounted == flushes = 0 => entered = delivered \o list

\* No wakeup is lost: an item in the list is announced by the counter, by the
\* iterations under way or by a producer about to write the eventfd.
Announced == ~poisoned => Len(list) <= event + todo + Cardinality(signalling)

\* Every item enqueued is eventually delivered, unless it is flushed.
EventuallyDelivered ==
  \A item \in Item :
    (\E n \in DOMAIN entered : entered[n] = item)
      ~> ((\E n \in DOMAIN delivered : delivered[n] = item) \/ flushes > 0)
============================================================================
