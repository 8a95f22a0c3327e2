------------------------- MODULE CrossbarLaneProofs -------------------------
(***************************************************************************)
(* Machine-checked theorems about CrossbarLane, for any finite set of      *)
(* producers, any capacity and any number of events.                       *)
(***************************************************************************)
EXTENDS CrossbarLane, TLAPS, FiniteSetTheorems, SequenceTheorems

\* The stages of the shutdown protocol, the worker and its hand agree.
Stages ==
  /\ spc \in {"notify", "stop", "join", "stopped"} => closed
  /\ spc \in {"none", "flag"} => drain_on_stop
  /\ ~running /\ spc \in {"none", "flag", "stopped"} => wpc \in {"unstarted", "exited"}
  /\ stop_requested => closed
  /\ wpc \in {"drainFlag", "drain", "exited"} => closed
  /\ draining => closed
  /\ hand # <<>> <=> wpc \in {"release", "notify", "process"}

\* A producer that is about to compare-exchange has seen a free slot.
SawRoom == \A p \in Producers : ppc[p] = "cas" => n[p] < capacity_

\* The event of a call in progress has not entered the queue before.
FreshEvent ==
  /\ \A e \in acked : e[2] <= sent[e[1]]
  /\ \A p \in Producers : ppc[p] # "idle" => sent[p] >= 1 /\ CurrentEvent(p) \notin acked

\* size_ counts the slots in use; the rest of SlotAccounting follows.
Counted ==
  /\ size_ = Len(items) + Cardinality(Reserving) + (IF wpc = "release" THEN 1 ELSE 0)
  /\ size_ <= capacity_

\* The inductive invariant.
LaneInv ==
  /\ TypeOK
  /\ Counted
  /\ Stages
  /\ SawRoom
  /\ DrainComplete
  /\ FreshEvent

-----------------------------------------------------------------------------
(* Facts about the pieces of the state.                                    *)

LEMMA CapacityPositive == capacity_ \in Nat /\ capacity_ >= 1
  BY LaneAssumption DEF capacity_

LEMMA ReservingFinite == IsFiniteSet(Reserving) /\ Cardinality(Reserving) \in Nat
  <1>1. Reserving \in SUBSET Producers
    BY DEF Reserving
  <1> QED
    BY <1>1, LaneAssumption, FS_Subset, FS_CardinalityType

\* A producer that holds a reservation is counted.
LEMMA ReservingCounts ==
  ASSUME NEW p \in Producers, ppc[p] \in {"push", "undo"}
  PROVE  Cardinality(Reserving) >= 1
  <1>1. p \in Reserving
    BY DEF Reserving
  <1>2. Cardinality(Reserving) # 0
    BY <1>1, ReservingFinite, FS_EmptySet
  <1> QED
    BY <1>2, ReservingFinite

\* Steps that move no producer into or out of a reservation.
LEMMA ReservingKept ==
  ASSUME \A q \in Producers :
           ppc'[q] \in {"push", "undo"} <=> ppc[q] \in {"push", "undo"}
  PROVE  Reserving' = Reserving
  BY DEF Reserving

\* reserve_slot_ succeeded.
LEMMA ReservingGrows ==
  ASSUME TypeOK, NEW p \in Producers, ppc[p] = "cas",
         ppc' = [ppc EXCEPT ![p] = "push"]
  PROVE  Cardinality(Reserving') = Cardinality(Reserving) + 1
  <1>1. Reserving' = Reserving \cup {p} /\ p \notin Reserving
    BY DEF Reserving, TypeOK
  <1> QED
    BY <1>1, ReservingFinite, FS_AddElement

\* A reservation was used up by a push or given back.
LEMMA ReservingShrinks ==
  ASSUME TypeOK, NEW p \in Producers, ppc[p] \in {"push", "undo"},
         NEW c \in {"idle", "undone"},
         ppc' = [ppc EXCEPT ![p] = c]
  PROVE  Cardinality(Reserving') = Cardinality(Reserving) - 1
  <1>1. Reserving' = Reserving \ {p} /\ p \in Reserving
    BY DEF Reserving, TypeOK
  <1> QED
    BY <1>1, ReservingFinite, FS_RemoveElement

\* Whoever notify_one picks was asleep and only re-evaluates its predicate.
LEMMA NotifyOneEffect ==
  ASSUME TypeOK, NEW pcs \in [Producers -> ProducerStates], NotifyOne(pcs)
  PROVE  /\ ppc' \in [Producers -> ProducerStates]
         /\ \A q \in Producers :
              ppc'[q] = pcs[q] \/ (ppc[q] = "asleep" /\ ppc'[q] = "check")
  BY DEF NotifyOne, Waiters, TypeOK, ProducerStates

-----------------------------------------------------------------------------
(* The inductive invariant holds initially and is preserved.               *)

LEMMA InitInv == Init => LaneInv
  <1> SUFFICES ASSUME Init PROVE LaneInv
    OBVIOUS
  <1> USE DEF Init
  <1>1. Reserving = {}
    BY DEF Reserving
  <1>2. Cardinality(Reserving) = 0
    BY <1>1, FS_EmptySet
  <1>3. TypeOK
    <2>1. items \in Seq(Event) /\ written \in Seq(Event)
      BY EmptySeq
    <2>2. sent \in [Producers -> Nat] /\ \A p \in Producers : sent[p] <= MaxEvents[p]
      BY LaneAssumption
    <2> QED
      BY <2>1, <2>2 DEF TypeOK, ProducerStates, WorkerStates, StopStates
  <1>4. Counted
    BY <1>2, CapacityPositive DEF Counted
  <1>5. Stages /\ SawRoom /\ DrainComplete /\ FreshEvent
    BY DEF Stages, SawRoom, DrainComplete, FreshEvent
  <1> QED
    BY <1>3, <1>4, <1>5 DEF LaneInv

\* Producer steps that touch neither the queue nor a reservation.
LEMMA QuietProducerStep ==
  ASSUME LaneInv, NEW p \in Producers,
         \/ Submit(p) \/ LoopCondition(p) \/ LoadSize(p) \/ WaitLoadAccepting(p)
         \/ WaitLoadSize(p) \/ WaitBlock(p) \/ SpuriousWake(p)
  PROVE  LaneInv'
  <1> USE DEF LaneInv, queueVars, workerVars, stopVars
  <1>t. MaxEvents \in [Producers -> Nat]
    BY LaneAssumption
  <1>1. TypeOK'
    <2>1. ppc' \in [Producers -> ProducerStates]
      BY DEF TypeOK, ProducerStates, WhenFull, Submit, LoopCondition, LoadSize,
         WaitLoadAccepting, WaitLoadSize, WaitBlock, SpuriousWake
    <2>2. n' \in [Producers -> Nat]
      BY DEF TypeOK, Submit, LoopCondition, LoadSize,
         WaitLoadAccepting, WaitLoadSize, WaitBlock, SpuriousWake
    <2>3. sent' \in [Producers -> Nat] /\ \A q \in Producers : sent'[q] <= MaxEvents[q]
      <3>1. sent \in [Producers -> Nat] /\ \A q \in Producers : sent[q] <= MaxEvents[q]
        BY DEF TypeOK
      <3>2. sent' = sent \/ (sent[p] < MaxEvents[p] /\ sent' = [sent EXCEPT ![p] = @ + 1])
        BY DEF Submit, LoopCondition, LoadSize,
           WaitLoadAccepting, WaitLoadSize, WaitBlock, SpuriousWake
      <3> QED
        BY <3>1, <3>2, <1>t
    <2>4. UNCHANGED <<queueVars, workerVars, stopVars, delivery, acked>>
      BY DEF Submit, LoopCondition, LoadSize,
         WaitLoadAccepting, WaitLoadSize, WaitBlock, SpuriousWake
    <2> QED
      BY <2>1, <2>2, <2>3, <2>4 DEF TypeOK
  <1>2. Reserving' = Reserving
    BY ReservingKept DEF TypeOK, WhenFull, Submit, LoopCondition, LoadSize,
       WaitLoadAccepting, WaitLoadSize, WaitBlock, SpuriousWake
  <1>3. Counted'
    BY <1>2 DEF Counted, Submit, LoopCondition, LoadSize,
       WaitLoadAccepting, WaitLoadSize, WaitBlock, SpuriousWake
  <1>4. Stages' /\ DrainComplete'
    BY DEF Stages, DrainComplete, Submit, LoopCondition, LoadSize,
       WaitLoadAccepting, WaitLoadSize, WaitBlock, SpuriousWake
  <1>5. SawRoom'
    BY CapacityPositive DEF SawRoom, TypeOK, WhenFull, capacity_, Submit, LoopCondition,
       LoadSize, WaitLoadAccepting, WaitLoadSize, WaitBlock, SpuriousWake
  <1>6. FreshEvent'
    <2>1. ASSUME Submit(p) PROVE FreshEvent'
      <3>1. sent'[p] = sent[p] + 1 /\ sent[p] \in Nat /\ sent'[p] >= 1
        BY <2>1, <1>t DEF Submit, TypeOK
      <3>2. \A q \in Producers : q # p => sent'[q] = sent[q] /\ ppc'[q] = ppc[q]
        BY <2>1 DEF Submit, TypeOK
      <3>3. \A e \in acked : e[2] <= sent[e[1]] /\ e[1] \in Producers /\ e[2] \in Nat
        BY <1>t DEF FreshEvent, TypeOK, Event
      <3>4. <<p, sent'[p]>> \notin acked
        BY <3>1, <3>3
      <3>5. acked' = acked
        BY <2>1 DEF Submit
      <3>6. \A e \in acked : e[2] <= sent'[e[1]]
        BY <3>1, <3>2, <3>3
      <3> QED
        BY <3>1, <3>2, <3>4, <3>5, <3>6 DEF FreshEvent, CurrentEvent
    <2>2. ASSUME UNCHANGED <<sent, acked>>,
                 \A q \in Producers : ppc'[q] # "idle" => ppc[q] # "idle"
          PROVE  FreshEvent'
      BY <2>2 DEF FreshEvent, CurrentEvent
    <2> QED
      BY <2>1, <2>2 DEF TypeOK, WhenFull, LoopCondition, LoadSize,
         WaitLoadAccepting, WaitLoadSize, WaitBlock, SpuriousWake
  <1> QED
    BY <1>1, <1>2, <1>3, <1>4, <1>5, <1>6

\* reserve_slot_'s compare-exchange: a slot is counted as it is reserved, and
\* only where n = size_ < capacity_.
LEMMA CompareExchangeStep ==
  ASSUME LaneInv, NEW p \in Producers, CompareExchange(p)
  PROVE  LaneInv'
  <1> USE DEF LaneInv, queueVars, workerVars, stopVars
  <1>1. TypeOK'
    <2>1. ppc' \in [Producers -> ProducerStates]
      BY DEF TypeOK, ProducerStates, WhenFull, CompareExchange
    <2>2. n' \in [Producers -> Nat] /\ size_' \in Nat
      <3>1. n \in [Producers -> Nat] /\ size_ \in Nat
        BY DEF TypeOK
      <3>2. \/ n' = n /\ size_' = size_ + 1
            \/ n' = [n EXCEPT ![p] = size_] /\ size_' = size_
        BY DEF CompareExchange
      <3> QED
        BY <3>1, <3>2
    <2> QED
      BY <2>1, <2>2 DEF TypeOK, CompareExchange
  <1>2. Counted'
    <2>1. CASE n[p] = size_
      <3>1. Cardinality(Reserving') = Cardinality(Reserving) + 1
        BY <2>1, ReservingGrows DEF CompareExchange
      <3>2. size_' = size_ + 1 /\ size_ < capacity_ /\ UNCHANGED <<items, wpc>>
        BY <2>1 DEF CompareExchange, SawRoom
      <3>3. size_ \in Nat /\ Len(items) \in Nat
        BY LenProperties DEF TypeOK
      <3> QED
        BY <3>1, <3>2, <3>3, CapacityPositive, ReservingFinite DEF Counted, capacity_
    <2>2. CASE n[p] # size_
      <3>1. Reserving' = Reserving
        BY <2>2, ReservingKept DEF TypeOK, WhenFull, CompareExchange
      <3> QED
        BY <2>2, <3>1 DEF Counted, CompareExchange
    <2> QED
      BY <2>1, <2>2
  <1>3. Stages' /\ DrainComplete'
    BY DEF Stages, DrainComplete, CompareExchange
  <1>4. SawRoom'
    BY CapacityPositive DEF SawRoom, TypeOK, WhenFull, capacity_, CompareExchange
  <1>5. FreshEvent'
    BY DEF FreshEvent, CurrentEvent, TypeOK, WhenFull, CompareExchange
  <1> QED
    BY <1>1, <1>2, <1>3, <1>4, <1>5

\* queue_.push(): a reservation turns into a queued event, or stays for undo.
LEMMA PushStep ==
  ASSUME LaneInv, NEW p \in Producers, Push(p)
  PROVE  LaneInv'
  <1> USE DEF LaneInv, queueVars, workerVars, stopVars
  <1>e. CurrentEvent(p) \in Event
    <2>1. sent[p] \in 1..MaxEvents[p]
      BY DEF Push, FreshEvent, TypeOK
    <2> QED
      BY <2>1, LaneAssumption DEF CurrentEvent, Event
  <1>1. TypeOK'
    <2>1. items' \in Seq(Event)
      <3>1. items \in Seq(Event)
        BY DEF TypeOK
      <3>2. Append(items, CurrentEvent(p)) \in Seq(Event)
        BY <3>1, <1>e, AppendProperties
      <3> QED
        BY <3>1, <3>2 DEF Push
    <2> QED
      BY <2>1, <1>e DEF TypeOK, ProducerStates, Push
  <1>2. Counted'
    <2>1. CASE ~closed
      <3>1. Cardinality(Reserving') = Cardinality(Reserving) - 1
        BY <2>1, ReservingShrinks DEF Push
      <3>2. Len(items') = Len(items) + 1 /\ Len(items) \in Nat
        BY <2>1, <1>e, AppendProperties, LenProperties DEF Push, TypeOK
      <3>3. UNCHANGED <<size_, wpc>>
        BY DEF Push
      <3> QED
        BY <3>1, <3>2, <3>3, ReservingFinite DEF Counted, capacity_
    <2>2. CASE closed
      <3>1. Reserving' = Reserving
        BY <2>2, ReservingKept DEF TypeOK, Push
      <3> QED
        BY <2>2, <3>1 DEF Counted, Push
    <2> QED
      BY <2>1, <2>2 DEF TypeOK
  <1>3. Stages' /\ DrainComplete'
    BY DEF Stages, DrainComplete, Push
  <1>4. SawRoom'
    BY DEF SawRoom, TypeOK, Push, capacity_
  <1>5. FreshEvent'
    <2>1. \A q \in Producers : ppc'[q] # "idle" =>
             ppc[q] # "idle" /\ (q # p \/ acked' = acked)
      BY DEF Push, TypeOK
    <2>2. acked' = acked \/ acked' = acked \cup {<<p, sent[p]>>}
      BY DEF Push, CurrentEvent
    <2>3. sent' = sent /\ sent[p] \in Nat
      BY LaneAssumption DEF Push, TypeOK
    <2> QED
      BY <2>1, <2>2, <2>3 DEF FreshEvent, CurrentEvent
  <1> QED
    BY <1>1, <1>2, <1>3, <1>4, <1>5

\* release_slot_ after a refused push.
LEMMA UndoStep ==
  ASSUME LaneInv, NEW p \in Producers, UndoReserve(p) \/ UndoNotify(p)
  PROVE  LaneInv'
  <1> USE DEF LaneInv, queueVars, workerVars, stopVars
  <1>l. Len(items) \in Nat
    BY LenProperties DEF TypeOK
  <1>1. CASE UndoReserve(p)
    <2> USE <1>1
    <2>1. Cardinality(Reserving) >= 1
      BY ReservingCounts DEF UndoReserve
    <2>2. Cardinality(Reserving') = Cardinality(Reserving) - 1
      BY ReservingShrinks DEF UndoReserve
    <2>3. UNCHANGED <<items, wpc>> /\ size_' = size_ - 1
      BY DEF UndoReserve
    <2>4. size_ \in Nat /\ size_ >= 1
      BY <1>l, <2>1, ReservingFinite DEF Counted, TypeOK
    <2>5. Counted'
      BY <1>l, <2>2, <2>3, <2>4, ReservingFinite, CapacityPositive DEF Counted, capacity_
    <2>6. TypeOK'
      BY <2>4 DEF TypeOK, ProducerStates, UndoReserve
    <2>7. Stages' /\ DrainComplete' /\ SawRoom' /\ FreshEvent'
      BY DEF Stages, DrainComplete, SawRoom, FreshEvent, CurrentEvent, UndoReserve, TypeOK, capacity_
    <2> QED
      BY <2>5, <2>6, <2>7
  <1>2. CASE UndoNotify(p)
    <2> USE <1>2
    <2> DEFINE pcs == [ppc EXCEPT ![p] = "idle"]
    <2>1. pcs \in [Producers -> ProducerStates]
      BY DEF TypeOK, ProducerStates
    <2>2. /\ ppc' \in [Producers -> ProducerStates]
          /\ \A q \in Producers : ppc'[q] = pcs[q] \/ (ppc[q] = "asleep" /\ ppc'[q] = "check")
      BY <2>1, NotifyOneEffect DEF UndoNotify
    <2>3. \A q \in Producers : \/ ppc'[q] = ppc[q]
                               \/ ppc[q] = "asleep" /\ ppc'[q] = "check"
                               \/ ppc[q] = "undone" /\ ppc'[q] = "idle"
      BY <2>2 DEF TypeOK, UndoNotify
    <2> HIDE DEF pcs
    <2>4. Reserving' = Reserving
      BY <2>3, ReservingKept
    <2>5. TypeOK'
      BY <2>2 DEF TypeOK, UndoNotify
    <2>6. Counted' /\ Stages' /\ DrainComplete'
      BY <2>4 DEF Counted, Stages, DrainComplete, UndoNotify
    <2>7. SawRoom' /\ FreshEvent'
      BY <2>3 DEF SawRoom, FreshEvent, CurrentEvent, UndoNotify, capacity_
    <2> QED
      BY <2>5, <2>6, <2>7
  <1> QED
    BY <1>1, <1>2

\* The worker pops an event: its slot stays counted until release_slot_.
LEMMA TakeStep ==
  ASSUME LaneInv, PopBlocking \/ DrainTake
  PROVE  LaneInv'
  <1> USE DEF LaneInv, producerVars, stopVars, PopBlocking, DrainTake
  <1>1. /\ items # <<>> /\ hand' = <<Head(items)>> /\ items' = Tail(items)
        /\ wpc \in {"pop", "drain"} /\ wpc' = "release"
        /\ UNCHANGED <<size_, closed, producerVars, stopVars, delivery, draining, written>>
    BY DEF TakeOldest
  <1>2. items \in Seq(Event)
    BY DEF TypeOK
  <1>3. /\ Head(items) \in Event /\ Tail(items) \in Seq(Event)
        /\ Len(Tail(items)) = Len(items) - 1 /\ Len(items) \in Nat
    BY <1>1, <1>2, HeadTailProperties, LenProperties
  <1>4. Reserving' = Reserving
    BY <1>1, ReservingKept
  <1>5. TypeOK'
    BY <1>1, <1>3 DEF TypeOK, WorkerStates
  <1>6. Counted'
    BY <1>1, <1>3, <1>4, ReservingFinite DEF Counted, capacity_
  <1>7. Stages' /\ DrainComplete'
    BY <1>1 DEF Stages, DrainComplete
  <1>8. SawRoom' /\ FreshEvent'
    BY <1>1 DEF SawRoom, FreshEvent, CurrentEvent, capacity_
  <1> QED
    BY <1>5, <1>6, <1>7, <1>8

\* The worker's other steps.
LEMMA OtherWorkerStep ==
  ASSUME LaneInv, \/ PopEnds \/ ReleaseSlot \/ ReleaseNotify
                  \/ Process \/ LoadDrainFlag \/ DrainEnd
  PROVE  LaneInv'
  <1> USE DEF LaneInv, queueVars, producerVars, stopVars
  <1>l. Len(items) \in Nat
    BY LenProperties DEF TypeOK
  <1>1. CASE PopEnds \/ LoadDrainFlag \/ DrainEnd
    <2>1. Reserving' = Reserving
      BY <1>1, ReservingKept DEF PopEnds, LoadDrainFlag, DrainEnd
    <2>2. TypeOK'
      BY <1>1 DEF TypeOK, WorkerStates, PopEnds, LoadDrainFlag, DrainEnd
    <2>3. Counted'
      BY <1>1, <2>1 DEF Counted, PopEnds, LoadDrainFlag, DrainEnd
    <2>4. Stages' /\ DrainComplete'
      BY <1>1 DEF Stages, DrainComplete, PopEnds, LoadDrainFlag, DrainEnd
    <2>5. SawRoom' /\ FreshEvent'
      BY <1>1 DEF SawRoom, FreshEvent, CurrentEvent, capacity_, PopEnds, LoadDrainFlag, DrainEnd
    <2> QED
      BY <2>2, <2>3, <2>4, <2>5
  <1>2. CASE ReleaseSlot
    <2> USE <1>2 DEF ReleaseSlot
    <2>1. Reserving' = Reserving
      BY ReservingKept
    <2>2. size_ >= 1 /\ size_ \in Nat
      BY <1>l, ReservingFinite DEF Counted, TypeOK
    <2>3. TypeOK'
      BY <2>2 DEF TypeOK, WorkerStates
    <2>4. Counted'
      BY <1>l, <2>1, <2>2, ReservingFinite, CapacityPositive DEF Counted, capacity_
    <2>5. Stages' /\ DrainComplete'
      BY DEF Stages, DrainComplete
    <2>6. SawRoom' /\ FreshEvent'
      BY DEF SawRoom, FreshEvent, CurrentEvent, capacity_
    <2> QED
      BY <2>3, <2>4, <2>5, <2>6
  <1>3. CASE ReleaseNotify
    <2> USE <1>3
    <2>1. /\ ppc' \in [Producers -> ProducerStates]
          /\ \A q \in Producers : ppc'[q] = ppc[q] \/ (ppc[q] = "asleep" /\ ppc'[q] = "check")
      BY NotifyOneEffect DEF ReleaseNotify, TypeOK
    <2>2. Reserving' = Reserving
      BY <2>1, ReservingKept
    <2>3. TypeOK'
      BY <2>1 DEF TypeOK, WorkerStates, ReleaseNotify
    <2>4. Counted' /\ Stages' /\ DrainComplete'
      BY <2>2 DEF Counted, Stages, DrainComplete, ReleaseNotify
    <2>5. SawRoom' /\ FreshEvent'
      BY <2>1 DEF SawRoom, FreshEvent, CurrentEvent, capacity_, ReleaseNotify
    <2> QED
      BY <2>3, <2>4, <2>5
  <1>4. CASE Process
    <2> USE <1>4 DEF Process
    <2>1. Reserving' = Reserving
      BY ReservingKept
    <2>2. Head(hand) \in Event
      <3>1. PICK e \in Event : hand = <<e>>
        BY DEF Stages, TypeOK
      <3> QED
        BY <3>1
    <2>3. written' \in Seq(Event)
      <3>1. written \in Seq(Event)
        BY DEF TypeOK
      <3>2. Append(written, Head(hand)) \in Seq(Event)
        BY <3>1, <2>2, AppendProperties
      <3> QED
        BY <3>1, <3>2
    <2>4. TypeOK'
      BY <2>3 DEF TypeOK, WorkerStates
    <2>5. Counted' /\ Stages' /\ DrainComplete'
      BY <2>1 DEF Counted, Stages, DrainComplete
    <2>6. SawRoom' /\ FreshEvent'
      BY DEF SawRoom, FreshEvent, CurrentEvent, capacity_
    <2> QED
      BY <2>4, <2>5, <2>6
  <1> QED
    BY <1>1, <1>2, <1>3, <1>4

\* The shutdown protocol, start() and the end.
LEMMA ControlStep ==
  ASSUME LaneInv, Start \/ StopAccepting \/ Reconfigure \/ StopStep \/ Finished
  PROVE  LaneInv'
  <1> USE DEF LaneInv, vars, queueVars, producerVars, workerVars, stopVars
  <1>1. /\ ppc' \in [Producers -> ProducerStates]
        /\ \A q \in Producers : ppc'[q] = ppc[q] \/ (ppc[q] = "asleep" /\ ppc'[q] = "check")
    BY DEF TypeOK, ProducerStates, Waiters, Start, StopAccepting, Reconfigure, StopStep,
       SetDrainFlag, CloseQueue, NotifyAll, RequestStop, Join, ReplaceCrossbar, Finished
  <1>2. UNCHANGED <<size_, items, n, sent, acked, hand, written, delivery>>
    BY DEF Start, StopAccepting, Reconfigure, StopStep, SetDrainFlag,
       CloseQueue, NotifyAll, RequestStop, Join, ReplaceCrossbar, Finished
  <1>3. Reserving' = Reserving
    BY <1>1, ReservingKept
  <1>4. \/ UNCHANGED <<wpc, draining>>
        \/ /\ wpc \in {"unstarted", "exited"} /\ wpc' = "pop" /\ draining' = FALSE
           /\ stop_requested' = FALSE /\ UNCHANGED <<closed, spc>>
           /\ drain_on_stop' = TRUE /\ running' = TRUE
    BY DEF Start, WorkerMutexFree, Stages, StopAccepting, Reconfigure, StopStep, SetDrainFlag,
       CloseQueue, NotifyAll, RequestStop, Join, ReplaceCrossbar, Finished
  <1>5. TypeOK'
    <2>1. /\ closed' \in BOOLEAN /\ accepting' \in BOOLEAN /\ drain_on_stop' \in BOOLEAN
          /\ stop_requested' \in BOOLEAN /\ spc' \in StopStates /\ running' \in BOOLEAN
      BY DEF TypeOK, StopStates, Start, StopAccepting, Reconfigure, StopStep, SetDrainFlag,
         CloseQueue, NotifyAll, RequestStop, Join, ReplaceCrossbar, Finished
    <2> QED
      BY <1>1, <1>2, <1>4, <2>1 DEF TypeOK, WorkerStates
  <1>6. Counted' /\ SawRoom' /\ FreshEvent'
    BY <1>1, <1>2, <1>3, <1>4 DEF Counted, SawRoom, FreshEvent, CurrentEvent, capacity_
  <1>7. Stages'
    <2>1. CASE UNCHANGED <<wpc, draining>>
      BY <1>2, <2>1 DEF TypeOK, StopStates, Stages, Start, StopAccepting, Reconfigure,
         QueueDestroyed, StopStep, SetDrainFlag, CloseQueue, NotifyAll, RequestStop, Join,
         ReplaceCrossbar, Finished
    <2>2. CASE /\ wpc \in {"unstarted", "exited"} /\ wpc' = "pop" /\ draining' = FALSE
               /\ stop_requested' = FALSE /\ UNCHANGED <<closed, spc>>
               /\ drain_on_stop' = TRUE /\ running' = TRUE
      BY <1>2, <2>2 DEF Stages
    <2> QED
      BY <1>4, <2>1, <2>2
  <1>8. DrainComplete'
    BY <1>2, <1>4 DEF Stages, DrainComplete, Start, StopAccepting, Reconfigure, QueueDestroyed,
       StopStep, SetDrainFlag, CloseQueue, NotifyAll, RequestStop, Join, ReplaceCrossbar, Finished
  <1> QED
    BY <1>5, <1>6, <1>7, <1>8

LEMMA NextInv == LaneInv /\ [Next]_vars => LaneInv'
  <1> SUFFICES ASSUME LaneInv, [Next]_vars PROVE LaneInv'
    OBVIOUS
  <1>1. ASSUME NEW p \in Producers, Submit(p) \/ ProducerStep(p) \/ SpuriousWake(p)
        PROVE  LaneInv'
    BY <1>1, QuietProducerStep, CompareExchangeStep, PushStep, UndoStep DEF ProducerStep
  <1>2. ASSUME WorkerStep PROVE LaneInv'
    BY <1>2, TakeStep, OtherWorkerStep DEF WorkerStep
  <1>3. ASSUME Start \/ StopAccepting \/ Reconfigure \/ StopStep \/ Finished PROVE LaneInv'
    BY <1>3, ControlStep
  <1>4. CASE UNCHANGED vars
    BY <1>4 DEF LaneInv, TypeOK, Counted, Reserving, Stages, SawRoom, DrainComplete,
       FreshEvent, CurrentEvent, capacity_,
       vars, queueVars, producerVars, workerVars, stopVars
  <1> QED
    BY <1>1, <1>2, <1>3, <1>4 DEF Next

LEMMA LaneInvariant == Spec => []LaneInv
  BY InitInv, NextInv, PTL DEF Spec

-----------------------------------------------------------------------------
(* The theorems.                                                           *)

\* Every variable of the lane keeps its type; in particular size_, an unsigned
\* std::size_t decremented without a test in release_slot_, never goes below 0.
THEOREM TypeCorrect == Spec => []TypeOK
  BY LaneInvariant, PTL DEF LaneInv

\* reserve_slot_ and release_slot_ keep size_ equal to the events queued plus the
\* slots in use on either side of the queue, and within capacity_; with no slot in use
\* there is room, even if the configured capacity is zero.
THEOREM SlotsAreAccounted == Spec => []SlotAccounting
  <1>1. LaneInv => SlotAccounting
    <2> SUFFICES ASSUME LaneInv PROVE SlotAccounting
      OBVIOUS
    <2>1. Counted
      BY DEF LaneInv
    <2>2. ASSUME items = <<>>, Reserving = {}, wpc # "release" PROVE size_ < capacity_
      <3>1. Cardinality(Reserving) = 0
        BY <2>2, FS_EmptySet
      <3>2. size_ = 0
        BY <2>1, <2>2, <3>1 DEF Counted
      <3> QED
        BY <3>2, CapacityPositive
    <2> QED
      BY <2>1, <2>2 DEF Counted, SlotAccounting
  <1> QED
    BY <1>1, LaneInvariant, PTL

\* lane_loop_ leaves nothing behind when it returns from a graceful close().
THEOREM GracefulCloseDrains == Spec => []DrainComplete
  BY LaneInvariant, PTL DEF LaneInv

-----------------------------------------------------------------------------
(* The lane implements EventChannel.                                       *)

LEMMA RefinesInit == Init => Channel!Init
  BY DEF Init, Channel!Init

LEMMA RefinesNext == LaneInv /\ [Next]_vars => [Channel!Next]_(Channel!vars)
  <1> SUFFICES ASSUME LaneInv, [Next]_vars PROVE [Channel!Next]_(Channel!vars)
    OBVIOUS
  <1> DEFINE Invisible == UNCHANGED <<closed, acked, items, hand, written>>
  <1>0. ASSUME Invisible PROVE UNCHANGED Channel!vars
    BY <1>0 DEF Channel!vars
  <1>1. ASSUME NEW p \in Producers, Push(p), ~closed
        PROVE  Channel!Enqueue(CurrentEvent(p)) /\ CurrentEvent(p) \in Event
    <2>1. Cardinality(Reserving) >= 1
      BY <1>1, ReservingCounts DEF Push
    <2>2. Len(items) < capacity_
      <3>1. Len(items) \in Nat
        BY LenProperties DEF LaneInv, TypeOK
      <3> QED
        BY <2>1, <3>1, ReservingFinite, CapacityPositive DEF LaneInv, Counted
    <2>3. sent[p] \in 1..MaxEvents[p] /\ CurrentEvent(p) \notin acked
      BY <1>1 DEF Push, LaneInv, FreshEvent, TypeOK
    <2>4. CurrentEvent(p) \in Event
      BY <2>3, LaneAssumption DEF CurrentEvent, Event
    <2> QED
      BY <1>1, <2>2, <2>3, <2>4 DEF Push, Channel!Enqueue, workerVars
  <1>2. ASSUME TakeOldest, wpc \in {"pop", "drain"} PROVE Channel!Dequeue
    <2>1. hand = <<>>
      BY <1>2 DEF LaneInv, Stages
    <2> QED
      BY <1>2, <2>1 DEF TakeOldest, Channel!Dequeue, producerVars
  <1>3. ASSUME Process PROVE Channel!Consume
    <2>1. PICK e \in Event : hand = <<e>>
      BY <1>3 DEF Process, LaneInv, Stages, TypeOK
    <2>2. hand # <<>> /\ Head(hand) = e
      BY <2>1
    <2> QED
      BY <1>3, <2>1, <2>2 DEF Process, Channel!Consume, queueVars, producerVars
  <1>4. ASSUME CloseQueue, ~closed PROVE Channel!Close
    BY <1>4 DEF CloseQueue, Channel!Close, producerVars, workerVars
  <1>5. ASSUME NEW p \in Producers, Submit(p) \/ ProducerStep(p) \/ SpuriousWake(p),
               ~(Push(p) /\ ~closed)
        PROVE  Invisible
    BY <1>5 DEF ProducerStep, queueVars, workerVars, Submit, LoopCondition, LoadSize,
       CompareExchange, Push, UndoReserve, UndoNotify, WaitLoadAccepting, WaitLoadSize,
       WaitBlock, SpuriousWake
  <1>6. ASSUME WorkerStep, ~PopBlocking, ~DrainTake, ~Process PROVE Invisible
    BY <1>6 DEF WorkerStep, queueVars, producerVars, PopEnds, ReleaseSlot, ReleaseNotify,
       LoadDrainFlag, DrainEnd
  <1>7. ASSUME Start \/ StopAccepting \/ Reconfigure \/ StopStep \/ Finished,
               ~(CloseQueue /\ ~closed)
        PROVE  Invisible
    <2>1. closed \in BOOLEAN
      BY DEF LaneInv, TypeOK
    <2> QED
      BY <1>7, <2>1 DEF vars, queueVars, producerVars, workerVars, Start, StopAccepting, Reconfigure,
         StopStep, SetDrainFlag, CloseQueue, NotifyAll, RequestStop, Join, ReplaceCrossbar, Finished
  <1>8. ASSUME UNCHANGED vars PROVE Invisible
    BY <1>8 DEF vars, queueVars, producerVars, workerVars
  <1> HIDE DEF Invisible
  <1>9. CASE \E p \in Producers : Submit(p) \/ ProducerStep(p) \/ SpuriousWake(p)
    BY <1>9, <1>0, <1>1, <1>5 DEF Channel!Next
  <1>10. CASE WorkerStep
    BY <1>10, <1>0, <1>2, <1>3, <1>6 DEF Channel!Next, PopBlocking, DrainTake
  <1>11. CASE Start \/ StopAccepting \/ Reconfigure \/ StopStep \/ Finished
    BY <1>11, <1>0, <1>4, <1>7 DEF Channel!Next
  <1> QED
    BY <1>0, <1>8, <1>9, <1>10, <1>11 DEF Next

\* The lane, with all its atomics, waiting and shutdown flags, implements the
\* bounded first-in first-out channel.
THEOREM LaneImplementsChannel == Spec => LaneRefinement
  BY RefinesInit, RefinesNext, LaneInvariant, PTL DEF Spec, LaneRefinement, Channel!Spec

-----------------------------------------------------------------------------
(* What the lane has accepted is kept, and in order.                       *)

\* The four steps that move events, as the channel sees them; no other step
\* touches them.
Enters(p) ==
  /\ ppc[p] # "idle"
  /\ items' = Append(items, CurrentEvent(p)) /\ acked' = acked \cup {CurrentEvent(p)}
  /\ UNCHANGED <<hand, written>>

Taken ==
  /\ items # <<>> /\ hand = <<>>
  /\ hand' = <<Head(items)>> /\ items' = Tail(items)
  /\ UNCHANGED <<acked, written>>

Handled ==
  /\ \E e \in Event :
       /\ hand = <<e>>
       /\ written' = IF RoutePasses(e) THEN Append(written, e) ELSE written
  /\ hand' = <<>>
  /\ UNCHANGED <<acked, items>>

Untouched == UNCHANGED <<acked, items, hand, written>>

LEMMA EventMoves ==
  ASSUME LaneInv, [Next]_vars
  PROVE  (\E p \in Producers : Enters(p)) \/ Taken \/ Handled \/ Untouched
  <1>1. ASSUME NEW p \in Producers, Push(p), ~closed PROVE Enters(p)
    BY <1>1 DEF Push, Enters, workerVars
  <1>2. ASSUME PopBlocking \/ DrainTake PROVE Taken
    <2>1. hand = <<>>
      BY <1>2 DEF LaneInv, Stages, PopBlocking, DrainTake
    <2> QED
      BY <1>2, <2>1 DEF PopBlocking, DrainTake, TakeOldest, Taken, producerVars
  <1>3. ASSUME Process PROVE Handled
    <2>1. PICK e \in Event : hand = <<e>>
      BY <1>3 DEF Process, LaneInv, Stages, TypeOK
    <2>2. Head(hand) = e
      BY <2>1
    <2> QED
      BY <1>3, <2>1, <2>2 DEF Process, Handled, queueVars, producerVars
  <1>4. ASSUME NEW p \in Producers, Submit(p) \/ ProducerStep(p) \/ SpuriousWake(p),
               ~(Push(p) /\ ~closed)
        PROVE  Untouched
    BY <1>4 DEF Untouched, ProducerStep, queueVars, workerVars, Submit, LoopCondition, LoadSize,
       CompareExchange, Push, UndoReserve, UndoNotify, WaitLoadAccepting, WaitLoadSize,
       WaitBlock, SpuriousWake
  <1>5. ASSUME WorkerStep, ~PopBlocking, ~DrainTake, ~Process PROVE Untouched
    BY <1>5 DEF Untouched, WorkerStep, queueVars, producerVars, PopEnds, ReleaseSlot,
       ReleaseNotify, LoadDrainFlag, DrainEnd
  <1>6. ASSUME Start \/ StopAccepting \/ Reconfigure \/ StopStep \/ Finished PROVE Untouched
    BY <1>6 DEF Untouched, vars, queueVars, producerVars, workerVars, Start, StopAccepting,
       Reconfigure, StopStep, SetDrainFlag, CloseQueue, NotifyAll, RequestStop, Join,
       ReplaceCrossbar, Finished
  <1>7. ASSUME UNCHANGED vars PROVE Untouched
    BY <1>7 DEF Untouched, vars, queueVars, producerVars, workerVars
  <1> QED
    BY <1>1, <1>2, <1>3, <1>4, <1>5, <1>6, <1>7 DEF Next, WorkerStep

Elems(s) == {s[i] : i \in DOMAIN s}

LEMMA ElemsAppend ==
  ASSUME NEW S, NEW s \in Seq(S), NEW e \in S
  PROVE  Elems(Append(s, e)) = Elems(s) \cup {e}
  <1>1. /\ DOMAIN s = 1..Len(s) /\ Len(s) \in Nat
        /\ DOMAIN Append(s, e) = 1..(Len(s) + 1)
    BY AppendProperties, LenProperties
  <1>2. /\ \A i \in 1..Len(s) : Append(s, e)[i] = s[i]
        /\ Append(s, e)[Len(s) + 1] = e
    BY AppendProperties
  <1> QED
    BY <1>1, <1>2 DEF Elems

LEMMA ElemsHeadTail ==
  ASSUME NEW S, NEW s \in Seq(S), s # <<>>
  PROVE  Elems(s) = {Head(s)} \cup Elems(Tail(s))
  <1>1. /\ DOMAIN s = 1..Len(s) /\ Len(s) \in Nat /\ Len(s) > 0
        /\ Tail(s) \in Seq(S) /\ Len(Tail(s)) = Len(s) - 1
        /\ DOMAIN Tail(s) = 1..(Len(s) - 1)
    BY HeadTailProperties, LenProperties, EmptySeq
  <1>2. Head(s) = s[1] /\ \A i \in 1..(Len(s) - 1) : Tail(s)[i] = s[i + 1]
    BY <1>1, HeadTailProperties
  <1>3. ASSUME NEW i \in 2..Len(s) PROVE s[i] = Tail(s)[i - 1] /\ i - 1 \in 1..(Len(s) - 1)
    BY <1>1, <1>2
  <1>4. ASSUME NEW x \in Elems(s) PROVE x = Head(s) \/ x \in Elems(Tail(s))
    <2>1. PICK i \in 1..Len(s) : x = s[i]
      BY <1>1, <1>4 DEF Elems
    <2>2. CASE i = 1
      BY <1>2, <2>1, <2>2
    <2>3. CASE i # 1
      <3>1. i \in 2..Len(s)
        BY <1>1, <2>3
      <3> QED
        BY <1>1, <1>3, <2>1, <3>1 DEF Elems
    <2> QED
      BY <2>2, <2>3
  <1>5. Head(s) \in Elems(s)
    BY <1>1, <1>2 DEF Elems
  <1>6. ASSUME NEW x \in Elems(Tail(s)) PROVE x \in Elems(s)
    <2>1. PICK i \in 1..(Len(s) - 1) : x = Tail(s)[i]
      BY <1>1, <1>6 DEF Elems
    <2>2. i + 1 \in 1..Len(s) /\ x = s[i + 1]
      BY <1>1, <1>2, <2>1
    <2> QED
      BY <1>1, <2>2 DEF Elems
  <1> QED
    BY <1>4, <1>5, <1>6

LEMMA ElemsSmall == Elems(<<>>) = {} /\ \A e : Elems(<<e>>) = {e}
  BY DEF Elems

Passes(S) == {e \in S : RoutePasses(e)}

LEMMA LostUnfolded ==
  NothingLost <=>
    /\ Elems(written) \cup Passes(Elems(items) \cup Elems(hand)) = Passes(acked)
    /\ Elems(items) \cup Elems(hand) \subseteq acked
  BY DEF NothingLost, Elems, Passes

LEMMA LostUnfoldedNext ==
  NothingLost' <=>
    /\ Elems(written') \cup Passes(Elems(items') \cup Elems(hand')) = Passes(acked')
    /\ Elems(items') \cup Elems(hand') \subseteq acked'
  BY DEF NothingLost, Elems, Passes

\* A producer inside a call has an event of its own.
LEMMA CurrentIsEvent ==
  ASSUME LaneInv, NEW p \in Producers, ppc[p] # "idle"
  PROVE  CurrentEvent(p) \in Event
  <1>1. sent[p] \in 1..MaxEvents[p]
    BY DEF LaneInv, FreshEvent, TypeOK
  <1> QED
    BY <1>1, LaneAssumption DEF CurrentEvent, Event

LEMMA NothingLostStep ==
  ASSUME LaneInv, NothingLost, [Next]_vars
  PROVE  NothingLost'
  <1>0. /\ Elems(written) \cup Passes(Elems(items) \cup Elems(hand)) = Passes(acked)
        /\ Elems(items) \cup Elems(hand) \subseteq acked
        /\ items \in Seq(Event) /\ written \in Seq(Event)
    BY LostUnfolded DEF LaneInv, TypeOK
  <1>1. ASSUME NEW p \in Producers, Enters(p) PROVE NothingLost'
    <2>1. Elems(items') = Elems(items) \cup {CurrentEvent(p)}
      BY <1>0, <1>1, CurrentIsEvent, ElemsAppend DEF Enters
    <2>2. acked' = acked \cup {CurrentEvent(p)} /\ UNCHANGED <<hand, written>>
      BY <1>1 DEF Enters
    <2> QED
      BY <1>0, <2>1, <2>2, LostUnfoldedNext DEF Passes
  <1>2. ASSUME Taken PROVE NothingLost'
    <2>1. Elems(items) \cup Elems(hand) = Elems(items') \cup Elems(hand')
      BY <1>0, <1>2, ElemsHeadTail, ElemsSmall DEF Taken
    <2> QED
      BY <1>0, <1>2, <2>1, LostUnfoldedNext DEF Taken
  <1>3. ASSUME Handled PROVE NothingLost'
    <2>1. PICK e \in Event :
            hand = <<e>> /\ written' = IF RoutePasses(e) THEN Append(written, e) ELSE written
      BY <1>3 DEF Handled
    <2>2. Elems(hand) = {e} /\ Elems(hand') = {}
      BY <1>3, <2>1, ElemsSmall DEF Handled
    <2>3. Elems(written') = IF RoutePasses(e) THEN Elems(written) \cup {e} ELSE Elems(written)
      <3>1. Elems(Append(written, e)) = Elems(written) \cup {e}
        BY <1>0, ElemsAppend
      <3> QED
        BY <2>1, <3>1
    <2>4. UNCHANGED <<acked, items>>
      BY <1>3 DEF Handled
    <2> QED
      BY <1>0, <2>2, <2>3, <2>4, LostUnfoldedNext DEF Passes
  <1>4. ASSUME Untouched PROVE NothingLost'
    BY <1>0, <1>4, LostUnfoldedNext DEF Untouched
  <1> QED
    BY <1>1, <1>2, <1>3, <1>4, EventMoves

\* No event whose push succeeded is lost or invented between the queue and the
\* sink, for any number of producers and whatever shutdown interrupts.
THEOREM AcceptedIsKept == Spec => []NothingLost
  <1>1. Init => NothingLost
    BY LostUnfolded, ElemsSmall DEF Init, Passes
  <1>2. LaneInv /\ NothingLost /\ [Next]_vars => NothingLost'
    BY NothingLostStep
  <1> QED
    BY <1>1, <1>2, LaneInvariant, PTL DEF Spec

-----------------------------------------------------------------------------
(* Each producer's order.                                                  *)

InOrder(s) ==
  \A i, j \in DOMAIN s : i < j /\ s[i][1] = s[j][1] => s[i][2] < s[j][2]

LEMMA ConcatIndex ==
  ASSUME NEW S, NEW a \in Seq(S), NEW b \in Seq(S)
  PROVE  /\ a \o b \in Seq(S)
         /\ Len(a) \in Nat /\ Len(b) \in Nat
         /\ DOMAIN (a \o b) = 1..(Len(a) + Len(b))
         /\ \A i \in 1..Len(a) : (a \o b)[i] = a[i]
         /\ \A i \in 1..Len(b) : (a \o b)[Len(a) + i] = b[i]
  <1>1. /\ a \o b \in Seq(S) /\ Len(a \o b) = Len(a) + Len(b)
        /\ \A i \in 1..(Len(a) + Len(b)) : (a \o b)[i] = IF i <= Len(a) THEN a[i] ELSE b[i - Len(a)]
    BY ConcatProperties
  <1>2. Len(a) \in Nat /\ Len(b) \in Nat
    BY LenProperties
  <1>3. DOMAIN (a \o b) = 1..(Len(a) + Len(b))
    BY <1>1, LenProperties
  <1>4. ASSUME NEW i \in 1..Len(a) PROVE (a \o b)[i] = a[i]
    BY <1>1, <1>2
  <1>5. ASSUME NEW i \in 1..Len(b) PROVE (a \o b)[Len(a) + i] = b[i]
    <2>1. /\ Len(a) + i \in 1..(Len(a) + Len(b)) /\ ~(Len(a) + i <= Len(a))
          /\ (Len(a) + i) - Len(a) = i
      BY <1>2
    <2> QED
      BY <1>1, <2>1
  <1> QED
    BY <1>1, <1>2, <1>3, <1>4, <1>5

LEMMA ElemsConcat ==
  ASSUME NEW S, NEW a \in Seq(S), NEW b \in Seq(S)
  PROVE  Elems(a \o b) \subseteq Elems(a) \cup Elems(b)
  <1> SUFFICES ASSUME NEW i \in DOMAIN (a \o b) PROVE (a \o b)[i] \in Elems(a) \cup Elems(b)
    BY DEF Elems
  <1>1. /\ Len(a) \in Nat /\ Len(b) \in Nat /\ i \in 1..(Len(a) + Len(b))
        /\ DOMAIN a = 1..Len(a) /\ DOMAIN b = 1..Len(b)
    BY ConcatIndex, LenProperties
  <1>2. CASE i <= Len(a)
    <2>1. i \in DOMAIN a /\ (a \o b)[i] = a[i]
      BY <1>1, <1>2, ConcatIndex
    <2> QED
      BY <2>1 DEF Elems
  <1>3. CASE ~(i <= Len(a))
    <2>1. i - Len(a) \in DOMAIN b /\ Len(a) + (i - Len(a)) = i
      BY <1>1, <1>3
    <2>2. (a \o b)[i] = b[i - Len(a)]
      BY <1>1, <2>1, ConcatIndex
    <2> QED
      BY <2>1, <2>2 DEF Elems
  <1> QED
    BY <1>2, <1>3

LEMMA HeadThenTail ==
  ASSUME NEW S, NEW s \in Seq(S), s # <<>>
  PROVE  s = <<Head(s)>> \o Tail(s)
  <1>1. Head(s) \in S /\ Tail(s) \in Seq(S)
    BY HeadTailProperties
  <1>2. SubSeq(s, 1, Len(s)) = <<s[1]>> \o SubSeq(s, 2, Len(s))
    <2>1. Len(s) \in Nat /\ Len(s) > 0
      BY LenProperties, EmptySeq
    <2>2. 1 \in 1..Len(s) /\ Len(s) \in 1..Len(s)
      BY <2>1
    <2>3. SubSeq(s, 1, Len(s)) = <<s[1]>> \o SubSeq(s, 1 + 1, Len(s))
      BY <2>2, SubSeqRecursiveFirst
    <2> QED
      BY <2>3
  <1>3. SubSeq(s, 1, Len(s)) = s
    BY SubSeqFull
  <1> QED
    BY <1>2, <1>3, TailIsSubSeq

\* An event with a larger number than its producer's others goes to the end.
LEMMA OrderedAppend ==
  ASSUME NEW s \in Seq(Event), InOrder(s), NEW e \in Event,
         \A x \in Elems(s) : x[1] = e[1] => x[2] < e[2]
  PROVE  InOrder(Append(s, e))
  <1> DEFINE q == Append(s, e)
  <1>1. /\ DOMAIN s = 1..Len(s) /\ Len(s) \in Nat /\ DOMAIN q = 1..(Len(s) + 1)
        /\ \A i \in 1..Len(s) : q[i] = s[i]
        /\ q[Len(s) + 1] = e
    BY AppendProperties, LenProperties
  <1>2. ASSUME NEW i \in 1..Len(s) PROVE q[i][1] = e[1] => q[i][2] < e[2]
    BY <1>1 DEF Elems
  <1> HIDE DEF q
  <1> SUFFICES ASSUME NEW i \in DOMAIN q, NEW j \in DOMAIN q, i < j, q[i][1] = q[j][1]
               PROVE  q[i][2] < q[j][2]
    BY DEF InOrder, q
  <1>3. i \in 1..Len(s) /\ (j \in 1..Len(s) \/ j = Len(s) + 1)
    BY <1>1
  <1> QED
    BY <1>1, <1>2, <1>3 DEF InOrder

\* Leaving out an event keeps the order of the others.
LEMMA OrderedWithout ==
  ASSUME NEW a \in Seq(Event), NEW b \in Seq(Event), NEW e \in Event,
         InOrder((a \o <<e>>) \o b)
  PROVE  InOrder(a \o b)
  <1> DEFINE m == Len(a)
             k == Len(b)
             s == (a \o <<e>>) \o b
             t == a \o b
             up(i) == IF i <= m THEN i ELSE i + 1
  <1>1. <<e>> \in Seq(Event) /\ Len(<<e>>) = 1
    OBVIOUS
  <1>2. /\ a \o <<e>> \in Seq(Event) /\ Len(a \o <<e>>) = m + 1
        /\ \A i \in 1..m : (a \o <<e>>)[i] = a[i]
    BY <1>1, ConcatIndex, ConcatProperties
  <1>3. /\ m \in Nat /\ k \in Nat
        /\ DOMAIN t = 1..(m + k)
        /\ \A i \in 1..m : t[i] = a[i]
        /\ \A i \in 1..k : t[m + i] = b[i]
    BY ConcatIndex
  <1>4. /\ DOMAIN s = 1..(m + 1 + k)
        /\ \A i \in 1..(m + 1) : s[i] = (a \o <<e>>)[i]
        /\ \A i \in 1..k : s[m + 1 + i] = b[i]
    BY <1>2, ConcatIndex
  <1> HIDE DEF m, k, s, t
  <1>5. ASSUME NEW i \in DOMAIN t PROVE up(i) \in DOMAIN s /\ s[up(i)] = t[i]
    <2>1. CASE i <= m
      <3>1. i \in 1..m /\ i \in 1..(m + 1)
        BY <1>3, <2>1
      <3> QED
        BY <1>2, <1>3, <1>4, <2>1, <3>1
    <2>2. CASE ~(i <= m)
      <3>1. i - m \in 1..k /\ m + (i - m) = i /\ m + 1 + (i - m) = i + 1 /\ i + 1 \in 1..(m + 1 + k)
        BY <1>3, <2>2
      <3>2. t[i] = b[i - m] /\ s[i + 1] = b[i - m]
        BY <1>3, <1>4, <3>1
      <3> QED
        BY <1>4, <2>2, <3>1, <3>2
    <2> QED
      BY <2>1, <2>2
  <1>6. ASSUME NEW i \in DOMAIN t, NEW j \in DOMAIN t, i < j PROVE up(i) < up(j)
    BY <1>3, <1>6
  <1>7. InOrder(s)
    BY DEF s
  <1> HIDE DEF up
  <1>8. InOrder(t)
    BY <1>5, <1>6, <1>7 DEF InOrder
  <1> QED
    BY <1>8 DEF t

LEMMA ProducerOrderStep ==
  ASSUME LaneInv, NothingLost, ProducerOrder, [Next]_vars
  PROVE  ProducerOrder'
  <1> DEFINE s == (written \o hand) \o items
  <1>0. /\ InOrder(s)
        /\ items \in Seq(Event) /\ written \in Seq(Event)
    BY DEF ProducerOrder, InOrder, LaneInv, TypeOK
  <1>s. hand \in Seq(Event)
    <2>1. hand = << >> \/ \E e \in Event : hand = <<e>>
      BY DEF LaneInv, TypeOK
    <2>2. CASE hand = << >>
      BY <2>2
    <2>3. ASSUME NEW e \in Event, hand = <<e>> PROVE hand \in Seq(Event)
      BY <2>3
    <2> QED
      BY <2>1, <2>2, <2>3
  <1>c. written \o hand \in Seq(Event) /\ s \in Seq(Event)
    BY <1>0, <1>s, ConcatProperties
  <1>g. ASSUME InOrder((written' \o hand') \o items') PROVE ProducerOrder'
    BY <1>g DEF ProducerOrder, InOrder
  <1>1. ASSUME NEW p \in Producers, Enters(p) PROVE ProducerOrder'
    <2> DEFINE e == CurrentEvent(p)
    <2>1. e \in Event /\ e \notin acked /\ e = <<p, sent[p]>> /\ sent[p] \in Nat
      BY <1>1, CurrentIsEvent, LaneAssumption DEF Enters, LaneInv, FreshEvent, CurrentEvent, TypeOK
    <2>2. Elems(s) \subseteq acked
      <3>1. Elems(written) \cup Elems(items) \cup Elems(hand) \subseteq acked
        BY LostUnfolded DEF Passes
      <3>2. Elems(s) \subseteq Elems(written \o hand) \cup Elems(items)
        BY <1>0, <1>c, ElemsConcat
      <3>3. Elems(written \o hand) \subseteq Elems(written) \cup Elems(hand)
        BY <1>0, <1>s, ElemsConcat
      <3> QED
        BY <3>1, <3>2, <3>3
    <2>3. ASSUME NEW x \in acked, x[1] = p PROVE x[2] < sent[p]
      <3>1. x \in Event /\ x[2] <= sent[x[1]]
        BY DEF LaneInv, TypeOK, FreshEvent
      <3>2. x = <<p, x[2]>> /\ x[2] \in Nat
        BY <2>3, <3>1, LaneAssumption DEF Event
      <3>3. x[2] # sent[p]
        BY <2>1, <3>2
      <3> QED
        BY <2>1, <2>3, <3>1, <3>2, <3>3
    <2>4. e[1] = p /\ e[2] = sent[p]
      BY <2>1
    <2>5. (written' \o hand') \o items' = Append(s, e)
      <3>1. (written \o hand) \o (items \o <<e>>) = s \o <<e>>
        BY <1>0, <1>c, <2>1, ConcatAssociative
      <3>2. Append(items, e) = items \o <<e>> /\ Append(s, e) = s \o <<e>>
        BY <1>0, <1>c, <2>1, AppendIsConcat
      <3> QED
        BY <1>1, <3>1, <3>2 DEF Enters
    <2> HIDE DEF e, s
    <2>6. InOrder(Append(s, e))
      BY <1>0, <1>c, <2>1, <2>2, <2>3, <2>4, OrderedAppend
    <2> QED
      BY <1>g, <2>5, <2>6
  <1>2. ASSUME Taken PROVE ProducerOrder'
    <2> DEFINE h == Head(items)
    <2>1. h \in Event /\ Tail(items) \in Seq(Event) /\ items = <<h>> \o Tail(items)
      BY <1>0, <1>2, HeadTailProperties, HeadThenTail DEF Taken
    <2>2. written \o hand = written
      BY <1>0, <1>2, ConcatEmptySeq DEF Taken
    <2>3. <<h>> \in Seq(Event)
      BY <2>1
    <2>4. (written \o <<h>>) \o Tail(items) = written \o (<<h>> \o Tail(items))
      BY <1>0, <2>1, <2>3, ConcatAssociative
    <2>5. (written' \o hand') \o items' = s
      BY <1>2, <2>1, <2>2, <2>4 DEF Taken
    <2> QED
      BY <1>0, <1>g, <2>5
  <1>3. ASSUME Handled PROVE ProducerOrder'
    <2>1. PICK e \in Event :
            hand = <<e>> /\ written' = IF RoutePasses(e) THEN Append(written, e) ELSE written
      BY <1>3 DEF Handled
    <2>2. hand' = <<>> /\ items' = items
      BY <1>3 DEF Handled
    <2>3. CASE RoutePasses(e)
      <3>1. written' = written \o hand
        BY <1>0, <2>1, <2>3, AppendIsConcat
      <3>2. written' \o hand' = written \o hand
        BY <1>c, <2>2, <3>1, ConcatEmptySeq
      <3> QED
        BY <1>0, <1>g, <2>2, <3>2
    <2>4. CASE ~RoutePasses(e)
      <3>1. InOrder(written \o items)
        BY <1>0, <2>1, OrderedWithout
      <3>2. written' \o hand' = written
        BY <1>0, <2>1, <2>2, <2>4, ConcatEmptySeq
      <3> QED
        BY <1>g, <2>2, <3>1, <3>2
    <2> QED
      BY <2>3, <2>4
  <1>4. ASSUME Untouched PROVE ProducerOrder'
    BY <1>0, <1>4, <1>g DEF Untouched
  <1> QED
    BY <1>1, <1>2, <1>3, <1>4, EventMoves

\* The lane keeps each producer's order and duplicates nothing, for any number of
\* producers and events.
THEOREM OrderIsKept == Spec => []ProducerOrder
  <1>1. Init => ProducerOrder
    <2> SUFFICES ASSUME Init PROVE ProducerOrder
      OBVIOUS
    <2>1. (written \o hand) \o items = <<>>
      BY EmptySeq, ConcatEmptySeq DEF Init
    <2> QED
      BY <2>1 DEF ProducerOrder
  <1>2. LaneInv /\ NothingLost /\ ProducerOrder /\ [Next]_vars => ProducerOrder'
    BY ProducerOrderStep
  <1> QED
    BY <1>1, <1>2, LaneInvariant, AcceptedIsKept, PTL DEF Spec
=============================================================================
