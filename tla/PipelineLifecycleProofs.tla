----------------------- MODULE PipelineLifecycleProofs -----------------------
(***************************************************************************)
(* Proofs about PipelineLifecycle, for any number of producers, operations,*)
(* routes and events.                                                      *)
(***************************************************************************)
EXTENDS PipelineLifecycle, TLAPS, SequenceTheorems

-----------------------------------------------------------------------------
(* Sequences.                                                              *)

LEMMA FunctionIsSeq ==
  ASSUME NEW S, NEW m \in Nat, NEW f, f \in [1..m -> S]
  PROVE  f \in Seq(S) /\ Len(f) = m /\ DOMAIN f = 1..m
  BY SeqDef, LenProperties

LEMMA SeqIsFunction ==
  ASSUME NEW S, NEW s \in Seq(S)
  PROVE  /\ s \in [1..Len(s) -> S] /\ Len(s) \in Nat /\ DOMAIN s = 1..Len(s)
         /\ \A k \in DOMAIN s : s[k] \in S
  BY LenProperties

LEMMA SeqWider ==
  ASSUME NEW S, NEW T, S \subseteq T, NEW s \in Seq(S)
  PROVE  s \in Seq(T)
  BY SeqDef

LEMMA AppendElements ==
  ASSUME NEW S, NEW s \in Seq(S), NEW e \in S
  PROVE  /\ Append(s, e) \in Seq(S) /\ Len(Append(s, e)) = Len(s) + 1
         /\ DOMAIN Append(s, e) = 1..(Len(s) + 1) /\ Len(s) \in Nat
         /\ \A k \in 1..Len(s) : Append(s, e)[k] = s[k]
         /\ Append(s, e)[Len(s) + 1] = e
  BY AppendProperties, LenProperties

LEMMA HeadAndTail ==
  ASSUME NEW S, NEW s \in Seq(S), s # <<>>
  PROVE  /\ Len(s) \in Nat \ {0} /\ 1 \in DOMAIN s /\ Head(s) = s[1] /\ Head(s) \in S
         /\ Tail(s) \in Seq(S) /\ DOMAIN Tail(s) = 1..(Len(s) - 1)
         /\ \A k \in 1..(Len(s) - 1) : Tail(s)[k] = s[k + 1]
  BY EmptySeq, HeadTailProperties, LenProperties

-----------------------------------------------------------------------------
(* Types.                                                                  *)

Operation == {"none", "route", "close", "request_stop", "configure"}

\* What TypeOK leaves to later: the sinks, the locals and the events still to be logged.
LocalsOK ==
  /\ out \in [RouteId -> Seq([event : Event, lane : Nat])]
  /\ flushed \in [RouteId -> Nat]
  /\ aop \in [Admins -> Operation]
  /\ ai \in [Admins -> Nat \ {0}]
  /\ mask \in [Producers -> Nat]
  /\ sent \in [Producers -> 0..MaxEvents]
  /\ \A p \in Producers : ppc[p] # "idle" => sent[p] >= 1
  /\ \A p \in Producers : ppc[p] \in {"accepting", "snapshot", "flush"} => held[p] # 0

Types == TypeOK /\ LocalsOK

CrossbarType == [lanes : Seq(DOMAIN lanes), running_ : BOOLEAN]

\* The heap's part of TypeOK, which every change of the heap keeps.
HeapOK ==
  /\ lanes \in Seq(LaneType)
  /\ crossbars \in Seq(CrossbarType)
  /\ crossbar \in DOMAIN crossbars

\* The lanes of crossbar x as a set.
Lanes(x) == {LanesOf(x)[k] : k \in DOMAIN LanesOf(x)}

LEMMA HeapTypes ==
  ASSUME HeapOK
  PROVE  /\ Len(lanes) \in Nat /\ DOMAIN lanes = 1..Len(lanes)
         /\ \A l \in DOMAIN lanes : lanes[l] \in LaneType
         /\ Len(crossbars) \in Nat /\ DOMAIN crossbars = 1..Len(crossbars)
         /\ \A x \in DOMAIN crossbars : crossbars[x] \in CrossbarType
         /\ \A x \in DOMAIN crossbars : LanesOf(x) \in Seq(DOMAIN lanes)
         /\ \A x \in DOMAIN crossbars : Lanes(x) \subseteq DOMAIN lanes
  <1>1. /\ Len(lanes) \in Nat /\ DOMAIN lanes = 1..Len(lanes)
        /\ \A l \in DOMAIN lanes : lanes[l] \in LaneType
    BY SeqIsFunction DEF HeapOK
  <1>2. /\ Len(crossbars) \in Nat /\ DOMAIN crossbars = 1..Len(crossbars)
        /\ \A x \in DOMAIN crossbars : crossbars[x] \in CrossbarType
    BY SeqIsFunction DEF HeapOK
  <1>3. \A x \in DOMAIN crossbars : LanesOf(x) \in Seq(DOMAIN lanes)
    BY <1>2 DEF LanesOf, CrossbarType
  <1>4. \A x \in DOMAIN crossbars : \A k \in DOMAIN LanesOf(x) : LanesOf(x)[k] \in DOMAIN lanes
    BY <1>3, SeqIsFunction
  <1> QED
    BY <1>1, <1>2, <1>3, <1>4 DEF Lanes

\* Lanes change in place.
LEMMA LanesInPlace ==
  ASSUME HeapOK, DOMAIN lanes' = DOMAIN lanes, lanes' = [l \in DOMAIN lanes |-> lanes'[l]],
         \A l \in DOMAIN lanes : lanes'[l] \in LaneType
  PROVE  lanes' \in Seq(LaneType)
  BY HeapTypes, FunctionIsSeq

\* New lanes for the routes rs, after the old ones.
Adds(old, rs, w) ==
  /\ DOMAIN lanes' = 1..(Len(lanes) + Len(rs)) /\ DOMAIN lanes \subseteq DOMAIN lanes'
  /\ \A l \in DOMAIN lanes : lanes'[l] = old[l]
  /\ \A k \in DOMAIN rs : lanes'[Len(lanes) + k] = NewLane(rs[k], w)

LEMMA AddsLanes ==
  ASSUME HeapOK, NEW old, old \in Seq(LaneType), Len(old) = Len(lanes),
         NEW rs \in Seq(RouteId), NEW w \in {"none", "run", "exited"},
         lanes' = old \o [k \in DOMAIN rs |-> NewLane(rs[k], w)]
  PROVE  /\ lanes' \in Seq(LaneType) /\ Adds(old, rs, w)
         /\ [k \in DOMAIN rs |-> Len(lanes) + k] \in Seq(DOMAIN lanes')
  <1> DEFINE new == [k \in DOMAIN rs |-> NewLane(rs[k], w)]
  <1>1. Len(rs) \in Nat /\ DOMAIN rs = 1..Len(rs) /\ \A k \in DOMAIN rs : rs[k] \in RouteId
    BY SeqIsFunction
  <1>2. \A k \in DOMAIN rs : NewLane(rs[k], w) \in LaneType
    <2>1. <<>> \in Seq(Event)
      BY EmptySeq
    <2> QED
      BY <1>1, <2>1 DEF NewLane, LaneType
  <1>3. new \in Seq(LaneType) /\ Len(new) = Len(rs)
    BY <1>1, <1>2, FunctionIsSeq
  <1>4. /\ lanes' \in Seq(LaneType) /\ DOMAIN lanes' = 1..(Len(lanes) + Len(rs))
        /\ \A k \in 1..Len(old) : lanes'[k] = old[k]
        /\ \A k \in 1..Len(new) : lanes'[Len(old) + k] = new[k]
    <2> HIDE DEF new
    <2>1. lanes' = old \o new
      BY DEF new
    <2>2. /\ Len(old \o new) = Len(old) + Len(new) /\ old \o new \in Seq(LaneType)
      BY <1>3, ConcatProperties
    <2>3. DOMAIN (old \o new) = 1..(Len(old) + Len(new))
      BY <2>2, SeqIsFunction
    <2>4. /\ \A k \in 1..Len(old) : (old \o new)[k] = old[k]
          /\ \A k \in 1..Len(new) : (old \o new)[Len(old) + k] = new[k]
      BY <1>3, ConcatProperties
    <2> QED
      BY <1>3, <2>1, <2>2, <2>3, <2>4
  <1>5. Adds(old, rs, w) 
    BY <1>1, <1>3, <1>4, HeapTypes DEF Adds
  <1>6. [k \in DOMAIN rs |-> Len(lanes) + k] \in [1..Len(rs) -> DOMAIN lanes']
    BY <1>1, <1>4, HeapTypes
  <1> QED
    BY <1>1, <1>4, <1>5, <1>6, FunctionIsSeq

LEMMA CrossbarWider ==
  ASSUME DOMAIN lanes \subseteq DOMAIN lanes', NEW c \in CrossbarType
  PROVE  c \in CrossbarType'
  <1>1. c.lanes \in Seq(DOMAIN lanes')
    BY SeqWider DEF CrossbarType
  <1> QED
    BY <1>1 DEF CrossbarType

\* Crossbars and their lanes after a step that changes only running_ flags and lanes in place.
LEMMA CrossbarsInPlace ==
  ASSUME HeapOK, DOMAIN lanes \subseteq DOMAIN lanes', UNCHANGED <<crossbar, crossbars>>
  PROVE  crossbars' \in Seq(CrossbarType') /\ (crossbar \in DOMAIN crossbars)'
  <1>1. CrossbarType \subseteq CrossbarType'
    BY CrossbarWider
  <1> QED
    BY <1>1, SeqWider DEF HeapOK

LEMMA CrossbarFlagged ==
  ASSUME HeapOK, DOMAIN lanes \subseteq DOMAIN lanes', UNCHANGED crossbar,
         NEW b \in BOOLEAN, crossbars' = [crossbars EXCEPT ![crossbar].running_ = b]
  PROVE  /\ crossbars' \in Seq(CrossbarType') /\ (crossbar \in DOMAIN crossbars)'
         /\ DOMAIN crossbars' = DOMAIN crossbars
         /\ \A x \in DOMAIN crossbars : LanesOf(x)' = LanesOf(x)
         /\ crossbars'[crossbar].running_ = b
  <1>1. DOMAIN crossbars' = 1..Len(crossbars) /\ Len(crossbars) \in Nat
    BY HeapTypes
  <1>2. \A x \in 1..Len(crossbars) : crossbars'[x] \in CrossbarType /\ LanesOf(x)' = LanesOf(x)
    BY HeapTypes DEF HeapOK, CrossbarType, LanesOf
  <1>3. crossbars' \in [1..Len(crossbars) -> CrossbarType']
    BY <1>1, <1>2, CrossbarWider
  <1> QED
    BY <1>1, <1>2, <1>3, FunctionIsSeq, HeapTypes DEF HeapOK, CrossbarType

\* Lane l after a step, field by field.
LaneIs(lane, l, q, c, w, d, f) ==
  /\ lane.route = lanes[l].route /\ lane.queue = q /\ (lane.closed <=> c)
  /\ lane.worker = w /\ (lane.drain <=> d) /\ (lane.forced <=> f)

LEMMA FieldsOf ==
  ASSUME HeapOK, NEW l \in DOMAIN lanes,
         NEW q, NEW c \in BOOLEAN, NEW w, NEW d \in BOOLEAN, NEW f \in BOOLEAN
  PROVE  /\ LaneIs([lanes[l] EXCEPT !.drain = d, !.forced = f],
                   l, lanes[l].queue, lanes[l].closed, lanes[l].worker, d, f)
         /\ LaneIs([lanes[l] EXCEPT !.drain = d, !.worker = w],
                   l, lanes[l].queue, lanes[l].closed, w, d, lanes[l].forced)
         /\ LaneIs([lanes[l] EXCEPT !.closed = c],
                   l, lanes[l].queue, c, lanes[l].worker, lanes[l].drain, lanes[l].forced)
         /\ LaneIs([lanes[l] EXCEPT !.queue = q, !.closed = c],
                   l, q, c, lanes[l].worker, lanes[l].drain, lanes[l].forced)
         /\ LaneIs([lanes[l] EXCEPT !.queue = q],
                   l, q, lanes[l].closed, lanes[l].worker, lanes[l].drain, lanes[l].forced)
         /\ LaneIs([lanes[l] EXCEPT !.worker = w],
                   l, lanes[l].queue, lanes[l].closed, w, lanes[l].drain, lanes[l].forced)
         /\ LaneIs([lanes[l] EXCEPT !.queue = q, !.closed = c, !.drain = d, !.worker = w],
                   l, q, c, w, d, lanes[l].forced)
  <1>1. lanes[l] \in LaneType
    BY HeapTypes
  <1> QED
    BY <1>1 DEF LaneIs, LaneType

\* ~SinkCrossbar: its lanes and no others.
LEMMA DestroyedLanes ==
  ASSUME HeapOK, NEW x \in DOMAIN crossbars
  PROVE  /\ Destroyed(x) \in Seq(LaneType) /\ Len(Destroyed(x)) = Len(lanes)
         /\ DOMAIN Destroyed(x) = DOMAIN lanes
         /\ \A l \in DOMAIN lanes \ Lanes(x) : Destroyed(x)[l] = lanes[l]
         /\ \A l \in Lanes(x) :
              LaneIs(Destroyed(x)[l], l, <<>>, TRUE,
                     IF lanes[l].worker = "run" THEN "exited" ELSE lanes[l].worker,
                     FALSE, lanes[l].forced)
  <1>1. /\ DOMAIN Destroyed(x) = 1..Len(lanes) /\ Len(lanes) \in Nat
        /\ DOMAIN lanes = 1..Len(lanes)
        /\ Destroyed(x) = [l \in 1..Len(lanes) |-> Destroyed(x)[l]]
    BY HeapTypes DEF Destroyed
  <1>2. \A l \in DOMAIN lanes : l \in Lanes(x) <=> \E i \in DOMAIN LanesOf(x) : LanesOf(x)[i] = l
    BY DEF Lanes
  <1>3. /\ \A l \in DOMAIN lanes \ Lanes(x) : Destroyed(x)[l] = lanes[l]
        /\ \A l \in Lanes(x) : Destroyed(x)[l] =
              [lanes[l] EXCEPT !.queue = <<>>, !.closed = TRUE, !.drain = FALSE,
                               !.worker = IF @ = "run" THEN "exited" ELSE @]
    BY <1>2, HeapTypes DEF Destroyed
  <1>4. ASSUME NEW l \in DOMAIN lanes PROVE Destroyed(x)[l] \in LaneType
    <2>1. lanes[l] \in LaneType /\ <<>> \in Seq(Event)
      BY HeapTypes, EmptySeq
    <2>2. CASE l \notin Lanes(x)
      BY <1>3, <2>1, <2>2
    <2>3. CASE l \in Lanes(x)
      <3>1. (IF lanes[l].worker = "run" THEN "exited" ELSE lanes[l].worker) \in {"none", "run", "exited"}
        BY <2>1 DEF LaneType
      <3> QED
        BY ZenonT(40), <1>3, <2>1, <2>3, <3>1 DEF LaneType
    <2> QED
      BY <2>2, <2>3
  <1>5. Destroyed(x) \in [1..Len(lanes) -> LaneType]
    BY <1>1, <1>4
  <1>6. ASSUME NEW l \in Lanes(x)
        PROVE  LaneIs(Destroyed(x)[l], l, <<>>, TRUE,
                      IF lanes[l].worker = "run" THEN "exited" ELSE lanes[l].worker,
                      FALSE, lanes[l].forced)
    <2>1. PICK w : w = IF lanes[l].worker = "run" THEN "exited" ELSE lanes[l].worker
      OBVIOUS
    <2>2. Destroyed(x)[l] = [lanes[l] EXCEPT !.queue = <<>>, !.closed = TRUE, !.drain = FALSE,
                                             !.worker = w]
      BY <1>3, <2>1
    <2>3. lanes[l] \in LaneType
      BY HeapTypes
    <2>4. LaneIs(Destroyed(x)[l], l, <<>>, TRUE, w, FALSE, lanes[l].forced)
      BY <2>2, <2>3 DEF LaneIs, LaneType
    <2> QED
      BY <2>1, <2>4
  <1> QED
    BY <1>1, <1>3, <1>5, <1>6, FunctionIsSeq

NewLanes(rs) == [k \in DOMAIN rs |-> Len(lanes) + k]

LEMMA RebuildEffect ==
  ASSUME HeapOK, NEW rs \in Seq(RouteId), NEW restart \in BOOLEAN,
         Rebuild(crossbar, rs, restart), UNCHANGED crossbar
  PROVE  /\ HeapOK'
         /\ Adds(lanes, rs, IF restart THEN "run" ELSE "none")
         /\ DOMAIN crossbars' = DOMAIN crossbars
         /\ \A y \in DOMAIN crossbars \ {crossbar} : crossbars'[y] = crossbars[y]
         /\ LanesOf(crossbar)' = NewLanes(rs)
         /\ crossbars'[crossbar].running_ = restart
  <1> DEFINE w == IF restart THEN "run" ELSE "none"
             c == [lanes |-> NewLanes(rs), running_ |-> restart]
  <1>1. lanes' = lanes \o [k \in DOMAIN rs |-> NewLane(rs[k], w)]
    BY DEF Rebuild
  <1>2. lanes \in Seq(LaneType) /\ w \in {"none", "run", "exited"}
    BY DEF HeapOK
  <1>3. lanes' \in Seq(LaneType) /\ Adds(lanes, rs, w) /\ NewLanes(rs) \in Seq(DOMAIN lanes')
    <2> HIDE DEF w
    <2> QED
      BY <1>1, <1>2, AddsLanes DEF NewLanes
  <1>4. crossbars' = [crossbars EXCEPT ![crossbar] = c]
    BY DEF Rebuild, NewLanes
  <1>5. c \in CrossbarType' /\ DOMAIN lanes \subseteq DOMAIN lanes'
    BY <1>3 DEF CrossbarType, Adds
  <1>6. crossbars' \in [1..Len(crossbars) -> CrossbarType'] /\ Len(crossbars) \in Nat
    <2> HIDE DEF c
    <2> QED
      BY <1>4, <1>5, HeapTypes, CrossbarWider DEF HeapOK
  <1>7. /\ DOMAIN crossbars' = DOMAIN crossbars
        /\ \A y \in DOMAIN crossbars \ {crossbar} : crossbars'[y] = crossbars[y]
        /\ crossbars'[crossbar] = c
    BY <1>4 DEF HeapOK
  <1>8. LanesOf(crossbar)' = NewLanes(rs) /\ crossbars'[crossbar].running_ = restart
    BY <1>7 DEF LanesOf
  <1> QED
    BY <1>3, <1>6, <1>7, <1>8, FunctionIsSeq DEF HeapOK

LEMMA ReplaceEffect ==
  ASSUME HeapOK, NEW rs \in Seq(RouteId), Replace(rs)
  PROVE  /\ HeapOK'
         /\ \E old \in {lanes, Destroyed(crossbar)} : Adds(old, rs, "none")
         /\ crossbar' = Len(crossbars) + 1
         /\ DOMAIN crossbars' = DOMAIN crossbars \cup {crossbar'} /\ crossbar' \notin DOMAIN crossbars
         /\ \A y \in DOMAIN crossbars : crossbars'[y] = crossbars[y]
         /\ crossbars'[crossbar'] = [lanes |-> NewLanes(rs), running_ |-> FALSE]
  <1> DEFINE old == IF Held(crossbar) THEN lanes ELSE Destroyed(crossbar)
             c == [lanes |-> NewLanes(rs), running_ |-> FALSE]
  <1>1. old \in Seq(LaneType) /\ Len(old) = Len(lanes)
    BY DestroyedLanes DEF HeapOK
  <1>2. lanes' = old \o [k \in DOMAIN rs |-> NewLane(rs[k], "none")]
    BY DEF Replace
  <1>3. old \in {lanes, Destroyed(crossbar)}
    OBVIOUS
  <1> HIDE DEF old
  <1>4. lanes' \in Seq(LaneType) /\ Adds(old, rs, "none") /\ NewLanes(rs) \in Seq(DOMAIN lanes')
    BY <1>1, <1>2, AddsLanes DEF NewLanes
  <1>5. c \in CrossbarType' /\ DOMAIN lanes \subseteq DOMAIN lanes'
    BY <1>4 DEF CrossbarType, Adds
  <1>6. crossbars' = Append(crossbars, c) /\ crossbar' = Len(crossbars) + 1
    BY DEF Replace, NewLanes
  <1>7. crossbars \in Seq(CrossbarType')
    <2>1. CrossbarType \subseteq CrossbarType'
      BY <1>5, CrossbarWider
    <2> QED
      BY <2>1, SeqWider DEF HeapOK
  <1> HIDE DEF c
  <1>8. /\ crossbars' \in Seq(CrossbarType') /\ DOMAIN crossbars' = 1..(Len(crossbars) + 1)
        /\ \A y \in 1..Len(crossbars) : crossbars'[y] = crossbars[y]
        /\ crossbars'[Len(crossbars) + 1] = c
    BY <1>5, <1>6, <1>7, AppendElements
  <1>9. HeapOK'
    BY <1>4, <1>6, <1>8, HeapTypes DEF HeapOK
  <1>10. /\ DOMAIN crossbars' = DOMAIN crossbars \cup {crossbar'}
         /\ crossbar' \notin DOMAIN crossbars
    BY <1>6, <1>8, HeapTypes
  <1> QED
    BY <1>3, <1>4, <1>6, <1>8, <1>9, <1>10, HeapTypes DEF c

-----------------------------------------------------------------------------
(* What each operation does to the heap, lane by lane.                     *)

\* Only lanes in S change, and stay lanes.
InPlace(S) ==
  /\ HeapOK' /\ DOMAIN lanes' = DOMAIN lanes
  /\ \A l \in DOMAIN lanes \ S : lanes'[l] = lanes[l]

\* No crossbar loses or gains a lane.
SameCrossbars ==
  /\ UNCHANGED crossbar /\ DOMAIN crossbars' = DOMAIN crossbars
  /\ \A x \in DOMAIN crossbars : LanesOf(x)' = LanesOf(x)

LEMMA InPlaceOK ==
  ASSUME HeapOK, NEW f, lanes' = [l \in DOMAIN lanes |-> f[l]],
         \A l \in DOMAIN lanes : f[l] \in LaneType,
         crossbars' \in Seq(CrossbarType'), (crossbar \in DOMAIN crossbars)'
  PROVE  HeapOK' /\ DOMAIN lanes' = DOMAIN lanes
  BY LanesInPlace DEF HeapOK

LEMMA StopEffect ==
  ASSUME HeapOK, NEW a, NEW d \in BOOLEAN, NEW next, StopBegins(a, d, next), UNCHANGED crossbar
  PROVE  /\ SameCrossbars
         /\ \/ /\ UNCHANGED heapVars /\ AGoto(a, next) /\ UNCHANGED ai /\ HeapOK'
               /\ ~crossbars[crossbar].running_ /\ Lanes(crossbar) = {}
            \/ /\ InPlace(Lanes(crossbar))
               /\ \A l \in Lanes(crossbar) :
                    LaneIs(lanes'[l], l, lanes[l].queue, lanes[l].closed, lanes[l].worker,
                           d, lanes[l].forced \/ ~d)
               /\ AGoto(a, "closing") /\ ai' = [ai EXCEPT ![a] = 1]
               /\ ~crossbars'[crossbar].running_
  <1>1. CASE ~crossbars[crossbar].running_ /\ LanesOf(crossbar) = <<>>
    <2>1. UNCHANGED heapVars /\ AGoto(a, next) /\ UNCHANGED ai
      BY <1>1 DEF StopBegins
    <2>2. HeapOK' /\ SameCrossbars /\ Lanes(crossbar) = {}
      BY <1>1, <2>1 DEF heapVars, HeapOK, SameCrossbars, LanesOf, CrossbarType, Lanes
    <2> QED
      BY <1>1, <2>1, <2>2
  <1>2. CASE ~(~crossbars[crossbar].running_ /\ LanesOf(crossbar) = <<>>)
    <2> DEFINE f == [l \in DOMAIN lanes |->
            IF \E i \in DOMAIN LanesOf(crossbar) : LanesOf(crossbar)[i] = l
            THEN [lanes[l] EXCEPT !.drain = d, !.forced = @ \/ ~d] ELSE lanes[l]]
    <2>1. /\ crossbars' = [crossbars EXCEPT ![crossbar].running_ = FALSE]
          /\ lanes' = f
          /\ ai' = [ai EXCEPT ![a] = 1] /\ AGoto(a, "closing")
      BY <1>2 DEF StopBegins
    <2>2. /\ DOMAIN f = DOMAIN lanes /\ f = [l \in DOMAIN lanes |-> f[l]]
          /\ \A l \in Lanes(crossbar) : f[l] = [lanes[l] EXCEPT !.drain = d, !.forced = @ \/ ~d]
          /\ \A l \in DOMAIN lanes \ Lanes(crossbar) : f[l] = lanes[l]
      BY HeapTypes DEF Lanes, HeapOK
    <2>3. ASSUME NEW l \in DOMAIN lanes PROVE f[l] \in LaneType
      <3>1. lanes[l] \in LaneType
        BY HeapTypes
      <3>2. [lanes[l] EXCEPT !.drain = d, !.forced = @ \/ ~d] \in LaneType
        BY <3>1 DEF LaneType
      <3> HIDE DEF f
      <3> QED
        BY <2>2, <3>1, <3>2
    <2> HIDE DEF f
    <2>4. /\ crossbars' \in Seq(CrossbarType') /\ (crossbar \in DOMAIN crossbars)'
          /\ SameCrossbars /\ ~crossbars'[crossbar].running_
      BY <2>1, <2>2, CrossbarFlagged DEF SameCrossbars
    <2>5. HeapOK' /\ DOMAIN lanes' = DOMAIN lanes
      BY <2>1, <2>2, <2>3, <2>4, LanesInPlace DEF HeapOK
    <2>6. ASSUME NEW l \in Lanes(crossbar)
          PROVE  LaneIs(lanes'[l], l, lanes[l].queue, lanes[l].closed, lanes[l].worker,
                        d, lanes[l].forced \/ ~d)
      <3>1. PICK f1 \in BOOLEAN : f1 = (lanes[l].forced \/ ~d)
        OBVIOUS
      <3>2. lanes'[l] = [lanes[l] EXCEPT !.drain = d, !.forced = f1]
        BY <2>1, <2>2, <3>1
      <3>3. LaneIs(lanes'[l], l, lanes[l].queue, lanes[l].closed, lanes[l].worker, d, f1)
        <4>1. l \in DOMAIN lanes
          BY HeapTypes DEF HeapOK
        <4> QED
          BY ZenonT(40), <3>2, <4>1, FieldsOf
      <3> QED
        BY <3>1, <3>3
    <2> QED
      BY <2>1, <2>2, <2>4, <2>5, <2>6 DEF InPlace
  <1> QED
    BY <1>1, <1>2

LEMMA StartEffect ==
  ASSUME HeapOK, NEW a, start(a)
  PROVE  /\ SameCrossbars
         /\ \/ UNCHANGED heapVars /\ HeapOK' /\ (running \/ crossbars[crossbar].running_)
            \/ /\ ~running /\ ~crossbars[crossbar].running_
               /\ InPlace(Lanes(crossbar))
               /\ \A l \in Lanes(crossbar) :
                    LaneIs(lanes'[l], l, lanes[l].queue, lanes[l].closed, "run",
                           TRUE, lanes[l].forced)
               /\ crossbars'[crossbar].running_
  <1>1. CASE UNCHANGED heapVars /\ (running \/ crossbars[crossbar].running_)
    <2>1. HeapOK' /\ SameCrossbars
      BY <1>1 DEF start, heapVars, HeapOK, SameCrossbars, LanesOf, CrossbarType
    <2> QED
      BY <1>1, <2>1
  <1>2. CASE ~running /\ ~crossbars[crossbar].running_
    <2> DEFINE f == [l \in DOMAIN lanes |->
            IF \E i \in DOMAIN LanesOf(crossbar) : LanesOf(crossbar)[i] = l
            THEN [lanes[l] EXCEPT !.drain = TRUE, !.worker = "run"] ELSE lanes[l]]
    <2>1. /\ crossbars' = [crossbars EXCEPT ![crossbar].running_ = TRUE]
          /\ lanes' = f /\ UNCHANGED crossbar
      BY <1>2 DEF start
    <2>2. /\ DOMAIN f = DOMAIN lanes /\ f = [l \in DOMAIN lanes |-> f[l]]
          /\ \A l \in Lanes(crossbar) : f[l] = [lanes[l] EXCEPT !.drain = TRUE, !.worker = "run"]
          /\ \A l \in DOMAIN lanes \ Lanes(crossbar) : f[l] = lanes[l]
      BY HeapTypes DEF Lanes, HeapOK
    <2>3. ASSUME NEW l \in DOMAIN lanes PROVE f[l] \in LaneType
      <3>1. lanes[l] \in LaneType
        BY HeapTypes
      <3>2. [lanes[l] EXCEPT !.drain = TRUE, !.worker = "run"] \in LaneType
        BY <3>1 DEF LaneType
      <3> HIDE DEF f
      <3> QED
        BY <2>2, <3>1, <3>2
    <2> HIDE DEF f
    <2>4. /\ crossbars' \in Seq(CrossbarType') /\ (crossbar \in DOMAIN crossbars)'
          /\ SameCrossbars /\ crossbars'[crossbar].running_
      BY <2>1, <2>2, CrossbarFlagged DEF SameCrossbars
    <2>5. HeapOK' /\ DOMAIN lanes' = DOMAIN lanes
      BY <2>1, <2>2, <2>3, <2>4, LanesInPlace DEF HeapOK
    <2>6. \A l \in Lanes(crossbar) :
            LaneIs(lanes'[l], l, lanes[l].queue, lanes[l].closed, "run", TRUE, lanes[l].forced)
      <3> SUFFICES ASSUME NEW l \in Lanes(crossbar)
                   PROVE  LaneIs(lanes'[l], l, lanes[l].queue, lanes[l].closed, "run", TRUE,
                                 lanes[l].forced)
        OBVIOUS
      <3>1. lanes[l] \in LaneType
        BY HeapTypes DEF HeapOK
      <3>2. lanes'[l] = [lanes[l] EXCEPT !.drain = TRUE, !.worker = "run"]
        BY <2>1, <2>2
      <3> QED
        BY <3>1, <3>2 DEF LaneIs, LaneType
    <2> QED
      BY <1>2, <2>1, <2>2, <2>4, <2>5, <2>6 DEF InPlace
  <1> QED
    BY <1>1, <1>2 DEF start

\* One lane changes.
LEMMA OneLane ==
  ASSUME HeapOK, NEW l \in DOMAIN lanes, NEW v \in LaneType, lanes' = [lanes EXCEPT ![l] = v],
         UNCHANGED <<crossbars, crossbar>>
  PROVE  /\ SameCrossbars /\ InPlace({l}) /\ lanes'[l] = v
         /\ \A x \in DOMAIN crossbars : crossbars'[x] = crossbars[x]
  <1>1. /\ DOMAIN lanes' = DOMAIN lanes /\ lanes' = [k \in DOMAIN lanes |-> lanes'[k]]
        /\ lanes'[l] = v /\ \A k \in DOMAIN lanes \ {l} : lanes'[k] = lanes[k]
        /\ \A k \in DOMAIN lanes : lanes'[k] \in LaneType
    BY HeapTypes
  <1>2. lanes' \in Seq(LaneType)
    BY <1>1, LanesInPlace
  <1>3. crossbars' \in Seq(CrossbarType') /\ (crossbar \in DOMAIN crossbars)'
    BY <1>1, CrossbarsInPlace
  <1> QED
    BY <1>1, <1>2, <1>3 DEF HeapOK, InPlace, SameCrossbars, LanesOf

LEMMA CloseEffect ==
  ASSUME HeapOK, NEW a, CloseLane(a), ai[a] \in Nat \ {0}
  PROVE  \/ /\ SameCrossbars /\ UNCHANGED <<crossbars, apc>>
            /\ ai[a] \in DOMAIN LanesOf(crossbar) /\ ai' = [ai EXCEPT ![a] = @ + 1]
            /\ \E l \in Lanes(crossbar) :
                 /\ l = LanesOf(crossbar)[ai[a]]
                 /\ InPlace({l})
                 /\ LaneIs(lanes'[l], l, lanes[l].queue, TRUE, lanes[l].worker,
                           lanes[l].drain, lanes[l].forced)
         \/ /\ UNCHANGED heapVars /\ AGoto(a, "joining") /\ UNCHANGED ai
            /\ ai[a] > Len(LanesOf(crossbar))
  <1>1. CASE ai[a] <= Len(LanesOf(crossbar)) /\ UNCHANGED apc
             /\ lanes' = [lanes EXCEPT ![LanesOf(crossbar)[ai[a]]].closed = TRUE]
             /\ ai' = [ai EXCEPT ![a] = @ + 1]
    <2>1. PICK l : l = LanesOf(crossbar)[ai[a]]
      OBVIOUS
    <2>2. ai[a] \in DOMAIN LanesOf(crossbar)
      BY <1>1, HeapTypes, SeqIsFunction DEF HeapOK
    <2>3. l \in Lanes(crossbar) /\ l \in DOMAIN lanes
      BY <2>1, <2>2, HeapTypes DEF Lanes, HeapOK
    <2>4. lanes' = [lanes EXCEPT ![l] = [lanes[l] EXCEPT !.closed = TRUE]]
      BY <1>1, <2>1, <2>3
    <2>5. [lanes[l] EXCEPT !.closed = TRUE] \in LaneType
      BY <2>3, HeapTypes DEF LaneType
    <2>6. UNCHANGED <<crossbars, crossbar>>
      BY DEF CloseLane, pipelineVars
    <2>7. SameCrossbars /\ InPlace({l}) /\ lanes'[l] = [lanes[l] EXCEPT !.closed = TRUE]
      BY <2>3, <2>4, <2>5, <2>6, OneLane
    <2>8. LaneIs(lanes'[l], l, lanes[l].queue, TRUE, lanes[l].worker,
                 lanes[l].drain, lanes[l].forced)
      BY <2>3, <2>7, FieldsOf
    <2> QED
      BY <1>1, <2>1, <2>2, <2>3, <2>6, <2>7, <2>8
  <1>2. CASE ai[a] > Len(LanesOf(crossbar)) /\ AGoto(a, "joining") /\ UNCHANGED <<lanes, ai>>
    BY <1>2 DEF CloseLane, heapVars
  <1> QED
    BY <1>1, <1>2 DEF CloseLane

LEMMA JoinEffect ==
  ASSUME HeapOK, NEW a, Join(a)
  PROVE  /\ SameCrossbars /\ UNCHANGED crossbars
         /\ \A l \in Lanes(crossbar) : lanes[l].worker # "run"
         /\ InPlace(IF aop[a] = "request_stop" THEN Lanes(crossbar) ELSE {})
         /\ \A l \in Lanes(crossbar) : aop[a] = "request_stop" =>
              LaneIs(lanes'[l], l, <<>>, FALSE, lanes[l].worker, lanes[l].drain, lanes[l].forced)
  <1> DEFINE f == [l \in DOMAIN lanes |->
       IF aop[a] = "request_stop" /\ \E i \in DOMAIN LanesOf(crossbar) : LanesOf(crossbar)[i] = l
       THEN [lanes[l] EXCEPT !.queue = <<>>, !.closed = FALSE] ELSE lanes[l]]
             S == IF aop[a] = "request_stop" THEN Lanes(crossbar) ELSE {}
  <1>1. lanes' = f /\ UNCHANGED <<crossbars, crossbar>>
    BY DEF Join, pipelineVars
  <1>2. /\ DOMAIN f = DOMAIN lanes /\ f = [l \in DOMAIN lanes |-> f[l]]
        /\ \A l \in S : f[l] = [lanes[l] EXCEPT !.queue = <<>>, !.closed = FALSE]
        /\ \A l \in DOMAIN lanes \ S : f[l] = lanes[l]
    BY HeapTypes DEF Lanes, HeapOK
  <1>3. ASSUME NEW l \in DOMAIN lanes PROVE f[l] \in LaneType
    <2>1. lanes[l] \in LaneType /\ <<>> \in Seq(Event)
      BY HeapTypes, EmptySeq
    <2>2. [lanes[l] EXCEPT !.queue = <<>>, !.closed = FALSE] \in LaneType
      BY <2>1 DEF LaneType
    <2> HIDE DEF f, S
    <2> QED
      BY <1>2, <2>1, <2>2
  <1>4. \A l \in Lanes(crossbar) : lanes[l].worker # "run"
    BY DEF Join, Lanes
  <1> HIDE DEF f
  <1>5. crossbars' \in Seq(CrossbarType') /\ (crossbar \in DOMAIN crossbars)'
    BY <1>1, <1>2, CrossbarsInPlace
  <1>6. HeapOK' /\ DOMAIN lanes' = DOMAIN lanes
    BY <1>1, <1>2, <1>3, <1>5, LanesInPlace DEF HeapOK
  <1>7. InPlace(S)
    BY <1>1, <1>2, <1>6 DEF InPlace
  <1>8. \A l \in Lanes(crossbar) : aop[a] = "request_stop" =>
          LaneIs(lanes'[l], l, <<>>, FALSE, lanes[l].worker, lanes[l].drain, lanes[l].forced)
    <2> SUFFICES ASSUME NEW l \in Lanes(crossbar), aop[a] = "request_stop"
                 PROVE  LaneIs(lanes'[l], l, <<>>, FALSE, lanes[l].worker, lanes[l].drain,
                               lanes[l].forced)
      OBVIOUS
    <2>1. lanes[l] \in LaneType
      BY HeapTypes DEF HeapOK
    <2>2. lanes'[l] = [lanes[l] EXCEPT !.queue = <<>>, !.closed = FALSE]
      BY <1>1, <1>2
    <2> QED
      BY <2>1, <2>2 DEF LaneIs, LaneType
  <1> QED
    BY <1>1, <1>4, <1>7, <1>8 DEF SameCrossbars, LanesOf

LEMMA PushEffect ==
  ASSUME Types, HeapOK, NEW p \in Producers, Push(p)
  PROVE  \E l \in DOMAIN lanes :
           /\ l = Head(todo[p]) /\ todo[p] # <<>> /\ SameCrossbars /\ UNCHANGED crossbars
           /\ <<p, sent[p]>> \in Event
           /\ \/ /\ ~lanes[l].closed /\ InPlace({l})
                 /\ LaneIs(lanes'[l], l, Append(lanes[l].queue, <<p, sent[p]>>), FALSE,
                           lanes[l].worker, lanes[l].drain, lanes[l].forced)
                 /\ accepted' = accepted \cup {<<<<p, sent[p]>>, l>>}
              \/ lanes[l].closed /\ UNCHANGED <<lanes, accepted>>
  <1>1. todo[p] \in Seq(DOMAIN lanes) /\ todo[p] # <<>>
    BY DEF Types, TypeOK, Push
  <1>2. PICK l \in DOMAIN lanes : l = Head(todo[p])
    BY <1>1, HeadAndTail
  <1>3. <<p, sent[p]>> \in Event
    BY LifecycleAssumption DEF Types, TypeOK, LocalsOK, Push, Event
  <1>4. UNCHANGED <<crossbars, crossbar>> /\ SameCrossbars
    BY DEF Push, pipelineVars, SameCrossbars, LanesOf
  <1>5. CASE ~lanes[l].closed
    <2>1. /\ lanes' = [lanes EXCEPT ![l].queue = Append(@, <<p, sent[p]>>)]
          /\ accepted' = accepted \cup {<<<<p, sent[p]>>, l>>}
      BY <1>2, <1>5 DEF Push
    <2>2. lanes[l] \in LaneType /\ lanes[l].queue \in Seq(Event)
      BY HeapTypes DEF LaneType
    <2>3. Append(lanes[l].queue, <<p, sent[p]>>) \in Seq(Event)
      BY <1>3, <2>2, AppendElements
    <2>4. [lanes[l] EXCEPT !.queue = Append(@, <<p, sent[p]>>)] \in LaneType
      BY <2>2, <2>3 DEF LaneType
    <2>5. lanes' = [lanes EXCEPT ![l] = [lanes[l] EXCEPT !.queue = Append(@, <<p, sent[p]>>)]]
      BY <2>1
    <2>6. InPlace({l}) /\ lanes'[l] = [lanes[l] EXCEPT !.queue = Append(@, <<p, sent[p]>>)]
      BY <1>4, <2>4, <2>5, OneLane
    <2>7. LaneIs(lanes'[l], l, Append(lanes[l].queue, <<p, sent[p]>>), lanes[l].closed,
                 lanes[l].worker, lanes[l].drain, lanes[l].forced)
      BY <2>6, FieldsOf
    <2>8. LaneIs(lanes'[l], l, Append(lanes[l].queue, <<p, sent[p]>>), FALSE,
                 lanes[l].worker, lanes[l].drain, lanes[l].forced)
      BY <1>5, <2>7 DEF LaneIs
    <2> QED
      BY <1>1, <1>2, <1>3, <1>4, <1>5, <2>1, <2>6, <2>8
  <1>6. CASE lanes[l].closed
    BY <1>1, <1>2, <1>3, <1>4, <1>6 DEF Push
  <1> QED
    BY <1>5, <1>6

LEMMA WriteEffect ==
  ASSUME HeapOK, NEW l \in DOMAIN lanes, WorkerWrites(l)
  PROVE  /\ SameCrossbars /\ UNCHANGED crossbars /\ InPlace({l})
         /\ LaneIs(lanes'[l], l, Tail(lanes[l].queue), lanes[l].closed, "run",
                   lanes[l].drain, lanes[l].forced)
         /\ lanes[l].worker = "run" /\ lanes[l].queue \in Seq(Event) /\ lanes[l].queue # <<>>
         /\ lanes[l].route \in RouteId
  <1>1. /\ lanes[l] \in LaneType /\ lanes[l].queue \in Seq(Event) /\ lanes[l].queue # <<>>
        /\ lanes[l].route \in RouteId
    BY HeapTypes DEF LaneType, WorkerWrites
  <1>2. Tail(lanes[l].queue) \in Seq(Event)
    BY <1>1, HeadAndTail
  <1>3. [lanes[l] EXCEPT !.queue = Tail(@)] \in LaneType
    BY <1>1, <1>2 DEF LaneType
  <1>4. lanes' = [lanes EXCEPT ![l] = [lanes[l] EXCEPT !.queue = Tail(@)]]
        /\ UNCHANGED <<crossbars, crossbar>>
    BY DEF WorkerWrites, pipelineVars
  <1>5. lanes[l].worker = "run" /\ lanes'[l] = [lanes[l] EXCEPT !.queue = Tail(@)]
    BY <1>3, <1>4, OneLane DEF WorkerWrites
  <1>6. LaneIs(lanes'[l], l, Tail(lanes[l].queue), lanes[l].closed, lanes[l].worker,
               lanes[l].drain, lanes[l].forced)
    BY <1>5, FieldsOf
  <1> QED
    BY <1>1, <1>3, <1>4, <1>5, <1>6, OneLane

LEMMA ExitEffect ==
  ASSUME HeapOK, NEW l \in DOMAIN lanes, WorkerExits(l)
  PROVE  /\ SameCrossbars /\ UNCHANGED crossbars /\ InPlace({l})
         /\ LaneIs(lanes'[l], l, lanes[l].queue, TRUE, "exited", lanes[l].drain, lanes[l].forced)
         /\ lanes[l].worker = "run" /\ lanes[l].closed
         /\ lanes[l].drain => lanes[l].queue = <<>>
  <1>1. [lanes[l] EXCEPT !.worker = "exited"] \in LaneType
    BY HeapTypes DEF LaneType
  <1>2. lanes' = [lanes EXCEPT ![l] = [lanes[l] EXCEPT !.worker = "exited"]]
        /\ UNCHANGED <<crossbars, crossbar>>
    BY DEF WorkerExits, pipelineVars
  <1>3. lanes[l].closed /\ lanes'[l] = [lanes[l] EXCEPT !.worker = "exited"]
    BY <1>1, <1>2, OneLane DEF WorkerExits
  <1>4. LaneIs(lanes'[l], l, lanes[l].queue, lanes[l].closed, "exited", lanes[l].drain, lanes[l].forced)
    BY <1>3, FieldsOf
  <1>5. LaneIs(lanes'[l], l, lanes[l].queue, TRUE, "exited", lanes[l].drain, lanes[l].forced)
    BY <1>3, <1>4 DEF LaneIs
  <1> QED
    BY <1>1, <1>2, <1>5, OneLane DEF WorkerExits

LEMMA ReturnEffect ==
  ASSUME Types, HeapOK, NEW p \in Producers, Return(p)
  PROVE  /\ SameCrossbars /\ UNCHANGED crossbars
         /\ \/ UNCHANGED lanes /\ HeapOK'
            \/ /\ held[p] \in DOMAIN crossbars \ {crossbar} /\ InPlace(Lanes(held[p]))
               /\ \A l \in Lanes(held[p]) :
                    LaneIs(lanes'[l], l, <<>>, TRUE,
                           IF lanes[l].worker = "run" THEN "exited" ELSE lanes[l].worker,
                           FALSE, lanes[l].forced)
  <1>1. UNCHANGED <<crossbars, crossbar>> /\ SameCrossbars
    BY DEF Return, pipelineVars, SameCrossbars, LanesOf
  <1>2. CASE UNCHANGED lanes
    BY <1>1, <1>2 DEF HeapOK, CrossbarType
  <1>3. CASE held[p] \notin {0, crossbar} /\ lanes' = Destroyed(held[p])
    <2>1. held[p] \in DOMAIN crossbars \ {crossbar}
      BY <1>3 DEF Types, TypeOK
    <2>2. PICK x \in DOMAIN crossbars : x = held[p]
      BY <2>1
    <2>3. /\ lanes' \in Seq(LaneType) /\ DOMAIN lanes' = DOMAIN lanes
          /\ \A l \in DOMAIN lanes \ Lanes(x) : lanes'[l] = lanes[l]
          /\ \A l \in Lanes(x) :
               LaneIs(lanes'[l], l, <<>>, TRUE,
                      IF lanes[l].worker = "run" THEN "exited" ELSE lanes[l].worker,
                      FALSE, lanes[l].forced)
      BY <1>3, <2>2, DestroyedLanes
    <2>4. HeapOK'
      BY <1>1, <2>3, CrossbarsInPlace DEF HeapOK
    <2> QED
      BY <1>1, <2>1, <2>2, <2>3, <2>4 DEF InPlace
  <1> QED
    BY <1>2, <1>3 DEF Return

-----------------------------------------------------------------------------
(* Every step keeps the types.                                             *)

LEMMA HeapIsOK == Types => HeapOK
  BY DEF Types, TypeOK, HeapOK, CrossbarType

LEMMA LocalTypes ==
  ASSUME Types
  PROVE  /\ \A a \in Admins : acopy[a] \in Seq(RouteId) /\ ai[a] \in Nat \ {0}
         /\ \A p \in Producers : todo[p] \in Seq(DOMAIN lanes) /\ copied[p] \in Seq(RouteId)
         /\ \A p \in Producers : held[p] \in {0} \cup DOMAIN crossbars
         /\ \A p \in Producers : ppc[p] \in {"accepting", "snapshot", "flush"} =>
                                   held[p] \in DOMAIN crossbars
         /\ crossbar \in DOMAIN crossbars /\ Len(routes) \in Nat
         /\ \A r \in RouteId : out[r] \in Seq([event : Event, lane : Nat])
  <1>1. Len(routes) \in Nat
    BY SeqIsFunction DEF Types, TypeOK
  <1> QED
    BY <1>1 DEF Types, TypeOK, LocalsOK

\* The heap after any step: lanes and crossbars stay, a lane keeps its route and remembers a
\* forced stop.
HeapGrows ==
  /\ HeapOK' /\ DOMAIN lanes \subseteq DOMAIN lanes' /\ DOMAIN crossbars \subseteq DOMAIN crossbars'
  /\ \A l \in DOMAIN lanes :
       lanes'[l].route = lanes[l].route /\ (lanes[l].forced => lanes'[l].forced)

LEMMA HeapStep ==
  ASSUME Types, [Next]_vars
  PROVE  HeapGrows
  <1>0. HeapOK /\ \A l \in DOMAIN lanes : lanes[l] \in LaneType
    BY HeapIsOK, HeapTypes
  <1>1. CASE UNCHANGED <<crossbars, lanes, crossbar>>
    BY <1>0, <1>1 DEF HeapOK, CrossbarType, HeapGrows
  <1>2. ASSUME NEW a \in Admins, Relane(a) \/ RebuildRunning(a) PROVE HeapGrows
    <2>1. UNCHANGED crossbar /\ acopy[a] \in Seq(RouteId)
      BY <1>2, LocalTypes DEF Relane, RebuildRunning, pipelineVars
    <2>2. CASE \E b \in BOOLEAN : Rebuild(crossbar, acopy[a], b)
      BY <1>0, <2>1, <2>2, RebuildEffect DEF HeapGrows, Adds
    <2>3. CASE StopBegins(a, TRUE, "rebuild")
      BY <1>0, <2>1, <2>3, StopEffect, HeapTypes
         DEF HeapGrows, InPlace, SameCrossbars, heapVars, LaneIs
    <2> QED
      BY <1>2, <2>2, <2>3 DEF Relane, RebuildRunning
  <1>3. ASSUME NEW a \in Admins, StopLanes(a) PROVE HeapGrows
    <2>1. PICK d \in BOOLEAN : d <=> aop[a] = "close"
      OBVIOUS
    <2>2. UNCHANGED crossbar /\ StopBegins(a, d, "flush")
      BY <1>3, <2>1 DEF StopLanes
    <2> QED
      BY <1>0, <2>2, StopEffect, HeapTypes
         DEF HeapGrows, InPlace, SameCrossbars, heapVars, LaneIs
  <1>4. ASSUME NEW a \in Admins, start(a) PROVE HeapGrows
    BY <1>0, <1>4, StartEffect, HeapTypes
       DEF HeapGrows, InPlace, SameCrossbars, heapVars, LaneIs
  <1>5. ASSUME NEW a \in Admins, CloseLane(a) PROVE HeapGrows
    <2>1. CASE UNCHANGED heapVars
      BY <1>1, <1>5, <2>1 DEF CloseLane, pipelineVars, heapVars
    <2>2. CASE SameCrossbars /\ \E l \in Lanes(crossbar) :
                 InPlace({l}) /\ lanes'[l].route = lanes[l].route /\ (lanes[l].forced => lanes'[l].forced)
      BY <1>0, <2>2, HeapTypes DEF HeapGrows, InPlace, SameCrossbars, LaneIs
    <2> QED
      BY <1>0, <1>5, <2>1, <2>2, CloseEffect, LocalTypes DEF LaneIs
  <1>6. ASSUME NEW a \in Admins, Join(a) PROVE HeapGrows
    BY <1>0, <1>6, JoinEffect, HeapTypes DEF HeapGrows, InPlace, SameCrossbars, LaneIs
  <1>7. ASSUME NEW a \in Admins, Renew(a) PROVE HeapGrows
    <2>1. acopy[a] \in Seq(RouteId) /\ Replace(acopy[a]) /\ crossbar \in DOMAIN crossbars
      BY <1>7, LocalTypes DEF Renew
    <2>2. /\ HeapOK' /\ DOMAIN crossbars \subseteq DOMAIN crossbars'
          /\ \E old \in {lanes, Destroyed(crossbar)} : Adds(old, acopy[a], "none")
      BY <1>0, <2>1, ReplaceEffect
    <2>3. \A l \in DOMAIN lanes : \A old \in {lanes, Destroyed(crossbar)} :
            old[l].route = lanes[l].route /\ (old[l].forced <=> lanes[l].forced)
      <3>1. ASSUME NEW l \in DOMAIN lanes
            PROVE  /\ Destroyed(crossbar)[l].route = lanes[l].route
                   /\ (Destroyed(crossbar)[l].forced <=> lanes[l].forced)
        <4>1. CASE l \in Lanes(crossbar)
          BY <1>0, <2>1, <4>1, DestroyedLanes DEF LaneIs
        <4>2. CASE l \notin Lanes(crossbar)
          BY <1>0, <2>1, <4>2, DestroyedLanes
        <4> QED
          BY <4>1, <4>2
      <3> QED
        BY <3>1
    <2> QED
      BY <2>2, <2>3 DEF HeapGrows, Adds
  <1>8. ASSUME NEW p \in Producers, Push(p) PROVE HeapGrows
    <2>1. PICK l \in DOMAIN lanes :
            /\ SameCrossbars /\ UNCHANGED crossbars
            /\ \/ /\ InPlace({l}) /\ lanes'[l].route = lanes[l].route
                  /\ lanes[l].forced => lanes'[l].forced
               \/ UNCHANGED lanes
      BY <1>0, <1>8, PushEffect DEF LaneIs
    <2> QED
      BY <1>0, <1>1, <2>1 DEF HeapGrows, InPlace, SameCrossbars, LaneIs
  <1>9. ASSUME NEW p \in Producers, Return(p) PROVE HeapGrows
    BY <1>0, <1>9, ReturnEffect, HeapTypes DEF HeapGrows, InPlace, SameCrossbars, LaneIs
  <1>10. ASSUME NEW l \in DOMAIN lanes, WorkerWrites(l) \/ WorkerExits(l) PROVE HeapGrows
    <2>1. CASE WorkerWrites(l)
      BY <1>0, <2>1, WriteEffect DEF HeapGrows, InPlace, SameCrossbars, LaneIs
    <2>2. CASE WorkerExits(l)
      BY <1>0, <2>2, ExitEffect DEF HeapGrows, InPlace, SameCrossbars, LaneIs
    <2> QED
      BY <1>10, <2>1, <2>2
  <1>11. ASSUME NEW a \in Admins, Call(a), ~start(a) PROVE HeapGrows
    BY <1>1, <1>11 DEF Call, add_route, clear_routes, flush, Stop, configure, heapVars, pipelineVars
  <1>12. ASSUME NEW a \in Admins, FlushAfterStop(a) \/ CopyRoutes(a) \/ LoadRunning(a) PROVE HeapGrows
    BY <1>1, <1>12 DEF FlushAfterStop, CopyRoutes, LoadRunning, heapVars, pipelineVars
  <1>13. ASSUME NEW p \in Producers,
                \/ LoadMode(p) \/ CopyPointer(p) \/ LoadAccepting(p) \/ Snapshot(p)
                \/ DispatchSync(p) \/ WriteSync(p) \/ CopyFlushPointer(p) \/ FlushFatal(p)
                \/ \E severity \in Severities : LogAt(p, severity)
         PROVE  HeapGrows
    BY <1>1, <1>13 DEF LoadMode, CopyPointer, LoadAccepting, Snapshot, DispatchSync, WriteSync,
                       CopyFlushPointer, FlushFatal, LogAt, heapVars, pipelineVars
  <1>14. CASE UNCHANGED vars
    BY <1>1, <1>14 DEF vars, heapVars, pipelineVars
  <1> QED
    BY <1>2, <1>3, <1>4, <1>5, <1>6, <1>7, <1>8, <1>9, <1>10, <1>11, <1>12, <1>13, <1>14
       DEF Next, AdminStep, ProducerStep, WorkerStep, Finished

Entry == [event : Event, lane : Nat]

SinksOK ==
  /\ out \in [RouteId -> Seq(Entry)] /\ flushed \in [RouteId -> Nat]
  /\ \A r \in RouteId : flushed[r] \in 0..Len(out[r])

\* The sinks after any step: what has been received or flushed stays so.
SinksGrow ==
  \A r \in RouteId :
    /\ Len(out[r]) <= Len(out'[r]) /\ \A k \in DOMAIN out[r] : k \in DOMAIN out'[r]
    /\ \A k \in DOMAIN out[r] : out'[r][k] = out[r][k]
    /\ flushed[r] <= flushed'[r]

LEMMA SinksAreOK ==
  ASSUME Types
  PROVE  /\ SinksOK
         /\ \A r \in RouteId : /\ out[r] \in Seq(Entry) /\ Len(out[r]) \in Nat
                               /\ DOMAIN out[r] = 1..Len(out[r])
                               /\ \A k \in DOMAIN out[r] : out[r][k] \in Entry
  <1>1. SinksOK
    BY DEF Types, TypeOK, LocalsOK, SinksOK, Entry
  <1>2. \A r \in RouteId : out[r] \in Seq(Entry)
    BY <1>1 DEF SinksOK
  <1> QED
    BY <1>1, <1>2, SeqIsFunction

\* Some sinks receive one entry.
LEMMA SinksReceive ==
  ASSUME Types, UNCHANGED flushed, out' \in [RouteId -> Seq(Entry)],
         \A r \in RouteId : out'[r] = out[r] \/ \E e \in Entry : out'[r] = Append(out[r], e)
  PROVE  SinksOK' /\ SinksGrow
  <1>1. ASSUME NEW r \in RouteId
        PROVE  /\ Len(out[r]) <= Len(out'[r]) /\ \A k \in DOMAIN out[r] : k \in DOMAIN out'[r]
               /\ \A k \in DOMAIN out[r] : out'[r][k] = out[r][k]
               /\ flushed[r] <= flushed'[r] /\ flushed'[r] \in 0..Len(out'[r])
    <2>1. /\ out[r] \in Seq(Entry) /\ flushed[r] \in 0..Len(out[r]) /\ flushed[r] \in Nat
          /\ Len(out[r]) \in Nat /\ DOMAIN out[r] = 1..Len(out[r])
      BY SinksAreOK DEF SinksOK
    <2>2. CASE out'[r] = out[r]
      BY <2>1, <2>2
    <2>3. ASSUME NEW e \in Entry, out'[r] = Append(out[r], e)
          PROVE  /\ Len(out[r]) <= Len(out'[r]) /\ \A k \in DOMAIN out[r] : k \in DOMAIN out'[r]
                 /\ \A k \in DOMAIN out[r] : out'[r][k] = out[r][k]
                 /\ flushed[r] <= flushed'[r] /\ flushed'[r] \in 0..Len(out'[r])
      <3>1. /\ Len(out'[r]) = Len(out[r]) + 1 /\ DOMAIN out'[r] = 1..(Len(out[r]) + 1)
            /\ \A k \in 1..Len(out[r]) : out'[r][k] = out[r][k]
        BY <2>1, <2>3, AppendElements
      <3> QED
        BY <2>1, <3>1
    <2> QED
      BY <2>2, <2>3
  <1> QED
    BY <1>1, SinksAreOK DEF SinksOK, SinksGrow

LEMMA SinksFlush ==
  ASSUME Types, UNCHANGED out, NEW x, FlushSinks(x)
  PROVE  SinksOK' /\ SinksGrow
  <1>1. \A r \in RouteId : flushed'[r] = Len(out[r]) \/ flushed'[r] = flushed[r]
    BY DEF FlushSinks, SinkFlush
  <1>2. \A r \in RouteId : flushed[r] \in 0..Len(out[r]) /\ Len(out[r]) \in Nat
    BY SinksAreOK DEF SinksOK
  <1>3. flushed' \in [RouteId -> Nat]
    BY <1>1, <1>2 DEF FlushSinks
  <1> QED
    BY <1>1, <1>2, <1>3, SinksAreOK DEF SinksOK, SinksGrow

\* p writes its event to the sink of route r.
Writes(p, r) == WriteSync(p) /\ copied[p] # <<>> /\ r = Head(copied[p])

\* What p's synchronous write does to the sinks.
LEMMA SyncEffect ==
  ASSUME Types, NEW p \in Producers, WriteSync(p)
  PROVE  /\ UNCHANGED flushed /\ out' \in [RouteId -> Seq(Entry)]
         /\ <<p, sent[p]>> \in Event /\ [event |-> <<p, sent[p]>>, lane |-> 0] \in Entry
         /\ \A r \in RouteId :
              \/ out'[r] = out[r]
              \/ /\ out'[r] = Append(out[r], [event |-> <<p, sent[p]>>, lane |-> 0])
                 /\ Writes(p, r)
  <1> DEFINE e == [event |-> <<p, sent[p]>>, lane |-> 0]
  <1>1. <<p, sent[p]>> \in Event
    BY LifecycleAssumption DEF Types, LocalsOK, WriteSync, Event
  <1>2. e \in Entry
    BY <1>1 DEF Entry
  <1> HIDE DEF e
  <1>3. \/ UNCHANGED out
        \/ copied[p] # <<>> /\ out' = [out EXCEPT ![Head(copied[p])] = Append(@, e)]
    BY DEF WriteSync, SinkWrite, e
  <1>4. out \in [RouteId -> Seq(Entry)]
    BY SinksAreOK DEF SinksOK
  <1>5. \A r \in RouteId : Append(out[r], e) \in Seq(Entry)
    BY <1>2, <1>4, AppendElements
  <1>6. \A r \in RouteId : out'[r] = out[r] \/ (out'[r] = Append(out[r], e) /\ Writes(p, r))
    BY <1>3, <1>4 DEF Writes
  <1>7. out' \in [RouteId -> Seq(Entry)]
    BY <1>3, <1>4, <1>5
  <1> QED
    BY <1>1, <1>2, <1>6, <1>7 DEF WriteSync, e

\* A worker writes the head of its queue.
LEMMA WrittenEffect ==
  ASSUME Types, NEW l \in DOMAIN lanes, WorkerWrites(l)
  PROVE  /\ UNCHANGED flushed /\ out' \in [RouteId -> Seq(Entry)]
         /\ l \in Nat \ {0} /\ [event |-> Head(lanes[l].queue), lane |-> l] \in Entry
         /\ out'[lanes[l].route] =
              Append(out[lanes[l].route], [event |-> Head(lanes[l].queue), lane |-> l])
         /\ \A r \in RouteId \ {lanes[l].route} : out'[r] = out[r]
  <1> DEFINE e == [event |-> Head(lanes[l].queue), lane |-> l]
  <1>1. lanes[l].queue \in Seq(Event) /\ lanes[l].queue # <<>> /\ lanes[l].route \in RouteId
    BY HeapIsOK, WriteEffect
  <1>2. l \in Nat \ {0}
    BY HeapIsOK, HeapTypes
  <1>3. e \in Entry
    BY <1>1, <1>2, HeadAndTail DEF Entry
  <1> HIDE DEF e
  <1>4. out' = [out EXCEPT ![lanes[l].route] = Append(@, e)] /\ UNCHANGED flushed
    BY DEF WorkerWrites, SinkWrite, e
  <1>5. out \in [RouteId -> Seq(Entry)] /\ Append(out[lanes[l].route], e) \in Seq(Entry)
    BY <1>1, <1>3, SinksAreOK, AppendElements DEF SinksOK
  <1> QED
    BY <1>1, <1>2, <1>3, <1>4, <1>5 DEF e

LEMMA SinksStep ==
  ASSUME Types, [Next]_vars
  PROVE  SinksOK' /\ SinksGrow
  <1>1. CASE UNCHANGED sinkVars
    BY <1>1, SinksAreOK DEF sinkVars, SinksOK, SinksGrow
  <1>2. ASSUME NEW p \in Producers, WriteSync(p) PROVE SinksOK' /\ SinksGrow
    BY <1>2, SyncEffect, SinksReceive
  <1>3. ASSUME NEW l \in DOMAIN lanes, WorkerWrites(l) PROVE SinksOK' /\ SinksGrow
    BY <1>3, WrittenEffect, SinksReceive
  <1>4. ASSUME NEW a \in Admins, FlushAfterStop(a) \/ flush(a) PROVE SinksOK' /\ SinksGrow
    BY <1>4, SinksFlush DEF FlushAfterStop, flush
  <1>5. ASSUME NEW p \in Producers, FlushFatal(p) PROVE SinksOK' /\ SinksGrow
    BY <1>5, SinksFlush DEF FlushFatal
  <1>6. ASSUME NEW a \in Admins, Call(a), ~flush(a) PROVE UNCHANGED sinkVars
    BY <1>6 DEF Call, add_route, clear_routes, start, Stop, configure
  <1>7. ASSUME NEW a \in Admins, AdminStep(a), ~FlushAfterStop(a) PROVE UNCHANGED sinkVars
    BY <1>7 DEF AdminStep, Relane, StopLanes, CloseLane, Join, RebuildRunning, CopyRoutes,
                Renew, LoadRunning
  <1>8. ASSUME NEW p \in Producers, ProducerStep(p), ~WriteSync(p), ~FlushFatal(p)
        PROVE  UNCHANGED sinkVars
    BY <1>8 DEF ProducerStep, LoadMode, CopyPointer, LoadAccepting, Snapshot, Push,
                DispatchSync, CopyFlushPointer, Return
  <1>9. ASSUME NEW p \in Producers, NEW severity, LogAt(p, severity) PROVE UNCHANGED sinkVars
    BY <1>9 DEF LogAt
  <1>10. ASSUME NEW l, WorkerExits(l) PROVE UNCHANGED sinkVars
    BY <1>10 DEF WorkerExits
  <1>11. CASE UNCHANGED vars
    BY <1>1, <1>11 DEF vars
  <1> QED
    BY <1>1, <1>2, <1>3, <1>4, <1>5, <1>6, <1>7, <1>8, <1>9, <1>10, <1>11
       DEF Next, WorkerStep, Finished

APlace == {"idle", "relane", "stop", "closing", "joining", "rebuild",
           "flush", "copy", "renew", "loadRunning"}

\* The part of Types that only lifecycle operations change ...
AdminOK ==
  /\ routes \in Seq(RouteId) /\ async \in BOOLEAN /\ running \in BOOLEAN /\ accepting \in BOOLEAN
  /\ apc \in [Admins -> APlace] /\ aop \in [Admins -> Operation]
  /\ acopy \in [Admins -> Seq(RouteId)] /\ ai \in [Admins -> Nat \ {0}]
  /\ ops \in 0..MaxOps /\ added \in 0..MaxRoutes

\* ... which only lifecycle operations change.
LEMMA AdminUntouched ==
  ASSUME \/ \E p \in Producers : ProducerStep(p) \/ \E severity \in Severities : LogAt(p, severity)
         \/ WorkerStep \/ UNCHANGED vars
  PROVE  UNCHANGED <<pipelineVars, adminVars>>
  BY DEF ProducerStep, LoadMode, CopyPointer, LoadAccepting, Snapshot, Push, DispatchSync, WriteSync,
         CopyFlushPointer, FlushFatal, Return, LogAt, WorkerStep, WorkerWrites, WorkerExits, vars

LEMMA AdminIsOK ==
  ASSUME Types
  PROVE  AdminOK
  BY DEF Types, TypeOK, LocalsOK, AdminOK, APlace

LEMMA AdminTypesStep ==
  ASSUME Types, [Next]_vars
  PROVE  AdminOK'
  <1>0. AdminOK
    BY AdminIsOK
  <1>1. CASE UNCHANGED <<pipelineVars, adminVars>>
    BY <1>0, <1>1 DEF AdminOK, pipelineVars, adminVars
  <1>2. ASSUME NEW a \in Admins, add_route(a) \/ clear_routes(a) PROVE AdminOK'
    <2>1. routes' \in Seq(RouteId) /\ added' \in 0..MaxRoutes
      <3>1. CASE add_route(a)
        <4>1. added + 1 \in RouteId /\ added' = added + 1 /\ routes' = Append(routes, added + 1)
          BY <1>0, <3>1, LifecycleAssumption DEF add_route, AdminOK, RouteId
        <4> QED
          BY <1>0, <4>1, AppendElements DEF AdminOK, RouteId
      <3>2. CASE clear_routes(a)
        BY <1>0, <3>2, EmptySeq DEF clear_routes, AdminOK
      <3> QED
        BY <1>2, <3>1, <3>2
    <2>2. /\ acopy' = [acopy EXCEPT ![a] = routes'] /\ UNCHANGED <<async, running, accepting, ai>>
          /\ apc' = [apc EXCEPT ![a] = "relane"] /\ aop' = [aop EXCEPT ![a] = "route"]
          /\ ops < MaxOps /\ ops' = ops + 1
      BY <1>2 DEF add_route, clear_routes, Begin, Called, AGoto
    <2> QED
      BY <1>0, <2>1, <2>2, LifecycleAssumption DEF AdminOK, APlace, Operation
  <1>3. ASSUME NEW a \in Admins, Finish(a), UNCHANGED <<routes, async, running, ops, added>>,
               accepting' \in BOOLEAN
        PROVE  AdminOK'
    <2>1. <<>> \in Seq(RouteId)
      BY EmptySeq
    <2> QED
      BY <1>0, <1>3, <2>1 DEF AdminOK, APlace, Operation, Finish, AGoto
  <1>4. ASSUME NEW a \in Admins, NEW l \in APlace, AGoto(a, l),
               UNCHANGED <<routes, async, accepting, ops, added, aop, acopy>>,
               ai' \in [Admins -> Nat \ {0}], running' \in BOOLEAN
        PROVE  AdminOK'
    BY <1>0, <1>4 DEF AdminOK, AGoto
  <1>5. ASSUME NEW a \in Admins, Relane(a) \/ RebuildRunning(a) \/ Renew(a) \/ LoadRunning(a)
        PROVE  AdminOK'
    <2>1. CASE Finish(a)
      <3>1. UNCHANGED <<routes, async, running, ops, added>> /\ accepting' \in BOOLEAN
        BY <1>0, <1>5 DEF Relane, RebuildRunning, Renew, LoadRunning, pipelineVars, AdminOK
      <3> QED
        BY <1>3, <2>1, <3>1
    <2>2. CASE /\ AGoto(a, "rebuild") \/ AGoto(a, "closing") \/ AGoto(a, "copy")
               /\ ai' = ai \/ ai' = [ai EXCEPT ![a] = 1]
               /\ UNCHANGED <<pipelineVars, ops, added, aop, acopy>>
      <3>1. ai' \in [Admins -> Nat \ {0}] /\ running' \in BOOLEAN
        BY <1>0, <2>2 DEF AdminOK, pipelineVars
      <3>2. UNCHANGED <<routes, async, accepting, ops, added, aop, acopy>>
        BY <2>2 DEF pipelineVars
      <3> QED
        BY <1>4, <2>2, <3>1, <3>2 DEF APlace
    <2> QED
      BY <1>5, <2>1, <2>2 DEF Relane, RebuildRunning, Renew, LoadRunning, StopBegins
  <1>6. ASSUME NEW a \in Admins, StopLanes(a) PROVE AdminOK'
    <2>1. /\ AGoto(a, "flush") \/ AGoto(a, "closing")
          /\ ai' = ai \/ ai' = [ai EXCEPT ![a] = 1]
          /\ UNCHANGED <<routes, async, accepting, ops, added, aop, acopy>> /\ running' = FALSE
      BY <1>6 DEF StopLanes, StopBegins
    <2> QED
      <3>1. ai' \in [Admins -> Nat \ {0}]
        <4>1. ai \in [Admins -> Nat \ {0}]
          BY <1>0 DEF AdminOK
        <4>2. ai' = ai \/ ai' = [ai EXCEPT ![a] = 1]
          BY <2>1
        <4> QED
          BY <4>1, <4>2
      <3>2. running' \in BOOLEAN
        BY <2>1
      <3> QED
        BY <1>4, <2>1, <3>1, <3>2 DEF APlace
  <1>7. ASSUME NEW a \in Admins, CloseLane(a) PROVE AdminOK'
    <2>1. /\ UNCHANGED apc \/ AGoto(a, "joining")
          /\ ai' = ai \/ ai' = [ai EXCEPT ![a] = @ + 1]
          /\ UNCHANGED <<routes, async, running, accepting, ops, added, aop, acopy>>
      BY <1>7 DEF CloseLane, pipelineVars
    <2> QED
      <3>1. ai' \in [Admins -> Nat \ {0}]
        <4>1. ai \in [Admins -> Nat \ {0}] /\ ai[a] + 1 \in Nat \ {0}
          BY <1>0 DEF AdminOK
        <4> QED
          BY <2>1, <4>1
      <3>2. apc' \in [Admins -> APlace]
        BY <1>0, <2>1 DEF AdminOK, AGoto, APlace
      <3> QED
        BY <1>0, <2>1, <3>1, <3>2 DEF AdminOK
  <1>8. ASSUME NEW a \in Admins, Join(a) \/ FlushAfterStop(a) PROVE AdminOK'
    <2>1. /\ AGoto(a, "rebuild") \/ AGoto(a, "flush") \/ AGoto(a, "copy")
          /\ UNCHANGED <<routes, async, running, accepting, ops, added, aop, acopy, ai>>
      BY <1>8 DEF Join, FlushAfterStop, pipelineVars
    <2> QED
      BY <1>0, <1>4, <2>1 DEF APlace, AdminOK
  <1>9. ASSUME NEW a \in Admins, CopyRoutes(a) PROVE AdminOK'
    BY <1>0, <1>9 DEF CopyRoutes, AdminOK, AGoto, APlace, pipelineVars
  <1>10. ASSUME NEW a \in Admins, start(a) \/ flush(a) PROVE AdminOK'
    <2>1. /\ UNCHANGED <<routes, async, apc, aop, acopy, ai, added>>
          /\ running' \in BOOLEAN /\ accepting' \in BOOLEAN /\ ops < MaxOps /\ ops' = ops + 1
      BY <1>0, <1>10 DEF start, flush, Called, pipelineVars, AdminOK
    <2> QED
      BY <1>0, <2>1, LifecycleAssumption DEF AdminOK
  <1>11. ASSUME NEW a \in Admins, NEW op \in {"close", "request_stop"}, Stop(a, op) PROVE AdminOK'
    <2>1. /\ UNCHANGED <<routes, async, running, acopy, ai, added>> /\ accepting' = FALSE
          /\ ops < MaxOps /\ ops' = ops + 1
          /\ apc' = [apc EXCEPT ![a] = "stop"] /\ aop' = [aop EXCEPT ![a] = op]
      BY <1>11 DEF Stop, Begin, Called, AGoto
    <2>2. ops' \in 0..MaxOps
      BY <1>0, <2>1, LifecycleAssumption DEF AdminOK
    <2>3. op \in Operation /\ "stop" \in APlace
      BY DEF Operation, APlace
    <2> QED
      BY <1>0, <2>1, <2>2, <2>3 DEF AdminOK
  <1>12. ASSUME NEW a \in Admins, NEW mode \in BOOLEAN, configure(a, mode) PROVE AdminOK'
    BY <1>0, <1>12, LifecycleAssumption
       DEF configure, Begin, Called, AGoto, AdminOK, APlace, Operation
  <1> QED
    BY <1>1, <1>2, <1>5, <1>6, <1>7, <1>8, <1>9, <1>10, <1>11, <1>12, AdminUntouched
       DEF Next, Call, AdminStep, Finished

PPlace == {"idle", "mode", "pointer", "accepting", "snapshot", "push", "sync",
           "write", "flushPointer", "flush"}

\* The part of Types that calls of log change.
ProducersOK ==
  /\ ppc \in [Producers -> PPlace]
  /\ sev \in [Producers -> Severities] /\ calm \in [Producers -> BOOLEAN]
  /\ held \in [Producers -> {0} \cup DOMAIN crossbars]
  /\ todo \in [Producers -> Seq(DOMAIN lanes)]
  /\ accepted \subseteq Event \X DOMAIN lanes
  /\ mask \in [Producers -> Nat] /\ sent \in [Producers -> 0..MaxEvents]
  /\ \A p \in Producers : ppc[p] # "idle" => sent[p] >= 1
  /\ \A p \in Producers : ppc[p] \in {"accepting", "snapshot", "flush"} => held[p] # 0

LEMMA ProducersAreOK ==
  ASSUME Types
  PROVE  ProducersOK
  BY DEF Types, TypeOK, LocalsOK, ProducersOK, PPlace

\* Lifecycle operations and workers only disturb calls of log.
LEMMA ProducersUntouched ==
  ASSUME (\E a \in Admins : Call(a) \/ AdminStep(a)) \/ WorkerStep \/ UNCHANGED vars
  PROVE  /\ UNCHANGED <<ppc, sev, mask, held, todo, copied, sent, accepted>>
         /\ \/ UNCHANGED calm
            \/ /\ calm' = [p \in Producers |-> ppc[p] = "idle"]
               /\ \E a \in Admins : add_route(a) \/ clear_routes(a)
  BY DEF Call, add_route, clear_routes, start, flush, Stop, configure, AdminStep, Relane, StopLanes,
         CloseLane, Join, RebuildRunning, FlushAfterStop, CopyRoutes, Renew, LoadRunning, Disturb,
         WorkerStep, WorkerWrites, WorkerExits, vars, producerVars

LEMMA WiderProducers ==
  ASSUME Types, HeapGrows
  PROVE  /\ held \in [Producers -> {0} \cup DOMAIN crossbars']
         /\ todo \in [Producers -> Seq(DOMAIN lanes')]
         /\ accepted \subseteq Event \X DOMAIN lanes'
  <1>1. \A p \in Producers : todo[p] \in Seq(DOMAIN lanes')
    BY SeqWider, LocalTypes DEF HeapGrows
  <1> QED
    BY <1>1, ProducersAreOK DEF ProducersOK, HeapGrows

LEMMA ProducerTypesStep ==
  ASSUME Types, [Next]_vars
  PROVE  ProducersOK'
  <1>0. ProducersOK
    BY ProducersAreOK
  <1>1. /\ held \in [Producers -> {0} \cup DOMAIN crossbars']
        /\ todo \in [Producers -> Seq(DOMAIN lanes')]
        /\ accepted \subseteq Event \X DOMAIN lanes' /\ HeapOK'
    BY HeapStep, WiderProducers DEF HeapGrows
  <1>2. CASE (\E a \in Admins : Call(a) \/ AdminStep(a)) \/ WorkerStep \/ UNCHANGED vars
    <2>1. UNCHANGED <<ppc, sev, mask, held, todo, sent, accepted>>
      BY <1>2, ProducersUntouched
    <2>2. calm' \in [Producers -> BOOLEAN]
      <3>1. calm \in [Producers -> BOOLEAN]
        BY <1>0 DEF ProducersOK
      <3>2. [p \in Producers |-> ppc[p] = "idle"] \in [Producers -> BOOLEAN]
        OBVIOUS
      <3> QED
        BY <1>2, <3>1, <3>2, ProducersUntouched
    <2> QED
      BY <1>0, <1>1, <2>1, <2>2 DEF ProducersOK
  <1>3. ASSUME NEW p \in Producers, NEW severity \in Severities, LogAt(p, severity) PROVE ProducersOK'
    <2>1. sent[p] \in 0..MaxEvents /\ sent' = [sent EXCEPT ![p] = @ + 1] /\ sent[p] < MaxEvents
          /\ ppc[p] = "idle"
      BY <1>0, <1>3 DEF ProducersOK, LogAt
    <2>2. sent' \in [Producers -> 0..MaxEvents] /\ \A q \in Producers : sent'[q] >= sent[q]
          /\ sent'[p] >= 1
      BY <1>0, <2>1, LifecycleAssumption DEF ProducersOK
    <2>3. UNCHANGED <<held, todo, accepted>>
      BY <1>3 DEF LogAt
    <2>4. CASE UNCHANGED <<ppc, sev, mask, calm>>
      BY <1>0, <1>1, <2>2, <2>3, <2>4, LifecycleAssumption DEF ProducersOK
    <2>5. CASE /\ sev' = [sev EXCEPT ![p] = severity] /\ mask' = [mask EXCEPT ![p] = Len(routes)]
               /\ calm' = [calm EXCEPT ![p] = \A a \in Admins : apc[a] = "idle" \/ aop[a] # "route"]
               /\ PGoto(p, "mode")
      <3>1. calm' \in [Producers -> BOOLEAN]
        BY <1>0, <2>5 DEF ProducersOK
      <3>2. sev' \in [Producers -> Severities] /\ mask' \in [Producers -> Nat]
        BY <1>0, <2>5, LocalTypes DEF ProducersOK
      <3>3. /\ ppc' \in [Producers -> PPlace]
            /\ \A q \in Producers : ppc'[q] = ppc[q] \/ (q = p /\ ppc'[q] = "mode")
        BY <1>0, <2>5 DEF ProducersOK, PGoto, PPlace
      <3>4. \A q \in Producers : ppc'[q] # "idle" => sent'[q] >= 1
        BY <1>0, <2>2, <3>3, LifecycleAssumption DEF ProducersOK
      <3>5. \A q \in Producers : ppc'[q] \in {"accepting", "snapshot", "flush"} => held[q] # 0
        BY <1>0, <3>3 DEF ProducersOK
      <3> QED
        BY <1>0, <1>1, <2>2, <2>3, <3>1, <3>2, <3>3, <3>4, <3>5 DEF ProducersOK
    <2> QED
      BY <1>3, <2>4, <2>5 DEF LogAt
  <1>4. ASSUME NEW p \in Producers, NEW l \in PPlace, PGoto(p, l),
               ppc[p] # "idle", UNCHANGED <<sev, calm, accepted, mask, sent>>,
               held' = [held EXCEPT ![p] = crossbar] \/ held' = held,
               l \in {"accepting", "snapshot", "flush"} => held'[p] # 0,
               UNCHANGED <<crossbars, lanes, crossbar>>, todo' \in [Producers -> Seq(DOMAIN lanes)]
        PROVE  ProducersOK'
    <2>1. crossbar \in DOMAIN crossbars /\ crossbar # 0
      BY HeapIsOK, HeapTypes, LocalTypes
    <2>2. /\ held' \in [Producers -> {0} \cup DOMAIN crossbars]
          /\ \A q \in Producers : held[q] # 0 => held'[q] # 0
      BY <1>0, <1>4, <2>1 DEF ProducersOK
    <2>3. /\ ppc' \in [Producers -> PPlace]
          /\ \A q \in Producers : ppc'[q] = ppc[q] \/ (q = p /\ ppc'[q] = l)
      BY <1>0, <1>4 DEF ProducersOK, PGoto
    <2>4. \A q \in Producers : ppc'[q] # "idle" => sent[q] >= 1
      BY <1>0, <1>4, <2>3 DEF ProducersOK
    <2>5. \A q \in Producers : ppc'[q] \in {"accepting", "snapshot", "flush"} => held'[q] # 0
      BY <1>0, <1>4, <2>2, <2>3 DEF ProducersOK
    <2> QED
      BY <1>0, <1>4, <2>2, <2>3, <2>4, <2>5 DEF ProducersOK
  <1>5. todo \in [Producers -> Seq(DOMAIN lanes)] /\ crossbar # 0
    BY <1>0, HeapIsOK, HeapTypes, LocalTypes DEF ProducersOK
  <1>6. ASSUME NEW p \in Producers, LoadMode(p) PROVE ProducersOK'
    BY <1>4, <1>5, <1>6 DEF LoadMode, PPlace, pipelineVars, heapVars
  <1>7. ASSUME NEW p \in Producers, CopyPointer(p) \/ CopyFlushPointer(p) PROVE ProducersOK'
    <2>1. /\ PGoto(p, "accepting") \/ PGoto(p, "flush")
          /\ held' = [held EXCEPT ![p] = crossbar] /\ ppc[p] # "idle"
          /\ UNCHANGED <<crossbars, lanes, crossbar, sev, calm, accepted, mask, sent, todo>>
      BY <1>7 DEF CopyPointer, CopyFlushPointer, pipelineVars, heapVars
    <2>2. held'[p] # 0
      BY <1>0, <1>5, <2>1 DEF ProducersOK
    <2> QED
      BY <1>4, <1>5, <2>1, <2>2 DEF PPlace
  <1>8. ASSUME NEW p \in Producers, LoadAccepting(p) PROVE ProducersOK'
    <2>1. held[p] # 0
      BY <1>0, <1>8 DEF ProducersOK, LoadAccepting
    <2> QED
      BY <1>4, <1>5, <1>8, <2>1 DEF LoadAccepting, PPlace, pipelineVars, heapVars
  <1>9. ASSUME NEW p \in Producers, Snapshot(p) PROVE ProducersOK'
    <2> DEFINE ls == LanesOf(held[p])
               m == IF mask[p] < Len(ls) THEN mask[p] ELSE Len(ls)
    <2>1. held[p] \in DOMAIN crossbars
      BY <1>9, LocalTypes DEF Snapshot
    <2>2. ls \in Seq(DOMAIN lanes) /\ Len(ls) \in Nat
      BY <2>1, HeapIsOK, HeapTypes, SeqIsFunction
    <2>3. m \in 0..Len(ls) /\ m \in Nat
      BY <1>0, <2>2 DEF ProducersOK
    <2>4. SubSeq(ls, 1, m) \in Seq(DOMAIN lanes)
      <3> HIDE DEF ls, m
      <3> QED
        BY <2>2, <2>3, SubSeqProperties
    <2>5. todo' = [todo EXCEPT ![p] = SubSeq(ls, 1, m)] /\ PGoto(p, "push") /\ ppc[p] = "snapshot"
          /\ UNCHANGED <<crossbars, lanes, crossbar, sev, calm, accepted, mask, sent, held>>
      BY <1>9 DEF Snapshot, pipelineVars, heapVars
    <2>6. todo' \in [Producers -> Seq(DOMAIN lanes)]
      BY <1>5, <2>4, <2>5
    <2> QED
      BY <1>4, <2>5, <2>6 DEF PPlace
  <1>10. ASSUME NEW p \in Producers, DispatchSync(p) \/ FlushFatal(p) PROVE ProducersOK'
    BY <1>4, <1>5, <1>10 DEF DispatchSync, FlushFatal, PPlace, pipelineVars, heapVars
  <1>13. ASSUME NEW p \in Producers, WriteSync(p) PROVE ProducersOK'
    <2>1. /\ ppc[p] = "write" /\ (UNCHANGED ppc \/ PGoto(p, "flushPointer") \/ PGoto(p, "push"))
          /\ UNCHANGED <<crossbars, lanes, crossbar, sev, calm, accepted, mask, sent, held, todo>>
      BY <1>13 DEF WriteSync, pipelineVars, heapVars
    <2>2. CASE UNCHANGED ppc
      BY <1>0, <1>1, <2>1, <2>2 DEF ProducersOK
    <2> QED
      BY <1>4, <1>5, <2>1, <2>2 DEF PPlace
  <1>11. ASSUME NEW p \in Producers, Push(p) PROVE ProducersOK'
    <2>1. PICK l \in DOMAIN lanes :
            /\ l = Head(todo[p]) /\ todo[p] # <<>> /\ SameCrossbars /\ UNCHANGED crossbars
            /\ <<p, sent[p]>> \in Event
            /\ UNCHANGED accepted \/ accepted' = accepted \cup {<<<<p, sent[p]>>, l>>}
      BY <1>11, HeapIsOK, PushEffect
    <2>2. todo' = [todo EXCEPT ![p] = Tail(@)] /\ UNCHANGED <<ppc, sev, mask, held, calm, sent>>
      BY <1>11 DEF Push
    <2>3. Tail(todo[p]) \in Seq(DOMAIN lanes')
      BY <1>1, <2>1, HeadAndTail
    <2>4. todo' \in [Producers -> Seq(DOMAIN lanes')]
      BY <1>1, <2>2, <2>3
    <2>5. accepted' \subseteq Event \X DOMAIN lanes'
      <3>1. l \in DOMAIN lanes'
        BY HeapStep DEF HeapGrows
      <3>2. <<<<p, sent[p]>>, l>> \in Event \X DOMAIN lanes'
        BY <2>1, <3>1
      <3> QED
        BY <1>1, <2>1, <3>2
    <2> QED
      BY <1>0, <1>1, <2>2, <2>4, <2>5 DEF ProducersOK
  <1>12. ASSUME NEW p \in Producers, Return(p) PROVE ProducersOK'
    <2>1. /\ held' = [held EXCEPT ![p] = 0] /\ mask' = [mask EXCEPT ![p] = 0]
          /\ calm' = [calm EXCEPT ![p] = TRUE] /\ sev' = [sev EXCEPT ![p] = "normal"]
          /\ ppc' = [ppc EXCEPT ![p] = "idle"] /\ UNCHANGED <<todo, sent, accepted>>
      BY <1>12 DEF Return, PGoto
    <2> QED
      BY <1>0, <1>1, <2>1 DEF ProducersOK, PPlace, Severities
  <1> QED
    BY <1>2, <1>3, <1>6, <1>7, <1>8, <1>9, <1>10, <1>11, <1>12, <1>13 DEF Next, ProducerStep, Finished

\* dispatch_sync_ copies some of the first routes.
LEMMA CopyEffect ==
  ASSUME Types, NEW p \in Producers, DispatchSync(p)
  PROVE  /\ copied'[p] \in Seq(RouteId) /\ DOMAIN copied'[p] \subseteq DOMAIN routes
         /\ \A i \in DOMAIN copied'[p] : copied'[p][i] = routes[i]
         /\ copied' = [copied EXCEPT ![p] = copied'[p]]
  <1>1. /\ routes \in Seq(RouteId) /\ Len(routes) \in Nat /\ DOMAIN routes = 1..Len(routes)
        /\ \A i \in DOMAIN routes : routes[i] \in RouteId
    BY SeqIsFunction DEF Types, TypeOK
  <1>2. mask[p] \in Nat /\ Len(routes) \in Nat
    BY <1>1, ProducersAreOK DEF ProducersOK
  <1>3. PICK n \in Nat : n = IF mask[p] < Len(routes) THEN mask[p] ELSE Len(routes)
    BY <1>2, <1>1
  <1>4. n <= Len(routes)
    BY <1>2, <1>3
  <1>5. \A i \in 1..n : routes[i] \in RouteId
    BY <1>1, <1>4
  <1>6. /\ SubSeq(routes, 1, n) \in Seq(RouteId)
        /\ Len(SubSeq(routes, 1, n)) = IF 1 <= n THEN n - 1 + 1 ELSE 0
        /\ \A i \in 1..(n - 1 + 1) : SubSeq(routes, 1, n)[i] = routes[1 + i - 1]
    BY <1>5, SubSeqProperties
  <1>7. copied' = [copied EXCEPT ![p] = SubSeq(routes, 1, n)] /\ copied'[p] = SubSeq(routes, 1, n)
    BY <1>3 DEF DispatchSync, Types, TypeOK
  <1>8. DOMAIN copied'[p] = 1..n
    BY <1>6, <1>7, SeqIsFunction
  <1>9. DOMAIN copied'[p] \subseteq DOMAIN routes
    BY <1>1, <1>4, <1>8
  <1>10. ASSUME NEW i \in DOMAIN copied'[p]
         PROVE  copied'[p][i] = routes[i]
    <2>1. /\ i \in 1..n
          /\ 1..n = 1..(n - 1 + 1) /\ 1 + i - 1 = i
      <3>1. i \in 1..n
        BY <1>8, <1>10, Zenon
      <3> QED
        BY <3>1
    <2>2. SubSeq(routes, 1, n)[i] = routes[1 + i - 1]
      BY <1>6, <2>1, Zenon
    <2>3. routes[1 + i - 1] = routes[i]
      BY <2>1, Zenon
    <2>4. copied'[p][i] = SubSeq(routes, 1, n)[i]
      BY <1>7, Zenon
    <2> QED
      BY <2>2, <2>3, <2>4, Zenon
  <1> QED
    BY <1>6, <1>7, <1>9, <1>10, Zenon

\* Only a synchronous call changes its copy of the routes.
LEMMA CopiedSteps ==
  ASSUME Types, [Next]_vars
  PROVE  UNCHANGED copied \/ \E p \in Producers : DispatchSync(p) \/ WriteSync(p)
  <1>1. ASSUME NEW p \in Producers, ~DispatchSync(p), ~WriteSync(p),
               ProducerStep(p) \/ \E severity \in Severities : LogAt(p, severity)
        PROVE  UNCHANGED copied
    BY <1>1 DEF ProducerStep, LoadMode, CopyPointer, LoadAccepting, Snapshot, Push, CopyFlushPointer,
                FlushFatal, Return, LogAt
  <1> QED
    BY <1>1, ProducersUntouched DEF Next, Finished

LEMMA CopiedTypesStep ==
  ASSUME Types, [Next]_vars
  PROVE  copied' \in [Producers -> Seq(RouteId)]
  <1>1. copied \in [Producers -> Seq(RouteId)]
    BY DEF Types, TypeOK
  <1>2. ASSUME NEW p \in Producers, DispatchSync(p) PROVE copied' \in [Producers -> Seq(RouteId)]
    BY <1>1, <1>2, CopyEffect
  <1>3. ASSUME NEW p \in Producers, WriteSync(p) PROVE copied' \in [Producers -> Seq(RouteId)]
    <2>1. copied[p] # <<>> => Tail(copied[p]) \in Seq(RouteId)
      BY <1>1, HeadAndTail
    <2> QED
      BY <1>1, <1>3, <2>1 DEF WriteSync
  <1> QED
    BY <1>1, <1>2, <1>3, CopiedSteps

LEMMA TypesInit == Init => Types
  <1> SUFFICES ASSUME Init PROVE Types
    OBVIOUS
  <1>1. /\ \A S : <<>> \in Seq(S)
        /\ lanes = <<>> /\ DOMAIN lanes = {}
    BY EmptySeq DEF Init
  <1> DEFINE c == [lanes |-> <<>>, running_ |-> FALSE]
  <1>2. c \in [lanes : Seq(DOMAIN lanes), running_ : BOOLEAN]
    BY <1>1
  <1>3. crossbars = <<c>>
    BY DEF Init
  <1> HIDE DEF c
  <1>4. /\ crossbars \in Seq([lanes : Seq(DOMAIN lanes), running_ : BOOLEAN])
        /\ crossbar \in DOMAIN crossbars
    BY <1>2, <1>3 DEF Init
  <1>5. lanes \in Seq(LaneType) /\ routes \in Seq(RouteId)
    BY <1>1 DEF Init
  <1>6. \A r \in RouteId : out[r] = <<>> /\ flushed[r] = 0
    BY DEF Init
  <1>7. \A r \in RouteId : flushed[r] \in 0..Len(out[r])
    BY <1>6, EmptySeq
  <1>8. /\ acopy \in [Admins -> Seq(RouteId)] /\ todo \in [Producers -> Seq(DOMAIN lanes)]
        /\ copied \in [Producers -> Seq(RouteId)]
        /\ out \in [RouteId -> Seq([event : Event, lane : Nat])]
    BY <1>1 DEF Init
  <1>9. TypeOK
    <2>1. {async, running, accepting} \subseteq BOOLEAN
      BY DEF Init
    <2>2. ops \in 0..MaxOps /\ added \in 0..MaxRoutes
      BY LifecycleAssumption DEF Init
    <2>3. /\ apc \in [Admins -> APlace] /\ ppc \in [Producers -> PPlace]
          /\ sev \in [Producers -> Severities]
      BY DEF Init, APlace, PPlace, Severities
    <2>4. calm \in [Producers -> BOOLEAN]
      BY DEF Init
    <2>5. held \in [Producers -> {0} \cup DOMAIN crossbars] /\ accepted \subseteq Event \X DOMAIN lanes
      BY DEF Init
    <2> QED
      BY <1>4, <1>5, <1>7, <1>8, <2>1, <2>2, <2>3, <2>4, <2>5 DEF TypeOK, APlace, PPlace
  <1>10. LocalsOK
    BY <1>8, LifecycleAssumption DEF Init, LocalsOK, Operation
  <1> QED
    BY <1>9, <1>10 DEF Types

LEMMA TypesStep == Types /\ [Next]_vars => Types'
  <1> SUFFICES ASSUME Types, [Next]_vars PROVE Types'
    OBVIOUS
  <1>1. /\ HeapOK' /\ SinksOK' /\ AdminOK' /\ ProducersOK'
        /\ copied' \in [Producers -> Seq(RouteId)]
    BY HeapStep, SinksStep, AdminTypesStep, ProducerTypesStep, CopiedTypesStep DEF HeapGrows
  <1>2. TypeOK'
    BY <1>1 DEF TypeOK, HeapOK, CrossbarType, SinksOK, AdminOK, APlace, ProducersOK, PPlace
  <1>3. LocalsOK'
    BY <1>1 DEF LocalsOK, SinksOK, Entry, AdminOK, ProducersOK
  <1> QED
    BY <1>2, <1>3 DEF Types

LEMMA TypesInvariant == Spec => []Types
  BY TypesInit, TypesStep, PTL DEF Spec

\* TypeOK holds of every behaviour, with any number of threads calling lifecycle operations
\* and logging: no operation leaves the pipeline without a crossbar, and no producer holds a
\* crossbar or a lane that is not there (logger.cpp, worker_m and its shared_ptr).
THEOREM LifecycleTypesHold == Spec => []TypeOK
  <1>1. Types => TypeOK
    BY DEF Types
  <1> QED
    BY <1>1, TypesInvariant, PTL

-----------------------------------------------------------------------------
(* Which steps change a crossbar's lanes.                                  *)

\* The routes of crossbar x's lanes.
RoutesOf(x) == [k \in DOMAIN LanesOf(x) |-> lanes[LanesOf(x)[k]].route]

\* configure() of the current crossbar ends with new lanes for b's copy of the routes.
Rebuilt(b, restart) ==
  /\ apc[b] = (IF restart THEN "rebuild" ELSE "relane")
  /\ ~restart => ~crossbars[crossbar].running_
  /\ Finish(b) /\ UNCHANGED <<pipelineVars, sinkVars, producerVars>>
  /\ Adds(lanes, acopy[b], IF restart THEN "run" ELSE "none")
  /\ DOMAIN crossbars' = DOMAIN crossbars
  /\ \A y \in DOMAIN crossbars \ {crossbar} : crossbars'[y] = crossbars[y]
  /\ LanesOf(crossbar)' = NewLanes(acopy[b])
  /\ crossbars'[crossbar].running_ = restart

\* b replaces the crossbar by one with lanes for its copy of the routes.
Renewed(b) ==
  /\ apc[b] = "renew" /\ Finish(b) /\ ~WorkerLocked
  /\ UNCHANGED <<routes, async, running, sinkVars, producerVars>>
  /\ accepting' = (accepting \/ aop[b] = "configure")
  /\ \E old \in {lanes, Destroyed(crossbar)} : Adds(old, acopy[b], "none")
  /\ crossbar' = Len(crossbars) + 1
  /\ DOMAIN crossbars' = DOMAIN crossbars \cup {crossbar'} /\ crossbar' \notin DOMAIN crossbars
  /\ \A y \in DOMAIN crossbars : crossbars'[y] = crossbars[y]
  /\ crossbars'[crossbar'] = [lanes |-> NewLanes(acopy[b]), running_ |-> FALSE]

LEMMA RenewEffect ==
  ASSUME Types, NEW b \in Admins, Renew(b)
  PROVE  Renewed(b)
  <1>1. acopy[b] \in Seq(RouteId) /\ Replace(acopy[b]) /\ HeapOK
    BY LocalTypes, HeapIsOK DEF Renew
  <1> QED
    BY <1>1, ReplaceEffect DEF Renew, Renewed

LEMMA RebuiltEffect ==
  ASSUME Types, NEW b \in Admins
  PROVE  /\ RebuildRunning(b) => Rebuilt(b, TRUE)
         /\ Relane(b) => /\ UNCHANGED <<pipelineVars, sinkVars, producerVars>> /\ apc[b] = "relane"
                         /\ \/ Rebuilt(b, FALSE)
                            \/ /\ StopBegins(b, TRUE, "rebuild") /\ UNCHANGED <<aop, acopy>>
                               /\ crossbars[crossbar].running_
  <1>1. acopy[b] \in Seq(RouteId) /\ HeapOK
    BY LocalTypes, HeapIsOK
  <1>2. ASSUME RebuildRunning(b) PROVE Rebuilt(b, TRUE)
    <2>1. Rebuild(crossbar, acopy[b], TRUE) /\ UNCHANGED crossbar
      BY <1>2 DEF RebuildRunning, pipelineVars
    <2> QED
      BY <1>1, <1>2, <2>1, RebuildEffect DEF RebuildRunning, Rebuilt
  <1>3. ASSUME Relane(b), Rebuild(crossbar, acopy[b], FALSE), Finish(b),
               ~crossbars[crossbar].running_
        PROVE  Rebuilt(b, FALSE)
    <2>1. UNCHANGED crossbar
      BY <1>3 DEF Relane, pipelineVars
    <2> QED
      BY <1>1, <1>3, <2>1, RebuildEffect DEF Relane, Rebuilt
  <1> QED
    BY <1>2, <1>3 DEF Relane

LEMMA CrossbarSteps ==
  ASSUME Types, [Next]_vars
  PROVE  \/ SameCrossbars
         \/ \E b \in Admins : Rebuilt(b, TRUE) \/ Rebuilt(b, FALSE) \/ Renewed(b)
  <1>0. HeapOK
    BY HeapIsOK
  <1>1. ASSUME UNCHANGED <<crossbars, crossbar>> PROVE SameCrossbars
    BY <1>1 DEF SameCrossbars, LanesOf
  <1>2. ASSUME NEW a \in Admins, Relane(a), StopBegins(a, TRUE, "rebuild") PROVE SameCrossbars
    BY <1>0, <1>2, StopEffect DEF Relane, pipelineVars
  <1>3. ASSUME NEW a \in Admins, StopLanes(a) PROVE SameCrossbars
    BY <1>0, <1>3, StopEffect DEF StopLanes
  <1>4. ASSUME NEW a \in Admins, start(a) PROVE SameCrossbars
    BY <1>0, <1>4, StartEffect
  <1>5. ASSUME NEW a \in Admins, Call(a), ~start(a) PROVE SameCrossbars
    <2>1. UNCHANGED <<crossbars, crossbar>>
      BY <1>5 DEF Call, add_route, clear_routes, flush, Stop, configure, heapVars, pipelineVars
    <2> QED
      BY <1>1, <2>1
  <1>6. ASSUME NEW a \in Admins,
               FlushAfterStop(a) \/ CopyRoutes(a) \/ LoadRunning(a) \/ CloseLane(a) \/ Join(a)
        PROVE  SameCrossbars
    <2>1. UNCHANGED <<crossbars, crossbar>>
      BY <1>6 DEF FlushAfterStop, CopyRoutes, LoadRunning, CloseLane, Join, heapVars, pipelineVars
    <2> QED
      BY <1>1, <2>1
  <1>7. ASSUME NEW p \in Producers, ProducerStep(p) \/ \E severity \in Severities : LogAt(p, severity)
        PROVE  SameCrossbars
    <2>1. UNCHANGED <<crossbars, crossbar>>
      BY <1>7 DEF ProducerStep, LoadMode, CopyPointer, LoadAccepting, Snapshot, Push, DispatchSync, WriteSync,
                  CopyFlushPointer, FlushFatal, Return, LogAt, heapVars, pipelineVars
    <2> QED
      BY <1>1, <2>1
  <1>8. CASE WorkerStep
    BY <1>1, <1>8 DEF WorkerStep, WorkerWrites, WorkerExits, pipelineVars
  <1>9. CASE UNCHANGED vars
    BY <1>1, <1>9 DEF vars, pipelineVars, heapVars
  <1>10. ASSUME NEW a \in Admins, AdminStep(a)
         PROVE  SameCrossbars \/ Rebuilt(a, TRUE) \/ Rebuilt(a, FALSE) \/ Renewed(a)
    BY <1>2, <1>3, <1>6, <1>10, RebuiltEffect, RenewEffect DEF AdminStep
  <1> QED
    BY <1>4, <1>5, <1>7, <1>8, <1>9, <1>10 DEF Next, Finished

LEMMA RoutesStay ==
  ASSUME Types, [Next]_vars, NEW x \in DOMAIN crossbars, LanesOf(x)' = LanesOf(x)
  PROVE  RoutesOf(x)' = RoutesOf(x)
  <1>1. \A k \in DOMAIN LanesOf(x) : LanesOf(x)[k] \in DOMAIN lanes
    BY HeapIsOK, HeapTypes, SeqIsFunction
  <1> QED
    BY <1>1, HeapStep DEF HeapGrows, RoutesOf

\* New lanes have the routes they were made for.
LEMMA NewRoutes ==
  ASSUME Types, NEW old, NEW rs \in Seq(RouteId), NEW w, Adds(old, rs, w), NEW x,
         crossbars'[x].lanes = NewLanes(rs)
  PROVE  /\ RoutesOf(x)' = rs
         /\ Lanes(x)' = {Len(lanes) + k : k \in DOMAIN rs}
         /\ \A l \in Lanes(x)' : /\ l \notin DOMAIN lanes /\ l \in DOMAIN lanes'
                                 /\ \E k \in DOMAIN rs : lanes'[l] = NewLane(rs[k], w)
  <1>1. DOMAIN rs = 1..Len(rs) /\ Len(rs) \in Nat /\ rs = [k \in DOMAIN rs |-> rs[k]]
    BY SeqIsFunction
  <1>2. LanesOf(x)' = [k \in DOMAIN rs |-> Len(lanes) + k]
    BY DEF LanesOf, NewLanes
  <1>3. \A k \in DOMAIN rs : lanes'[Len(lanes) + k].route = rs[k]
    <2>1. \A r : NewLane(r, w).route = r
      BY DEF NewLane
    <2> QED
      BY <2>1 DEF Adds
  <1>4. RoutesOf(x)' = [k \in DOMAIN rs |-> rs[k]]
    BY <1>2, <1>3 DEF RoutesOf
  <1>5. Lanes(x)' = {Len(lanes) + k : k \in DOMAIN rs}
    BY <1>2 DEF Lanes
  <1>6. DOMAIN lanes = 1..Len(lanes) /\ Len(lanes) \in Nat
    BY HeapIsOK, HeapTypes
  <1>7. \A k \in DOMAIN rs : Len(lanes) + k \notin DOMAIN lanes /\ Len(lanes) + k \in DOMAIN lanes'
    BY <1>1, <1>6 DEF Adds
  <1> QED
    BY <1>1, <1>4, <1>5, <1>7 DEF Adds

-----------------------------------------------------------------------------
(* Lanes and routes, when one thread a calls the lifecycle operations.     *)

\* Which operations can be where.
Phases(a) ==
  /\ apc[a] = "idle" <=> aop[a] = "none"
  /\ apc[a] \in {"relane", "rebuild"} => aop[a] = "route"
  /\ apc[a] \in {"stop", "flush"} => aop[a] \in {"close", "request_stop"}
  /\ apc[a] \in {"closing", "joining"} => aop[a] \in {"route", "close", "request_stop"}
  /\ apc[a] \in {"copy", "renew"} => aop[a] \in {"close", "request_stop", "configure"}
  /\ apc[a] = "loadRunning" => aop[a] = "configure"

LEMMA PhasesStep ==
  ASSUME NEW a, Admins = {a}, Types, Phases(a), [Next]_vars
  PROVE  Phases(a)'
  <1>0. apc \in [Admins -> APlace] /\ aop \in [Admins -> Operation]
    BY AdminIsOK DEF AdminOK
  <1>1. CASE UNCHANGED <<apc, aop>>
    BY <1>1 DEF Phases
  <1>2. CASE Finish(a)
    BY <1>0, <1>2 DEF Finish, AGoto, Phases
  <1>3. CASE add_route(a) \/ clear_routes(a) \/ \E mode \in BOOLEAN : configure(a, mode)
    BY <1>0, <1>3 DEF add_route, clear_routes, configure, Begin, AGoto, Phases
  <1>4. ASSUME NEW op \in {"close", "request_stop"}, Stop(a, op) PROVE Phases(a)'
    BY <1>0, <1>4 DEF Stop, Begin, AGoto, Phases
  <1>5. CASE /\ UNCHANGED aop
             /\ \/ apc[a] = "relane" /\ (AGoto(a, "rebuild") \/ AGoto(a, "closing"))
                \/ apc[a] = "stop" /\ (AGoto(a, "flush") \/ AGoto(a, "closing"))
                \/ apc[a] = "closing" /\ AGoto(a, "joining")
                \/ apc[a] = "joining" /\ AGoto(a, IF aop[a] = "route" THEN "rebuild" ELSE "flush")
                \/ apc[a] \in {"flush", "loadRunning"} /\ AGoto(a, "copy")
                \/ apc[a] = "copy" /\ AGoto(a, "renew")
    BY <1>0, <1>5 DEF AGoto, Phases
  <1>6. ASSUME Relane(a) \/ StopLanes(a) PROVE Phases(a)'
    BY <1>2, <1>5, <1>6 DEF Relane, StopLanes, StopBegins
  <1>7. ASSUME CloseLane(a) \/ Join(a) \/ FlushAfterStop(a) \/ CopyRoutes(a) PROVE Phases(a)'
    BY <1>1, <1>5, <1>7 DEF CloseLane, Join, FlushAfterStop, CopyRoutes
  <1>8. ASSUME RebuildRunning(a) \/ Renew(a) \/ LoadRunning(a) PROVE Phases(a)'
    BY <1>2, <1>5, <1>8 DEF RebuildRunning, Renew, LoadRunning
  <1>9. ASSUME start(a) \/ flush(a) PROVE Phases(a)'
    BY <1>1, <1>9 DEF start, flush
  <1>10. CASE UNCHANGED <<pipelineVars, adminVars>>
    BY <1>1, <1>10 DEF adminVars
  <1> QED
    BY <1>3, <1>4, <1>6, <1>7, <1>8, <1>9, <1>10, AdminUntouched DEF Next, Call, AdminStep, Finished

Matching(a) ==
  /\ aop[a] # "route" => RoutesOf(crossbar) = routes
  /\ aop[a] = "route" \/ apc[a] = "renew" => acopy[a] = routes

\* What matters for Matching: routes and copies.
LEMMA MatchingStep ==
  ASSUME NEW a, Admins = {a}, Types, Phases(a), Matching(a), [Next]_vars
  PROVE  Matching(a)'
  <1>0. /\ apc \in [Admins -> APlace] /\ aop \in [Admins -> Operation]
        /\ acopy \in [Admins -> Seq(RouteId)] /\ acopy[a] \in Seq(RouteId)
        /\ crossbar \in DOMAIN crossbars
    BY AdminIsOK, LocalTypes DEF AdminOK
  <1>1. ASSUME SameCrossbars PROVE RoutesOf(crossbar)' = RoutesOf(crossbar)
    BY <1>0, <1>1, RoutesStay DEF SameCrossbars, RoutesOf, LanesOf
  <1>2. ASSUME NEW b \in BOOLEAN, Rebuilt(a, b) PROVE Matching(a)'
    <2>1. RoutesOf(crossbar)' = acopy[a] /\ UNCHANGED routes
      <3>1. PICK x : x = crossbar /\ x = crossbar' /\ crossbars'[x].lanes = NewLanes(acopy[a])
        BY <1>2 DEF Rebuilt, pipelineVars, LanesOf
      <3>2. PICK w : Adds(lanes, acopy[a], w)
        BY <1>2 DEF Rebuilt
      <3>3. RoutesOf(x)' = acopy[a] /\ UNCHANGED routes
        BY <1>0, <1>2, <3>1, <3>2, NewRoutes DEF Rebuilt, pipelineVars
      <3> QED
        BY <3>1, <3>3 DEF RoutesOf, LanesOf
    <2>2. acopy[a] = routes /\ aop'[a] = "none" /\ apc'[a] = "idle"
      BY <1>0, <1>2 DEF Rebuilt, Finish, AGoto, Phases, Matching
    <2> QED
      BY <2>1, <2>2 DEF Matching
  <1>3. ASSUME Renewed(a) PROVE Matching(a)'
    <2>1. PICK old : Adds(old, acopy[a], "none")
      BY <1>3 DEF Renewed
    <2>2. PICK x : x = crossbar' /\ crossbars'[x].lanes = NewLanes(acopy[a])
      BY <1>3 DEF Renewed
    <2>3. RoutesOf(x)' = acopy[a] /\ UNCHANGED routes
      BY <1>0, <1>3, <2>1, <2>2, NewRoutes DEF Renewed
    <2>4. RoutesOf(crossbar)' = RoutesOf(x)'
      BY <2>2 DEF RoutesOf, LanesOf
    <2>5. acopy[a] = routes /\ aop'[a] = "none" /\ apc'[a] = "idle"
      BY <1>0, <1>3 DEF Renewed, Finish, AGoto, Matching
    <2> QED
      BY <2>3, <2>4, <2>5 DEF Matching
  <1>4. ASSUME SameCrossbars PROVE Matching(a)'
    <2>1. RoutesOf(crossbar)' = RoutesOf(crossbar)
      BY <1>1, <1>4
    <2>2. CASE UNCHANGED <<routes, aop, acopy>> /\ (apc'[a] = "renew" => apc[a] = "renew")
      BY <2>1, <2>2 DEF Matching
    <2>3. CASE UNCHANGED routes /\ Finish(a) /\ aop[a] # "route"
      BY <1>0, <2>1, <2>3 DEF Matching, Finish, AGoto
    <2>4. CASE add_route(a) \/ clear_routes(a)
      <3>1. aop'[a] = "route" /\ acopy'[a] = routes'
        BY <1>0, <2>4 DEF add_route, clear_routes, Begin
      <3> QED
        BY <3>1 DEF Matching
    <2>5. CASE CopyRoutes(a)
      <3>1. acopy'[a] = routes' /\ UNCHANGED <<routes, aop>> /\ apc[a] = "copy"
        BY <1>0, <2>5 DEF CopyRoutes, pipelineVars
      <3> QED
        BY <2>1, <3>1 DEF Matching, Phases
    <2>6. CASE start(a) \/ flush(a)
      BY <2>2, <2>6 DEF start, flush, pipelineVars
    <2>7. ASSUME NEW op \in {"close", "request_stop"}, Stop(a, op) PROVE Matching(a)'
      <3>1. /\ UNCHANGED <<routes, acopy>> /\ aop[a] = "none" /\ aop'[a] = op /\ apc'[a] = "stop"
        BY <1>0, <2>7 DEF Stop, Begin, Called, AGoto, Phases
      <3> QED
        BY <2>1, <3>1 DEF Matching
    <2>8. ASSUME NEW mode \in BOOLEAN, configure(a, mode) PROVE Matching(a)'
      <3>1. /\ UNCHANGED <<routes, acopy>> /\ aop[a] = "none" /\ aop'[a] = "configure"
            /\ apc'[a] = "loadRunning"
        BY <1>0, <2>8 DEF configure, Begin, Called, AGoto, Phases
      <3> QED
        BY <2>1, <3>1 DEF Matching
    <2>9. CASE StopBegins(a, TRUE, "rebuild") /\ UNCHANGED <<routes, aop, acopy>>
      BY <1>0, <2>2, <2>9 DEF StopBegins, AGoto
    <2>10. CASE StopLanes(a)
      BY <1>0, <2>2, <2>10 DEF StopLanes, StopBegins, AGoto
    <2>11. CASE CloseLane(a) \/ Join(a) \/ FlushAfterStop(a)
      BY <1>0, <2>2, <2>11 DEF CloseLane, Join, FlushAfterStop, AGoto, pipelineVars
    <2>12. CASE LoadRunning(a)
      BY <1>0, <2>2, <2>3, <2>12 DEF LoadRunning, AGoto, pipelineVars, Phases
    <2>13. CASE UNCHANGED <<pipelineVars, adminVars>>
      BY <2>2, <2>13 DEF pipelineVars, adminVars
    <2>14. CASE Relane(a)
      BY <1>2, <2>9, <2>14, RebuiltEffect DEF pipelineVars
    <2>15. CASE RebuildRunning(a) \/ Renew(a)
      BY <1>2, <1>3, <2>15, RebuiltEffect, RenewEffect
    <2> QED
      BY <2>4, <2>5, <2>6, <2>7, <2>8, <2>10, <2>11, <2>12, <2>13, <2>14, <2>15, AdminUntouched
         DEF Next, Call, AdminStep, Finished
  <1> QED
    BY <1>2, <1>3, <1>4, CrossbarSteps

LEMMA MatchingInvariant ==
  ASSUME NEW a, Admins = {a}
  PROVE  Spec => [](Phases(a) /\ Matching(a))
  <1>1. Init => Phases(a) /\ Matching(a)
    <2> SUFFICES ASSUME Init PROVE Phases(a) /\ Matching(a)
      OBVIOUS
    <2>1. aop[a] = "none" /\ apc[a] = "idle" /\ routes = <<>> /\ LanesOf(crossbar) = <<>>
      BY DEF Init, LanesOf
    <2>2. RoutesOf(crossbar) = <<>>
      BY <2>1, EmptySeq DEF RoutesOf
    <2> QED
      BY <2>1, <2>2 DEF Phases, Matching
  <1>2. Types /\ Phases(a) /\ Matching(a) /\ [Next]_vars => Phases(a)' /\ Matching(a)'
    BY PhasesStep, MatchingStep
  <1> QED
    BY <1>1, <1>2, TypesInvariant, PTL DEF Spec

\* Between operations the crossbar's lanes are the routes, in order, when one thread calls
\* the lifecycle operations: also after add_route on a running pipeline has rebuilt the lanes
\* from its copy of the routes (Pipeline::add_route, SinkCrossbar::configure).
THEOREM LanesFollowRoutes ==
  ASSUME NEW a, Admins = {a}
  PROVE  Spec => []LanesMatchRoutes
  <1>1. Phases(a) /\ Matching(a) => LanesMatchRoutes
    BY DEF Phases, Matching, LanesMatchRoutes, Quiet, RoutesOf
  <1> QED
    BY <1>1, MatchingInvariant, PTL

-----------------------------------------------------------------------------
(* Running and stopped lanes.                                              *)

SameFlags(l) ==
  /\ lanes'[l].worker = lanes[l].worker /\ lanes'[l].closed = lanes[l].closed
  /\ lanes'[l].drain = lanes[l].drain /\ lanes'[l].forced = lanes[l].forced

\* ~SinkCrossbar has run for the crossbar of lane l.
Dies(l) ==
  LaneIs(lanes'[l], l, <<>>, TRUE, IF lanes[l].worker = "run" THEN "exited" ELSE lanes[l].worker,
         FALSE, lanes[l].forced)

Exits(l) ==
  /\ lanes[l].worker = "run" /\ lanes[l].closed /\ (lanes[l].drain => lanes[l].queue = <<>>)
  /\ LaneIs(lanes'[l], l, lanes[l].queue, TRUE, "exited", lanes[l].drain, lanes[l].forced)

\* Steps of producers and workers.
Background ==
  \/ \E p \in Producers : ProducerStep(p) \/ \E severity \in Severities : LogAt(p, severity)
  \/ WorkerStep
  \/ UNCHANGED vars

\* What they do to lanes: a worker exits, or a producer drops the last pointer to a crossbar
\* that has been replaced.
LEMMA BackgroundEffect ==
  ASSUME Types, Background
  PROVE  /\ UNCHANGED <<pipelineVars, adminVars>> /\ UNCHANGED <<crossbars, crossbar>>
         /\ DOMAIN lanes' = DOMAIN lanes
         /\ \A l \in DOMAIN lanes :
              \/ SameFlags(l)
              \/ Exits(l)
              \/ \E x \in DOMAIN crossbars \ {crossbar} : l \in Lanes(x) /\ Dies(l)
  <1>0. HeapOK
    BY HeapIsOK
  <1>1. UNCHANGED <<pipelineVars, adminVars>> /\ UNCHANGED crossbar
    BY AdminUntouched DEF Background, pipelineVars
  <1>2. UNCHANGED crossbars
    BY DEF Background, ProducerStep, LoadMode, CopyPointer, LoadAccepting, Snapshot, Push, DispatchSync, WriteSync,
           CopyFlushPointer, FlushFatal, Return, LogAt, WorkerStep, WorkerWrites, WorkerExits, vars, heapVars
  <1> DEFINE Good == /\ DOMAIN lanes' = DOMAIN lanes
                     /\ \A l \in DOMAIN lanes :
                          \/ SameFlags(l)
                          \/ Exits(l)
                          \/ \E x \in DOMAIN crossbars \ {crossbar} : l \in Lanes(x) /\ Dies(l)
  <1>3. ASSUME UNCHANGED lanes PROVE Good
    BY <1>3 DEF SameFlags
  <1>4. ASSUME NEW p \in Producers, Push(p) PROVE Good
    <2>1. PICK l \in DOMAIN lanes :
            \/ /\ ~lanes[l].closed /\ InPlace({l})
               /\ LaneIs(lanes'[l], l, Append(lanes[l].queue, <<p, sent[p]>>), FALSE,
                         lanes[l].worker, lanes[l].drain, lanes[l].forced)
            \/ UNCHANGED lanes
      BY <1>0, <1>4, PushEffect
    <2>2. CASE UNCHANGED lanes
      BY <1>3, <2>2
    <2>3. CASE /\ ~lanes[l].closed /\ InPlace({l})
               /\ LaneIs(lanes'[l], l, Append(lanes[l].queue, <<p, sent[p]>>), FALSE,
                         lanes[l].worker, lanes[l].drain, lanes[l].forced)
      <3>1. lanes[l] \in LaneType /\ lanes'[l] \in LaneType
        BY <1>0, <2>3, HeapTypes DEF InPlace, HeapOK
      <3>2. SameFlags(l)
        BY <2>3, <3>1 DEF LaneIs, SameFlags, LaneType
      <3> QED
        BY <2>3, <3>2 DEF InPlace, SameFlags
    <2> QED
      BY <2>1, <2>2, <2>3
  <1>5. ASSUME NEW p \in Producers, Return(p) PROVE Good
    <2>1. CASE UNCHANGED lanes
      BY <1>3, <2>1
    <2>2. CASE /\ held[p] \in DOMAIN crossbars \ {crossbar} /\ InPlace(Lanes(held[p]))
               /\ \A l \in Lanes(held[p]) : Dies(l)
      BY <2>2 DEF InPlace, SameFlags
    <2> QED
      BY <1>0, <1>5, <2>1, <2>2, ReturnEffect DEF Dies
  <1>6. ASSUME NEW m \in DOMAIN lanes, WorkerWrites(m) PROVE Good
    <2>1. /\ InPlace({m}) /\ lanes[m].worker = "run"
          /\ LaneIs(lanes'[m], m, Tail(lanes[m].queue), lanes[m].closed, "run",
                    lanes[m].drain, lanes[m].forced)
      BY <1>0, <1>6, WriteEffect
    <2>2. lanes[m] \in LaneType /\ lanes'[m] \in LaneType
      BY <1>0, <2>1, HeapTypes DEF InPlace, HeapOK
    <2>3. SameFlags(m)
      BY <2>1, <2>2 DEF LaneIs, SameFlags, LaneType
    <2> QED
      BY <2>1, <2>3 DEF InPlace, SameFlags
  <1>7. ASSUME NEW m \in DOMAIN lanes, WorkerExits(m) PROVE Good
    <2>1. InPlace({m}) /\ Exits(m)
      BY <1>0, <1>7, ExitEffect DEF Exits
    <2> QED
      BY <2>1 DEF InPlace, SameFlags
  <1>8. ASSUME NEW p \in Producers,
               \/ LoadMode(p) \/ CopyPointer(p) \/ LoadAccepting(p) \/ Snapshot(p)
               \/ DispatchSync(p) \/ WriteSync(p) \/ CopyFlushPointer(p) \/ FlushFatal(p)
               \/ \E severity \in Severities : LogAt(p, severity)
        PROVE  UNCHANGED lanes
    BY <1>8 DEF LoadMode, CopyPointer, LoadAccepting, Snapshot, DispatchSync, WriteSync,
                CopyFlushPointer, FlushFatal, LogAt, heapVars
  <1>9. ASSUME UNCHANGED vars PROVE UNCHANGED lanes
    BY <1>9 DEF vars, heapVars
  <1>10. Good
    <2> HIDE DEF Good
    <2> QED
      BY <1>3, <1>4, <1>5, <1>6, <1>7, <1>8, <1>9 DEF Background, ProducerStep, WorkerStep
  <1> QED
    BY <1>1, <1>2, <1>10

\* No lane belongs to two crossbars.
Disjoint == \A x, y \in DOMAIN crossbars : x # y => Lanes(x) \cap Lanes(y) = {}

LEMMA LanesStay ==
  ASSUME NEW x, LanesOf(x)' = LanesOf(x)
  PROVE  Lanes(x)' = Lanes(x)
  BY DEF Lanes

LEMMA DisjointStep ==
  ASSUME Types, Disjoint, [Next]_vars
  PROVE  Disjoint'
  <1>0. HeapOK /\ \A x \in DOMAIN crossbars : Lanes(x) \subseteq DOMAIN lanes
    BY HeapIsOK, HeapTypes
  <1>1. CASE SameCrossbars
    <2>1. \A x \in DOMAIN crossbars : Lanes(x)' = Lanes(x)
      BY <1>1, LanesStay DEF SameCrossbars
    <2> QED
      BY <1>1, <2>1 DEF SameCrossbars, Disjoint
  <1>2. ASSUME NEW b \in Admins, NEW z, NEW old, NEW w, Adds(old, acopy[b], w),
               crossbars'[z].lanes = NewLanes(acopy[b]),
               DOMAIN crossbars' = DOMAIN crossbars \cup {z},
               \A y \in DOMAIN crossbars \ {z} : crossbars'[y] = crossbars[y]
        PROVE  Disjoint'
    <2>1. \A l \in Lanes(z)' : l \notin DOMAIN lanes
      BY <1>2, NewRoutes, LocalTypes
    <2>2. \A x \in DOMAIN crossbars \ {z} : Lanes(x)' = Lanes(x)
      BY <1>2 DEF Lanes, LanesOf
    <2> QED
      BY <1>0, <1>2, <2>1, <2>2 DEF Disjoint
  <1>3. ASSUME NEW b \in Admins, Rebuilt(b, TRUE) \/ Rebuilt(b, FALSE) PROVE Disjoint'
    <2>1. PICK z \in DOMAIN crossbars : z = crossbar /\ crossbar' = z
      BY <1>3, LocalTypes DEF Rebuilt, pipelineVars
    <2>2. PICK w : Adds(lanes, acopy[b], w)
      BY <1>3 DEF Rebuilt
    <2> QED
      BY <1>2, <1>3, <2>1, <2>2 DEF Rebuilt, LanesOf
  <1>4. ASSUME NEW b \in Admins, Renewed(b) PROVE Disjoint'
    <2>1. PICK z : z = crossbar'
      OBVIOUS
    <2>2. PICK old : Adds(old, acopy[b], "none")
      BY <1>4 DEF Renewed
    <2> QED
      BY <1>2, <1>4, <2>1, <2>2 DEF Renewed
  <1> QED
    BY <1>1, <1>3, <1>4, CrossbarSteps

Ready(l, w) ==
  ~lanes[l].closed /\ ~lanes[l].forced /\ lanes[l].drain /\ lanes[l].worker = w

\* What the flags say at each point of an operation.
Status(a) ==
  /\ apc[a] \in {"idle", "relane", "stop", "loadRunning"} =>
       /\ running <=> crossbars[crossbar].running_
       /\ \A l \in Lanes(crossbar) : Ready(l, IF running THEN "run" ELSE "none")
  /\ apc[a] \in {"closing", "joining", "rebuild", "flush", "copy", "renew"} =>
       /\ ~crossbars[crossbar].running_
       /\ running <=> aop[a] = "route"
  /\ running /\ apc[a] # "stop" => accepting
  /\ apc[a] \in {"rebuild", "flush", "copy", "renew"} =>
       \A l \in Lanes(crossbar) : lanes[l].worker # "run"
  /\ apc[a] \in {"closing", "joining"} /\ aop[a] = "request_stop" =>
       \A l \in Lanes(crossbar) : lanes[l].forced

\* Only the current crossbar has workers; a worker leaves events behind only after a forced
\* stop, and a lane whose worker has left takes no more events, or is to be thrown away.
WorkersOK ==
  \A l \in DOMAIN lanes :
    /\ lanes[l].worker = "run" => l \in Lanes(crossbar)
    /\ lanes[l].worker = "run" /\ ~lanes[l].drain => lanes[l].forced
    /\ lanes[l].worker = "exited" => lanes[l].closed \/ lanes[l].forced

Steady(a) == Phases(a) /\ Disjoint /\ Status(a) /\ WorkersOK

LEMMA CurrentStays ==
  ASSUME Types, SameCrossbars
  PROVE  Lanes(crossbar)' = Lanes(crossbar) /\ \A x \in DOMAIN crossbars : Lanes(x)' = Lanes(x)
  <1>1. \A x \in DOMAIN crossbars : Lanes(x)' = Lanes(x)
    BY LanesStay DEF SameCrossbars
  <1> QED
    BY <1>1, LocalTypes DEF SameCrossbars, Lanes, LanesOf

\* Producers and workers keep the flags of a crossbar that is not being stopped.
LEMMA SteadyBackground ==
  ASSUME NEW a, Admins = {a}, Types, Steady(a), Background
  PROVE  Status(a)' /\ WorkersOK'
  <1>1. /\ UNCHANGED <<pipelineVars, adminVars>> /\ UNCHANGED <<crossbars, crossbar>>
        /\ DOMAIN lanes' = DOMAIN lanes
    BY BackgroundEffect
  <1>2. Lanes(crossbar)' = Lanes(crossbar) /\ Lanes(crossbar) \subseteq DOMAIN lanes
    BY <1>1, HeapIsOK, HeapTypes, LocalTypes DEF Lanes, LanesOf
  <1>3. \A l \in Lanes(crossbar) : SameFlags(l) \/ Exits(l)
    BY <1>2, BackgroundEffect, LocalTypes DEF Steady, Disjoint
  <1>4. UNCHANGED <<apc, aop, running, accepting>>
    BY <1>1 DEF pipelineVars, adminVars
  <1>5. Status(a)'
    <2>1. ASSUME apc[a] \in {"idle", "relane", "stop", "loadRunning"}
          PROVE  \A l \in Lanes(crossbar) : Ready(l, IF running THEN "run" ELSE "none")'
      BY <1>3, <1>4, <2>1 DEF Steady, Status, Ready, SameFlags, Exits
    <2>2. ASSUME NEW l \in Lanes(crossbar), lanes[l].worker # "run"
          PROVE  lanes'[l].worker # "run"
      BY <1>3, <2>2 DEF SameFlags, Exits
    <2>3. ASSUME NEW l \in Lanes(crossbar), lanes[l].forced
          PROVE  lanes'[l].forced
      BY <1>3, <2>3 DEF SameFlags, Exits, LaneIs
    <2> QED
      BY <1>1, <1>2, <1>4, <2>1, <2>2, <2>3 DEF Steady, Status
  <1>6. WorkersOK'
    <2> SUFFICES ASSUME NEW l \in DOMAIN lanes
                 PROVE  /\ lanes'[l].worker = "run" => l \in Lanes(crossbar)
                        /\ lanes'[l].worker = "run" /\ ~lanes'[l].drain => lanes'[l].forced
                        /\ lanes'[l].worker = "exited" => lanes'[l].closed \/ lanes'[l].forced
      BY <1>1, <1>2 DEF WorkersOK
    <2>1. CASE SameFlags(l)
      BY <2>1 DEF SameFlags, Steady, WorkersOK
    <2>2. CASE Exits(l) \/ Dies(l)
      BY <2>2 DEF Exits, Dies, LaneIs
    <2> QED
      BY <2>1, <2>2, BackgroundEffect
  <1> QED
    BY <1>5, <1>6

\* Operations that leave the heap alone.
LEMMA SteadyHeapSame ==
  ASSUME NEW a, Admins = {a}, Types, Steady(a), UNCHANGED <<crossbars, lanes, crossbar>>
  PROVE  WorkersOK' /\ Lanes(crossbar)' = Lanes(crossbar)
  <1>1. Lanes(crossbar)' = Lanes(crossbar)
    BY DEF Lanes, LanesOf
  <1> QED
    BY <1>1 DEF Steady, WorkersOK

LEMMA SteadyCalls ==
  ASSUME NEW a, Admins = {a}, Types, Steady(a), Call(a)
  PROVE  Status(a)' /\ WorkersOK'
  <1>0. /\ apc \in [Admins -> APlace] /\ aop \in [Admins -> Operation] /\ HeapOK
        /\ crossbar \in DOMAIN crossbars
    BY AdminIsOK, HeapIsOK, LocalTypes DEF AdminOK
  <1>1. apc[a] = "idle"
    BY DEF Call, add_route, clear_routes, start, flush, Stop, configure, Begin, Called
  <1>2. /\ running <=> crossbars[crossbar].running_
        /\ \A l \in Lanes(crossbar) : Ready(l, IF running THEN "run" ELSE "none")
        /\ running => accepting
    BY <1>1 DEF Steady, Status
  <1>3. ASSUME UNCHANGED <<crossbars, lanes, crossbar, running>>,
               apc'[a] \in {"idle", "relane", "stop", "loadRunning"},
               accepting' = accepting \/ apc'[a] = "stop"
        PROVE  Status(a)' /\ WorkersOK'
    <2>1. WorkersOK' /\ Lanes(crossbar)' = Lanes(crossbar)
      BY <1>3, SteadyHeapSame
    <2>2. \A l \in Lanes(crossbar) : Ready(l, IF running THEN "run" ELSE "none")'
      BY <1>2, <1>3 DEF Ready
    <2> QED
      BY <1>2, <1>3, <2>1, <2>2 DEF Status
  <1>4. CASE add_route(a) \/ clear_routes(a) \/ flush(a)
    <2>1. UNCHANGED <<crossbars, lanes, crossbar, running, accepting>>
          /\ apc'[a] \in {"idle", "relane"}
      BY <1>0, <1>1, <1>4 DEF add_route, clear_routes, flush, Begin, AGoto, heapVars, pipelineVars
    <2> QED
      BY <1>3, <2>1
  <1>5. ASSUME NEW op \in {"close", "request_stop"}, Stop(a, op) PROVE Status(a)' /\ WorkersOK'
    <2>1. UNCHANGED <<crossbars, lanes, crossbar, running>> /\ apc'[a] = "stop"
      BY <1>0, <1>5 DEF Stop, Begin, AGoto, heapVars
    <2> QED
      BY <1>3, <2>1
  <1>6. ASSUME NEW mode \in BOOLEAN, configure(a, mode) PROVE Status(a)' /\ WorkersOK'
    <2>1. UNCHANGED <<crossbars, lanes, crossbar, running, accepting>> /\ apc'[a] = "loadRunning"
      BY <1>0, <1>6 DEF configure, Begin, AGoto, heapVars
    <2> QED
      BY <1>3, <2>1
  <1>7. CASE start(a)
    <2>1. SameCrossbars /\ Lanes(crossbar)' = Lanes(crossbar) /\ UNCHANGED <<apc, crossbar>>
          /\ running' /\ accepting'
      BY <1>0, <1>7, StartEffect, CurrentStays DEF start
    <2>2. CASE UNCHANGED heapVars /\ (running \/ crossbars[crossbar].running_)
      <3>1. UNCHANGED <<crossbars, lanes, crossbar>> /\ running
        BY <1>2, <2>1, <2>2 DEF heapVars
      <3>2. \A l \in Lanes(crossbar) : Ready(l, "run")'
        BY <1>2, <3>1 DEF Ready
      <3>3. Status(a)'
        BY <1>1, <1>2, <2>1, <3>1, <3>2 DEF Status
      <3> QED
        BY <3>1, <3>3, SteadyHeapSame
    <2>3. CASE /\ ~running /\ InPlace(Lanes(crossbar))
               /\ \A l \in Lanes(crossbar) :
                    LaneIs(lanes'[l], l, lanes[l].queue, lanes[l].closed, "run",
                           TRUE, lanes[l].forced)
               /\ crossbars'[crossbar].running_
      <3>1. \A l \in Lanes(crossbar) : Ready(l, "run")'
        BY <1>2, <2>3 DEF Ready, LaneIs
      <3>2. Status(a)'
        BY <1>1, <2>1, <2>3, <3>1 DEF Status
      <3>3. WorkersOK'
        BY <2>1, <2>3, <3>1 DEF WorkersOK, Steady, InPlace, Ready
      <3> QED
        BY <3>2, <3>3
    <2> QED
      BY <1>0, <1>7, <2>2, <2>3, StartEffect
  <1> QED
    BY <1>4, <1>5, <1>6, <1>7 DEF Call

\* stop_lanes_ begins.
LEMMA SteadyStops ==
  ASSUME NEW a, Admins = {a}, Types, Steady(a), Relane(a) \/ StopLanes(a)
  PROVE  Rebuilt(a, FALSE) \/ (Status(a)' /\ WorkersOK')
  <1>0. /\ apc \in [Admins -> APlace] /\ aop \in [Admins -> Operation] /\ HeapOK
        /\ crossbar \in DOMAIN crossbars
    BY AdminIsOK, HeapIsOK, LocalTypes DEF AdminOK
  <1>1. ASSUME NEW d \in BOOLEAN, NEW next \in {"rebuild", "flush"}, StopBegins(a, d, next),
               UNCHANGED <<crossbar, aop>>, aop[a] \in {"route", "close", "request_stop"},
               running' <=> aop[a] = "route", running' => accepting',
               next = "rebuild" => crossbars[crossbar].running_,
               aop[a] = "request_stop" => ~d
        PROVE  Status(a)' /\ WorkersOK'
    <2>1. SameCrossbars /\ Lanes(crossbar)' = Lanes(crossbar)
      BY <1>0, <1>1, StopEffect, CurrentStays
    <2>2. CASE /\ UNCHANGED heapVars /\ AGoto(a, next)
               /\ ~crossbars[crossbar].running_ /\ Lanes(crossbar) = {}
      <3>1. UNCHANGED <<crossbars, lanes, crossbar>> /\ apc'[a] = "flush"
        BY <1>0, <1>1, <2>2 DEF AGoto, heapVars
      <3> QED
        BY <1>1, <2>1, <2>2, <3>1, SteadyHeapSame DEF Status
    <2>3. CASE /\ InPlace(Lanes(crossbar))
               /\ \A l \in Lanes(crossbar) :
                    LaneIs(lanes'[l], l, lanes[l].queue, lanes[l].closed, lanes[l].worker,
                           d, lanes[l].forced \/ ~d)
               /\ AGoto(a, "closing")
               /\ ~crossbars'[crossbar].running_
      <3>1. apc'[a] = "closing"
        BY <1>0, <2>3 DEF AGoto
      <3>2. Status(a)'
        BY <1>1, <2>1, <2>3, <3>1 DEF Status, LaneIs
      <3>3. WorkersOK'
        BY <2>1, <2>3 DEF WorkersOK, Steady, InPlace, LaneIs
      <3> QED
        BY <3>2, <3>3
    <2> QED
      BY <1>0, <1>1, <2>2, <2>3, StopEffect
  <1>2. CASE Relane(a)
    <2>1. SUFFICES ASSUME StopBegins(a, TRUE, "rebuild"), UNCHANGED <<aop, acopy>>,
                          crossbars[crossbar].running_, apc[a] = "relane", UNCHANGED pipelineVars
                   PROVE  Status(a)' /\ WorkersOK'
      BY <1>2, RebuiltEffect
    <2>2. aop[a] = "route" /\ running /\ accepting
      BY <2>1 DEF Steady, Phases, Status
    <2>3. UNCHANGED <<running, accepting, crossbar>>
      BY <2>1 DEF pipelineVars
    <2> QED
      BY <1>1, <2>1, <2>2, <2>3
  <1>3. CASE StopLanes(a)
    <2>1. PICK d \in BOOLEAN : d <=> aop[a] = "close"
      OBVIOUS
    <2>2. /\ StopBegins(a, d, "flush") /\ ~running' /\ UNCHANGED <<crossbar, aop, accepting>>
          /\ aop[a] \in {"close", "request_stop"}
      BY <1>3, <2>1 DEF StopLanes, Steady, Phases
    <2> QED
      BY <1>1, <2>1, <2>2
  <1> QED
    BY <1>2, <1>3

LEMMA SteadyCloses ==
  ASSUME NEW a, Admins = {a}, Types, Steady(a), CloseLane(a)
  PROVE  Status(a)' /\ WorkersOK'
  <1>0. /\ apc \in [Admins -> APlace] /\ HeapOK /\ crossbar \in DOMAIN crossbars
        /\ ai[a] \in Nat \ {0}
    BY AdminIsOK, HeapIsOK, LocalTypes DEF AdminOK
  <1>1. apc[a] = "closing" /\ UNCHANGED <<running, accepting, crossbar, crossbars, aop>>
    BY DEF CloseLane, pipelineVars
  <1>2. SameCrossbars /\ Lanes(crossbar)' = Lanes(crossbar)
    BY <1>1, CurrentStays DEF SameCrossbars, LanesOf
  <1>3. apc'[a] \in {"closing", "joining"}
    BY <1>0, <1>1 DEF CloseLane, AGoto
  <1>4. CASE UNCHANGED heapVars
    <2>1. UNCHANGED <<crossbars, lanes, crossbar>>
      BY <1>1, <1>4 DEF heapVars
    <2> QED
      BY <1>1, <1>2, <1>3, <2>1, SteadyHeapSame DEF Status, Steady
  <1>5. ASSUME NEW l \in Lanes(crossbar), InPlace({l}),
               LaneIs(lanes'[l], l, lanes[l].queue, TRUE, lanes[l].worker, lanes[l].drain,
                      lanes[l].forced)
        PROVE  Status(a)' /\ WorkersOK'
    <2>1. \A k \in DOMAIN lanes :
            /\ lanes'[k].worker = lanes[k].worker /\ (lanes'[k].drain <=> lanes[k].drain)
            /\ (lanes'[k].forced <=> lanes[k].forced) /\ (lanes[k].closed => lanes'[k].closed)
      BY <1>5 DEF InPlace, LaneIs
    <2>2. Lanes(crossbar) \subseteq DOMAIN lanes /\ DOMAIN lanes' = DOMAIN lanes
      BY <1>0, <1>5, HeapTypes DEF InPlace
    <2>3. Status(a)'
      BY <1>1, <1>2, <1>3, <2>1, <2>2 DEF Status, Steady
    <2>4. WorkersOK'
      BY <1>2, <2>1, <2>2 DEF WorkersOK, Steady
    <2> QED
      BY <2>3, <2>4
  <1> QED
    BY <1>0, <1>4, <1>5, CloseEffect

LEMMA SteadyJoins ==
  ASSUME NEW a, Admins = {a}, Types, Steady(a), Join(a)
  PROVE  Status(a)' /\ WorkersOK'
  <1>0. /\ apc \in [Admins -> APlace] /\ HeapOK /\ crossbar \in DOMAIN crossbars
        /\ Lanes(crossbar) \subseteq DOMAIN lanes
    BY AdminIsOK, HeapIsOK, LocalTypes, HeapTypes DEF AdminOK
  <1>1. /\ apc[a] = "joining" /\ UNCHANGED <<running, accepting, crossbar, crossbars, aop>>
        /\ apc'[a] \in {"rebuild", "flush"}
    BY <1>0 DEF Join, AGoto, pipelineVars
  <1>2. /\ SameCrossbars /\ Lanes(crossbar)' = Lanes(crossbar)
        /\ \A l \in Lanes(crossbar) : lanes[l].worker # "run"
    BY <1>0, JoinEffect, CurrentStays
  <1>3. DOMAIN lanes' = DOMAIN lanes
    BY <1>0, JoinEffect DEF InPlace
  <1>4. \A l \in DOMAIN lanes :
          \/ lanes'[l] = lanes[l]
          \/ /\ l \in Lanes(crossbar) /\ lanes[l].forced /\ lanes'[l].forced
             /\ lanes'[l].worker = lanes[l].worker
    BY <1>0, <1>1, JoinEffect DEF InPlace, LaneIs, Steady, Status
  <1>5. Status(a)'
    BY <1>0, <1>1, <1>2, <1>4 DEF Status, Steady
  <1>6. WorkersOK'
    BY <1>2, <1>3, <1>4 DEF WorkersOK, Steady
  <1> QED
    BY <1>5, <1>6

\* The steps between the join and the new crossbar.
LEMMA SteadyBetween ==
  ASSUME NEW a, Admins = {a}, Types, Steady(a), FlushAfterStop(a) \/ CopyRoutes(a) \/ LoadRunning(a)
  PROVE  Status(a)' /\ WorkersOK'
  <1>0. apc \in [Admins -> APlace] /\ aop \in [Admins -> Operation]
    BY AdminIsOK DEF AdminOK
  <1>1. UNCHANGED <<crossbars, lanes, crossbar, running, accepting>>
    BY DEF FlushAfterStop, CopyRoutes, LoadRunning, pipelineVars, heapVars
  <1>2. WorkersOK' /\ Lanes(crossbar)' = Lanes(crossbar)
    BY <1>1, SteadyHeapSame
  <1>3. CASE FlushAfterStop(a) \/ CopyRoutes(a)
    <2>1. apc[a] \in {"flush", "copy"} /\ apc'[a] \in {"copy", "renew"} /\ aop'[a] = aop[a]
      BY <1>0, <1>3 DEF FlushAfterStop, CopyRoutes, AGoto
    <2> QED
      BY <1>1, <1>2, <2>1 DEF Status, Steady
  <1>4. CASE LoadRunning(a) /\ ~running
    <2>1. apc[a] = "loadRunning" /\ apc'[a] = "copy" /\ aop'[a] = "configure"
      BY <1>0, <1>4 DEF LoadRunning, AGoto, Steady, Phases
    <2>2. \A l \in Lanes(crossbar) : lanes[l].worker = "none"
      BY <1>4, <2>1 DEF Status, Steady, Ready
    <2> QED
      BY <1>1, <1>2, <1>4, <2>1, <2>2 DEF Status, Steady
  <1>5. CASE LoadRunning(a) /\ running
    <2>1. apc[a] = "loadRunning" /\ apc'[a] = "idle"
      BY <1>0, <1>5 DEF LoadRunning, AGoto, Finish
    <2>2. \A l \in Lanes(crossbar) : Ready(l, IF running THEN "run" ELSE "none")'
      BY <1>1, <2>1 DEF Status, Steady, Ready
    <2> QED
      BY <1>1, <1>2, <2>1, <2>2 DEF Status, Steady
  <1> QED
    BY <1>3, <1>4, <1>5

\* No worker is left when the lanes are replaced.
LEMMA NobodyRuns ==
  ASSUME NEW a, Steady(a),
         \/ apc[a] \in {"rebuild", "flush", "copy", "renew"}
         \/ apc[a] = "relane" /\ ~running
  PROVE  \A l \in DOMAIN lanes : lanes[l].worker # "run"
  BY DEF Steady, Status, WorkersOK, Ready

\* The crossbar gets new lanes while no lane has a worker.
LEMMA SteadyNewLanes ==
  ASSUME NEW a, Admins = {a}, Types, NEW rs \in Seq(RouteId), NEW w \in {"none", "run"}, NEW old,
         Adds(old, rs, w), NEW z, z = crossbar', crossbars'[z].lanes = NewLanes(rs),
         crossbars'[z].running_ <=> w = "run", running' <=> w = "run", running' => accepting',
         apc'[a] = "idle",
         \A l \in DOMAIN lanes : /\ old[l].worker # "run"
                                 /\ old[l].worker = "exited" => old[l].closed \/ old[l].forced
  PROVE  Status(a)' /\ WorkersOK'
  <1>1. /\ Lanes(z)' = {Len(lanes) + k : k \in DOMAIN rs}
        /\ \A l \in Lanes(z)' : \E k \in DOMAIN rs : lanes'[l] = NewLane(rs[k], w)
    BY NewRoutes
  <1>2. Lanes(crossbar)' = Lanes(z)'
    BY DEF Lanes, LanesOf
  <1>3. \A l \in Lanes(z)' : Ready(l, w)'
    <2>1. \A r : LET n == NewLane(r, w) IN ~n.closed /\ ~n.forced /\ n.drain /\ n.worker = w
      BY DEF NewLane
    <2> QED
      BY <1>1, <2>1 DEF Ready
  <1>4. \A l \in DOMAIN lanes' : l \in DOMAIN lanes \/ l \in Lanes(z)'
    <2>1. Len(rs) \in Nat /\ DOMAIN rs = 1..Len(rs)
      BY SeqIsFunction
    <2>2. Len(lanes) \in Nat /\ DOMAIN lanes = 1..Len(lanes)
      BY HeapIsOK, HeapTypes
    <2>3. ASSUME NEW l \in 1..(Len(lanes) + Len(rs)), l \notin DOMAIN lanes PROVE l \in Lanes(z)'
      <3>1. l - Len(lanes) \in DOMAIN rs /\ l = Len(lanes) + (l - Len(lanes))
        BY <2>1, <2>2, <2>3
      <3> QED
        BY <1>1, <3>1
    <2> QED
      BY <2>3 DEF Adds
  <1>5. Status(a)'
    BY <1>2, <1>3 DEF Status
  <1>6. WorkersOK'
    <2> SUFFICES ASSUME NEW l \in DOMAIN lanes'
                 PROVE  /\ lanes'[l].worker = "run" => l \in Lanes(z)'
                        /\ lanes'[l].worker = "run" /\ ~lanes'[l].drain => lanes'[l].forced
                        /\ lanes'[l].worker = "exited" => lanes'[l].closed \/ lanes'[l].forced
      BY <1>2 DEF WorkersOK
    <2>1. CASE l \in DOMAIN lanes
      BY <2>1 DEF Adds
    <2>2. CASE l \in Lanes(z)'
      BY <1>3, <2>2 DEF Ready
    <2> QED
      BY <1>4, <2>1, <2>2
  <1> QED
    BY <1>5, <1>6

LEMMA SteadyRebuilt ==
  ASSUME NEW a, Admins = {a}, Types, Steady(a), NEW b \in BOOLEAN, Rebuilt(a, b)
  PROVE  Status(a)' /\ WorkersOK'
  <1>0. apc \in [Admins -> APlace] /\ acopy[a] \in Seq(RouteId)
    BY AdminIsOK, LocalTypes DEF AdminOK
  <1>1. PICK z : z = crossbar /\ z = crossbar' /\ crossbars'[z].lanes = NewLanes(acopy[a])
    BY DEF Rebuilt, pipelineVars, LanesOf
  <1>2. PICK w \in {"none", "run"} : (w = "run" <=> b) /\ w = IF b THEN "run" ELSE "none"
    OBVIOUS
  <1>3. Adds(lanes, acopy[a], w) /\ (crossbars'[z].running_ <=> w = "run") /\ apc'[a] = "idle"
    BY <1>0, <1>1, <1>2 DEF Rebuilt, Finish, AGoto
  <1>4. /\ running <=> w = "run"
        /\ running => accepting
        /\ \A l \in DOMAIN lanes : lanes[l].worker # "run"
    <2>1. CASE b
      BY <1>2, <2>1, NobodyRuns DEF Rebuilt, Steady, Status, Phases
    <2>2. CASE ~b
      <3>1. apc[a] = "relane" /\ ~running
        BY <2>2 DEF Rebuilt, Steady, Status
      <3> QED
        BY <1>2, <2>2, <3>1, NobodyRuns
    <2> QED
      BY <2>1, <2>2
  <1>5. UNCHANGED <<running, accepting>>
    BY DEF Rebuilt, pipelineVars
  <1>6. \A l \in DOMAIN lanes : /\ lanes[l].worker # "run"
                                /\ lanes[l].worker = "exited" => lanes[l].closed \/ lanes[l].forced
    BY <1>4 DEF Steady, WorkersOK
  <1> QED
    BY <1>0, <1>1, <1>3, <1>4, <1>5, <1>6, SteadyNewLanes

\* Destroying the old crossbar stops no worker.
LEMMA OldLanes ==
  ASSUME NEW a, Admins = {a}, Types, Steady(a), apc[a] = "renew",
         NEW old \in {lanes, Destroyed(crossbar)}, NEW l \in DOMAIN lanes
  PROVE  /\ old[l].route = lanes[l].route /\ (old[l].forced <=> lanes[l].forced)
         /\ old[l].worker = lanes[l].worker /\ old[l].worker # "run"
         /\ lanes[l].closed => old[l].closed
         /\ l \notin Lanes(crossbar) => old[l] = lanes[l]
  <1>1. HeapOK /\ crossbar \in DOMAIN crossbars
    BY HeapIsOK, LocalTypes
  <1>2. lanes[l].worker # "run"
    BY NobodyRuns
  <1>3. CASE old = lanes
    BY <1>2, <1>3
  <1>4. CASE old = Destroyed(crossbar) /\ l \notin Lanes(crossbar)
    BY <1>1, <1>2, <1>4, DestroyedLanes
  <1>5. CASE old = Destroyed(crossbar) /\ l \in Lanes(crossbar)
    BY <1>1, <1>2, <1>5, DestroyedLanes DEF LaneIs
  <1> QED
    BY <1>3, <1>4, <1>5

LEMMA SteadyRenewed ==
  ASSUME NEW a, Admins = {a}, Types, Steady(a), Renewed(a)
  PROVE  Status(a)' /\ WorkersOK'
  <1>0. apc \in [Admins -> APlace] /\ acopy[a] \in Seq(RouteId)
    BY AdminIsOK, LocalTypes DEF AdminOK
  <1>1. PICK old \in {lanes, Destroyed(crossbar)} : Adds(old, acopy[a], "none")
    BY DEF Renewed
  <1>2. PICK z : z = crossbar' /\ crossbars'[z].lanes = NewLanes(acopy[a]) /\ ~crossbars'[z].running_
    BY DEF Renewed
  <1>3. apc[a] = "renew" /\ apc'[a] = "idle" /\ ~running /\ running' = running
    BY <1>0 DEF Renewed, Finish, AGoto, Steady, Status, Phases
  <1>4. ASSUME NEW l \in DOMAIN lanes
        PROVE  old[l].worker # "run" /\ (old[l].worker = "exited" => old[l].closed \/ old[l].forced)
    BY <1>3, OldLanes DEF Steady, WorkersOK
  <1> QED
    BY <1>0, <1>1, <1>2, <1>3, <1>4, SteadyNewLanes

LEMMA SteadyStep ==
  ASSUME NEW a, Admins = {a}, Types, Steady(a), [Next]_vars
  PROVE  Steady(a)'
  <1>1. Phases(a)' /\ Disjoint'
    BY PhasesStep, DisjointStep DEF Steady
  <1>2. CASE Background
    BY <1>1, <1>2, SteadyBackground DEF Steady
  <1>3. CASE Call(a)
    BY <1>1, <1>3, SteadyCalls DEF Steady
  <1>4. CASE Relane(a) \/ StopLanes(a)
    BY <1>1, <1>4, SteadyStops, SteadyRebuilt DEF Steady
  <1>5. CASE CloseLane(a) \/ Join(a) \/ FlushAfterStop(a) \/ CopyRoutes(a) \/ LoadRunning(a)
    BY <1>1, <1>5, SteadyCloses, SteadyJoins, SteadyBetween DEF Steady
  <1>6. CASE RebuildRunning(a) \/ Renew(a)
    BY <1>1, <1>6, RebuiltEffect, RenewEffect, SteadyRebuilt, SteadyRenewed DEF Steady
  <1> QED
    BY <1>2, <1>3, <1>4, <1>5, <1>6 DEF Next, AdminStep, Finished, Background

LEMMA SteadyInvariant ==
  ASSUME NEW a, Admins = {a}
  PROVE  Spec => []Steady(a)
  <1>1. Init => Steady(a)
    <2> SUFFICES ASSUME Init PROVE Steady(a)
      OBVIOUS
    <2>1. /\ aop[a] = "none" /\ apc[a] = "idle" /\ ~running /\ LanesOf(crossbar) = <<>>
          /\ ~crossbars[crossbar].running_ /\ lanes = <<>> /\ Len(crossbars) = 1 /\ DOMAIN crossbars = {1}
      BY DEF Init, LanesOf
    <2>2. Lanes(crossbar) = {} /\ DOMAIN lanes = {}
      BY <2>1, EmptySeq DEF Lanes
    <2> QED
      BY <2>1, <2>2 DEF Steady, Phases, Disjoint, Status, WorkersOK
  <1>2. Types /\ Steady(a) /\ [Next]_vars => Steady(a)'
    BY SteadyStep
  <1> QED
    BY <1>1, <1>2, TypesInvariant, PTL DEF Spec

\* Between operations is_running() tells the truth when one thread calls the lifecycle
\* operations: the crossbar is running exactly if the pipeline is, and then every lane has a
\* worker and an open queue and events are accepted, whatever start(), close(),
\* request_stop(), configure() and changes of the routes came before.
THEOREM RunningIsTrue ==
  ASSUME NEW a, Admins = {a}
  PROVE  Spec => []RunningAgrees
  <1>1. Steady(a) => RunningAgrees
    <2> SUFFICES ASSUME Steady(a), apc[a] = "idle"
                 PROVE  /\ running <=> crossbars[crossbar].running_
                        /\ running => accepting
                        /\ running => \A i \in DOMAIN LanesOf(crossbar) :
                             LET l == lanes[LanesOf(crossbar)[i]] IN l.worker = "run" /\ ~l.closed
      BY DEF RunningAgrees, Quiet
    <2> QED
      BY DEF Steady, Status, Ready, Lanes
  <1> QED
    BY <1>1, SteadyInvariant, PTL

-----------------------------------------------------------------------------
(* No accepted event is lost.                                              *)

Written(e, l) == \E k \in DOMAIN out[lanes[l].route] : out[lanes[l].route][k].event = e
InQueue(e, l) == \E k \in DOMAIN lanes[l].queue : lanes[l].queue[k] = e

\* Where an event that lane l accepted is: written, or still queued, unless the lane was
\* forced to stop or was thrown away before it was ever started.
Kept(e, l) ==
  \/ lanes[l].forced
  \/ Written(e, l)
  \/ lanes[l].worker = "none" /\ l \notin Lanes(crossbar)
  \/ lanes[l].worker # "exited" /\ InQueue(e, l)

Safe == \A x \in accepted : Kept(x[1], x[2])

LEMMA WrittenStays ==
  ASSUME Types, [Next]_vars, NEW e, NEW l \in DOMAIN lanes, Written(e, l)
  PROVE  Written(e, l)'
  <1>1. lanes'[l].route = lanes[l].route /\ lanes[l].route \in RouteId
    BY HeapStep, HeapIsOK, HeapTypes DEF HeapGrows, LaneType
  <1>2. PICK k \in DOMAIN out[lanes[l].route] : out[lanes[l].route][k].event = e
    BY DEF Written
  <1>3. k \in DOMAIN out'[lanes[l].route] /\ out'[lanes[l].route][k].event = e
    BY <1>1, <1>2, SinksStep DEF SinksGrow
  <1> QED
    BY <1>1, <1>3 DEF Written

\* A lane whose queue and worker a step leaves alone.
LEMMA KeptStays ==
  ASSUME Types, [Next]_vars, NEW e, NEW l \in DOMAIN lanes, Kept(e, l),
         lanes'[l].queue = lanes[l].queue, lanes'[l].worker = lanes[l].worker,
         l \in Lanes(crossbar)' => l \in Lanes(crossbar)
  PROVE  Kept(e, l)'
  <1>1. lanes[l].forced => lanes'[l].forced
    BY HeapStep DEF HeapGrows
  <1>2. Written(e, l) => Written(e, l)'
    BY WrittenStays
  <1>3. InQueue(e, l) => InQueue(e, l)'
    BY DEF InQueue
  <1> QED
    BY <1>1, <1>2, <1>3 DEF Kept

LEMMA PushKeeps ==
  ASSUME NEW a, Admins = {a}, Types, Steady(a), [Next]_vars,
         NEW p \in Producers, Push(p), NEW e, NEW l \in DOMAIN lanes,
         Kept(e, l) \/ <<e, l>> \in accepted' \ accepted
  PROVE  Kept(e, l)'
  <1>0. HeapOK /\ UNCHANGED crossbar
    BY HeapIsOK DEF Push, pipelineVars
  <1>1. PICK m \in DOMAIN lanes :
          /\ SameCrossbars /\ <<p, sent[p]>> \in Event
          /\ \/ /\ ~lanes[m].closed /\ InPlace({m})
                /\ LaneIs(lanes'[m], m, Append(lanes[m].queue, <<p, sent[p]>>), FALSE,
                          lanes[m].worker, lanes[m].drain, lanes[m].forced)
                /\ accepted' = accepted \cup {<<<<p, sent[p]>>, m>>}
             \/ UNCHANGED <<lanes, accepted>>
    BY <1>0, PushEffect
  <1>2. Lanes(crossbar)' = Lanes(crossbar)
    BY <1>1, CurrentStays
  <1>3. CASE UNCHANGED <<lanes, accepted>>
    BY <1>2, <1>3, KeptStays
  <1>4. ASSUME ~lanes[m].closed, InPlace({m}),
               LaneIs(lanes'[m], m, Append(lanes[m].queue, <<p, sent[p]>>), FALSE,
                      lanes[m].worker, lanes[m].drain, lanes[m].forced),
               accepted' = accepted \cup {<<<<p, sent[p]>>, m>>}
        PROVE  Kept(e, l)'
    <2>1. CASE l # m
      <3>1. lanes'[l] = lanes[l] /\ Kept(e, l)
        BY <1>4, <2>1 DEF InPlace
      <3> QED
        BY <1>2, <3>1, KeptStays
    <2>2. CASE l = m
      <3>1. /\ lanes'[l].queue = Append(lanes[l].queue, <<p, sent[p]>>)
            /\ lanes'[l].worker = lanes[l].worker /\ (lanes'[l].forced <=> lanes[l].forced)
        BY <1>4, <2>2 DEF LaneIs
      <3>2. lanes[l].queue \in Seq(Event)
        BY <1>0, HeapTypes DEF LaneType
      <3>3. /\ DOMAIN lanes'[l].queue = 1..(Len(lanes[l].queue) + 1)
            /\ DOMAIN lanes[l].queue = 1..Len(lanes[l].queue) /\ Len(lanes[l].queue) \in Nat
            /\ \A k \in DOMAIN lanes[l].queue : lanes'[l].queue[k] = lanes[l].queue[k]
            /\ lanes'[l].queue[Len(lanes[l].queue) + 1] = <<p, sent[p]>>
        BY <1>1, <3>1, <3>2, AppendElements, SeqIsFunction
      <3>4. InQueue(e, l) => InQueue(e, l)'
        BY <3>3 DEF InQueue
      <3>5. CASE Kept(e, l)
        BY <1>2, <3>1, <3>4, <3>5, WrittenStays DEF Kept
      <3>6. CASE <<e, l>> \in accepted' \ accepted
        <4>1. e = <<p, sent[p]>>
          BY <1>4, <3>6
        <4>2. InQueue(e, l)'
          BY <3>3, <4>1 DEF InQueue
        <4>3. lanes[l].worker = "exited" => lanes[l].forced
          BY <1>4, <2>2 DEF Steady, WorkersOK
        <4> QED
          BY <3>1, <4>2, <4>3 DEF Kept
      <3> QED
        BY <3>5, <3>6
    <2> QED
      BY <2>1, <2>2
  <1> QED
    BY <1>1, <1>3, <1>4

LEMMA WorkerKeeps ==
  ASSUME NEW a, Admins = {a}, Types, Steady(a), [Next]_vars,
         NEW m \in DOMAIN lanes, WorkerWrites(m) \/ WorkerExits(m),
         NEW e, NEW l \in DOMAIN lanes, Kept(e, l)
  PROVE  Kept(e, l)'
  <1>0. HeapOK
    BY HeapIsOK
  <1>1. SameCrossbars /\ InPlace({m})
    BY <1>0, WriteEffect, ExitEffect
  <1>2. Lanes(crossbar)' = Lanes(crossbar)
    BY <1>1, CurrentStays
  <1>3. CASE l # m
    <2>1. lanes'[l] = lanes[l]
      BY <1>1, <1>3 DEF InPlace
    <2> QED
      BY <1>2, <2>1, KeptStays
  <1>4. CASE l = m /\ WorkerWrites(m)
    <2>1. /\ lanes'[l].queue = Tail(lanes[l].queue) /\ lanes'[l].worker = "run" /\ lanes[l].worker = "run"
          /\ (lanes'[l].forced <=> lanes[l].forced) /\ lanes'[l].route = lanes[l].route
          /\ lanes[l].queue \in Seq(Event) /\ lanes[l].queue # <<>> /\ lanes[l].route \in RouteId
      BY <1>0, <1>4, WriteEffect DEF LaneIs
    <2>2. ASSUME InQueue(e, l) PROVE InQueue(e, l)' \/ Written(e, l)'
      <3>1. PICK k \in DOMAIN lanes[l].queue : lanes[l].queue[k] = e
        BY <2>2 DEF InQueue
      <3>2. /\ DOMAIN lanes[l].queue = 1..Len(lanes[l].queue) /\ Len(lanes[l].queue) \in Nat \ {0}
            /\ Head(lanes[l].queue) = lanes[l].queue[1]
            /\ DOMAIN lanes'[l].queue = 1..(Len(lanes[l].queue) - 1)
            /\ \A i \in 1..(Len(lanes[l].queue) - 1) : lanes'[l].queue[i] = lanes[l].queue[i + 1]
        BY <2>1, HeadAndTail, SeqIsFunction
      <3>3. CASE k # 1
        <4>1. k - 1 \in 1..(Len(lanes[l].queue) - 1) /\ (k - 1) + 1 = k
          BY <3>1, <3>2, <3>3
        <4>2. lanes'[l].queue[k - 1] = e
          BY <3>1, <3>2, <4>1
        <4> QED
          BY <3>2, <4>1, <4>2 DEF InQueue
      <3>4. CASE k = 1
        <4>1. /\ out[lanes[l].route] \in Seq(Entry) /\ [event |-> e, lane |-> l] \in Entry
              /\ out'[lanes[l].route] = Append(out[lanes[l].route], [event |-> e, lane |-> l])
          BY SMTT(20), <1>4, <2>1, <3>1, <3>2, <3>4, WrittenEffect, SinksAreOK
        <4>2. /\ Len(out[lanes[l].route]) + 1 \in DOMAIN out'[lanes[l].route]
              /\ out'[lanes[l].route][Len(out[lanes[l].route]) + 1] = [event |-> e, lane |-> l]
          BY <4>1, AppendElements
        <4>3. out'[lanes[l].route][Len(out[lanes[l].route]) + 1].event = e
          BY <4>2
        <4> QED
          BY <2>1, <4>2, <4>3 DEF Written
      <3> QED
        BY <3>3, <3>4
    <2> QED
      BY <1>2, <2>1, <2>2, WrittenStays DEF Kept
  <1>5. CASE l = m /\ WorkerExits(m)
    <2>1. /\ lanes'[l].queue = lanes[l].queue /\ lanes[l].worker = "run"
          /\ (lanes'[l].forced <=> lanes[l].forced) /\ (lanes[l].drain => lanes[l].queue = <<>>)
      BY <1>0, <1>5, ExitEffect DEF LaneIs
    <2>2. ASSUME InQueue(e, l) PROVE lanes[l].forced
      <3>1. lanes[l].queue # <<>>
        BY <2>2, EmptySeq DEF InQueue
      <3> QED
        BY <2>1, <3>1 DEF Steady, WorkersOK
    <2> QED
      BY <2>1, <2>2, WrittenStays DEF Kept
  <1> QED
    BY <1>3, <1>4, <1>5

LEMMA ReturnKeeps ==
  ASSUME NEW a, Admins = {a}, Types, Steady(a), [Next]_vars,
         NEW p \in Producers, Return(p), NEW e, NEW l \in DOMAIN lanes, Kept(e, l)
  PROVE  Kept(e, l)'
  <1>0. HeapOK /\ crossbar \in DOMAIN crossbars
    BY HeapIsOK, LocalTypes
  <1>1. SameCrossbars /\ Lanes(crossbar)' = Lanes(crossbar)
    BY <1>0, ReturnEffect, CurrentStays
  <1>2. CASE lanes'[l] = lanes[l]
    BY <1>1, <1>2, KeptStays
  <1>3. CASE /\ held[p] \in DOMAIN crossbars \ {crossbar} /\ l \in Lanes(held[p])
             /\ LaneIs(lanes'[l], l, <<>>, TRUE,
                       IF lanes[l].worker = "run" THEN "exited" ELSE lanes[l].worker,
                       FALSE, lanes[l].forced)
    <2>1. l \notin Lanes(crossbar)
      BY <1>0, <1>3 DEF Steady, Disjoint
    <2>2. lanes[l].worker # "run"
      BY <2>1 DEF Steady, WorkersOK
    <2>3. lanes'[l].worker = lanes[l].worker /\ (lanes'[l].forced <=> lanes[l].forced)
      BY <1>3, <2>2 DEF LaneIs
    <2>4. lanes[l].worker \in {"none", "exited"}
      BY <1>0, <2>2, HeapTypes DEF LaneType
    <2> QED
      BY <1>1, <2>1, <2>3, <2>4, WrittenStays DEF Kept
  <1> QED
    BY <1>0, <1>2, <1>3, ReturnEffect DEF InPlace

\* New lanes: an event in the lanes that they replace has been written or discarded, or its
\* lane was never started.
LEMMA NewLanesKeep ==
  ASSUME NEW a, Admins = {a}, Types, Steady(a), [Next]_vars,
         Rebuilt(a, TRUE) \/ Rebuilt(a, FALSE) \/ Renewed(a), NEW e, NEW l \in DOMAIN lanes, Kept(e, l)
  PROVE  Kept(e, l)'
  <1>0. acopy[a] \in Seq(RouteId) /\ lanes[l] \in LaneType
    BY LocalTypes, HeapIsOK, HeapTypes
  <1>1. ASSUME NEW old, NEW w, Adds(old, acopy[a], w), NEW z, z = crossbar',
               crossbars'[z].lanes = NewLanes(acopy[a])
        PROVE  lanes'[l] = old[l] /\ l \notin Lanes(crossbar)'
    <2>1. l \notin Lanes(z)'
      BY <1>0, <1>1, NewRoutes
    <2> QED
      BY <1>1, <2>1 DEF Adds, Lanes, LanesOf
  <1>2. CASE Rebuilt(a, TRUE) \/ Rebuilt(a, FALSE)
    <2>1. PICK z : z = crossbar' /\ crossbars'[z].lanes = NewLanes(acopy[a])
      BY <1>2 DEF Rebuilt, pipelineVars, LanesOf
    <2>2. PICK w : Adds(lanes, acopy[a], w)
      BY <1>2 DEF Rebuilt
    <2>3. lanes'[l] = lanes[l] /\ l \notin Lanes(crossbar)'
      BY <1>1, <2>1, <2>2
    <2> QED
      BY <2>3, KeptStays
  <1>3. CASE Renewed(a)
    <2>1. PICK z : z = crossbar' /\ crossbars'[z].lanes = NewLanes(acopy[a])
      BY <1>3 DEF Renewed
    <2>2. PICK old \in {lanes, Destroyed(crossbar)} : Adds(old, acopy[a], "none")
      BY <1>3 DEF Renewed
    <2>3. lanes'[l] = old[l] /\ l \notin Lanes(crossbar)'
      BY <1>1, <2>1, <2>2
    <2>4. /\ (old[l].forced <=> lanes[l].forced) /\ old[l].worker = lanes[l].worker
          /\ old[l].worker # "run"
      BY <1>3, OldLanes DEF Renewed
    <2>5. lanes[l].worker \in {"none", "exited"}
      BY <1>0, <2>4 DEF LaneType
    <2> QED
      BY <2>3, <2>4, <2>5, WrittenStays DEF Kept
  <1> QED
    BY <1>2, <1>3

LEMMA OperationKeeps ==
  ASSUME NEW a, Admins = {a}, Types, Steady(a), [Next]_vars, Call(a) \/ AdminStep(a),
         NEW e, NEW l \in DOMAIN lanes, Kept(e, l)
  PROVE  Kept(e, l)'
  <1>0. HeapOK /\ (SameCrossbars => Lanes(crossbar)' = Lanes(crossbar))
    BY HeapIsOK, CurrentStays
  <1>1. ASSUME SameCrossbars, lanes'[l].queue = lanes[l].queue, lanes'[l].worker = lanes[l].worker
        PROVE  Kept(e, l)'
    BY <1>0, <1>1, KeptStays
  <1>2. ASSUME UNCHANGED <<crossbars, lanes, crossbar>> PROVE Kept(e, l)'
    BY <1>1, <1>2 DEF SameCrossbars, LanesOf
  <1>3. CASE start(a)
    <2>0. SameCrossbars
      BY <1>0, <1>3, StartEffect
    <2>1. CASE UNCHANGED heapVars
      BY <1>1, <2>0, <2>1 DEF heapVars
    <2>2. CASE /\ InPlace(Lanes(crossbar)) /\ l \in Lanes(crossbar)
               /\ LaneIs(lanes'[l], l, lanes[l].queue, lanes[l].closed, "run", TRUE, lanes[l].forced)
      <3>1. lanes'[l].queue = lanes[l].queue /\ lanes'[l].worker = "run"
            /\ (lanes'[l].forced <=> lanes[l].forced)
        BY <2>2 DEF LaneIs
      <3>2. InQueue(e, l) => InQueue(e, l)'
        BY <3>1 DEF InQueue
      <3> QED
        BY <2>2, <3>1, <3>2, WrittenStays DEF Kept
    <2>3. CASE InPlace(Lanes(crossbar)) /\ l \notin Lanes(crossbar)
      BY <1>1, <2>0, <2>3 DEF InPlace
    <2> QED
      BY <1>0, <1>3, <2>1, <2>2, <2>3, StartEffect
  <1>4. ASSUME NEW d \in BOOLEAN, NEW next, StopBegins(a, d, next), UNCHANGED crossbar
        PROVE  Kept(e, l)'
    <2>1. /\ SameCrossbars
          /\ \/ UNCHANGED heapVars
             \/ /\ InPlace(Lanes(crossbar))
                /\ \A m \in Lanes(crossbar) :
                     LaneIs(lanes'[m], m, lanes[m].queue, lanes[m].closed, lanes[m].worker,
                            d, lanes[m].forced \/ ~d)
      BY <1>0, <1>4, StopEffect
    <2> QED
      BY <1>1, <2>1 DEF InPlace, LaneIs, heapVars
  <1>5. CASE CloseLane(a)
    <2>1. /\ SameCrossbars
          /\ \/ UNCHANGED heapVars
             \/ \E m \in Lanes(crossbar) :
                  /\ InPlace({m})
                  /\ LaneIs(lanes'[m], m, lanes[m].queue, TRUE, lanes[m].worker, lanes[m].drain,
                            lanes[m].forced)
      BY <1>0, <1>5, CloseEffect, LocalTypes DEF CloseLane, SameCrossbars, LanesOf, pipelineVars
    <2> QED
      BY <1>1, <2>1 DEF InPlace, LaneIs, heapVars
  <1>6. CASE Join(a)
    <2>1. CASE lanes'[l] = lanes[l]
      BY <1>0, <1>1, <1>6, <2>1, JoinEffect
    <2>2. CASE aop[a] = "request_stop" /\ l \in Lanes(crossbar)
      <3>1. lanes[l].forced
        BY <1>6, <2>2 DEF Join, Steady, Status
      <3> QED
        BY <3>1, HeapStep DEF HeapGrows, Kept
    <2> QED
      BY <1>0, <1>6, <2>1, <2>2, JoinEffect DEF InPlace
  <1>7. CASE Relane(a)
    BY <1>4, <1>7, RebuiltEffect, NewLanesKeep DEF pipelineVars
  <1>8. CASE StopLanes(a)
    <2>1. PICK d \in BOOLEAN : d <=> aop[a] = "close"
      OBVIOUS
    <2> QED
      BY <1>4, <1>8, <2>1 DEF StopLanes
  <1>9. CASE RebuildRunning(a) \/ Renew(a)
    BY <1>9, RebuiltEffect, RenewEffect, NewLanesKeep
  <1>10. ASSUME FlushAfterStop(a) \/ CopyRoutes(a) \/ LoadRunning(a)
         PROVE  UNCHANGED <<crossbars, lanes, crossbar>>
    BY <1>10 DEF FlushAfterStop, CopyRoutes, LoadRunning, heapVars, pipelineVars
  <1>11. ASSUME Call(a), ~start(a) PROVE UNCHANGED <<crossbars, lanes, crossbar>>
    BY <1>11 DEF Call, add_route, clear_routes, flush, Stop, configure, heapVars, pipelineVars
  <1> QED
    BY <1>2, <1>3, <1>5, <1>6, <1>7, <1>8, <1>9, <1>10, <1>11 DEF AdminStep

LEMMA SafeStep ==
  ASSUME NEW a, Admins = {a}, Types, Steady(a), Safe, [Next]_vars
  PROVE  Safe'
  <1>0. accepted \subseteq Event \X DOMAIN lanes
    BY ProducersAreOK DEF ProducersOK
  <1>1. ASSUME UNCHANGED accepted,
               \A e : \A l \in DOMAIN lanes : Kept(e, l) => Kept(e, l)'
        PROVE  Safe'
    BY <1>0, <1>1 DEF Safe
  <1>2. CASE Call(a) \/ AdminStep(a)
    <2>1. UNCHANGED accepted
      BY <1>2, ProducersUntouched
    <2> QED
      BY <1>1, <1>2, <2>1, OperationKeeps
  <1>3. ASSUME NEW p \in Producers, Push(p) PROVE Safe'
    <2> SUFFICES ASSUME NEW x \in accepted' PROVE Kept(x[1], x[2])'
      BY DEF Safe
    <2>1. CASE x \in accepted
      BY <1>0, <1>3, <2>1, PushKeeps DEF Safe
    <2>2. CASE x \notin accepted
      <3>1. PICK l \in DOMAIN lanes : accepted' \subseteq accepted \cup {<<<<p, sent[p]>>, l>>}
        BY <1>3, PushEffect, HeapIsOK
      <3>2. x = <<<<p, sent[p]>>, l>> /\ x[1] = <<p, sent[p]>> /\ x[2] = l
        BY <2>2, <3>1
      <3>3. <<x[1], x[2]>> \in accepted' \ accepted
        BY <2>2, <3>2
      <3> QED
        BY <1>3, <3>1, <3>2, <3>3, PushKeeps
    <2> QED
      BY <2>1, <2>2
  <1>4. ASSUME NEW p \in Producers, Return(p) PROVE Safe'
    <2>1. UNCHANGED accepted
      BY <1>4 DEF Return
    <2> QED
      BY <1>1, <1>4, <2>1, ReturnKeeps
  <1>5. CASE WorkerStep
    <2>1. UNCHANGED accepted
      BY <1>5, ProducersUntouched
    <2> QED
      BY <1>1, <1>5, <2>1, WorkerKeeps DEF WorkerStep
  <1>6. ASSUME UNCHANGED <<crossbars, lanes, crossbar, accepted>> PROVE Safe'
    <2>1. Lanes(crossbar)' = Lanes(crossbar)
      BY <1>6 DEF Lanes, LanesOf
    <2> QED
      BY <1>1, <1>6, <2>1, KeptStays
  <1>7. ASSUME NEW p \in Producers, ~Push(p), ~Return(p),
               ProducerStep(p) \/ \E severity \in Severities : LogAt(p, severity)
        PROVE  UNCHANGED <<crossbars, lanes, crossbar, accepted>>
    BY <1>7 DEF ProducerStep, LoadMode, CopyPointer, LoadAccepting, Snapshot, DispatchSync, WriteSync,
                CopyFlushPointer, FlushFatal, LogAt, heapVars, pipelineVars
  <1>8. CASE UNCHANGED vars
    BY <1>6, <1>8 DEF vars, heapVars, pipelineVars, producerVars
  <1> QED
    BY <1>2, <1>3, <1>4, <1>5, <1>6, <1>7, <1>8 DEF Next, Finished

LEMMA SafeInvariant ==
  ASSUME NEW a, Admins = {a}
  PROVE  Spec => []Safe
  <1>1. Init => Safe
    BY DEF Init, Safe
  <1>2. Types /\ Steady(a) /\ Safe /\ [Next]_vars => Safe'
    BY SafeStep
  <1> QED
    BY <1>1, <1>2, TypesInvariant, SteadyInvariant, PTL DEF Spec

LEMMA WrittenIsReceived ==
  ASSUME Types, NEW e, NEW l \in DOMAIN lanes
  PROVE  Written(e, l) <=> Received(e, lanes[l].route, Len(out[lanes[l].route]))
  <1>1. lanes[l].route \in RouteId
    BY HeapIsOK, HeapTypes DEF LaneType
  <1> QED
    BY <1>1, SinksAreOK DEF Written, Received

\* start(), close(), configure(), changes of the routes and the destruction of replaced
\* crossbars lose no event that a started lane has accepted, unless request_stop() stopped
\* that lane: the event is written or its worker is there to write it, with any number of
\* producers logging meanwhile (SinkCrossbar's stop_lanes_ and destructor).
THEOREM NothingIsLost ==
  ASSUME NEW a, Admins = {a}
  PROVE  Spec => []GracefulLosesNothing
  <1>1. Types /\ Safe => GracefulLosesNothing
    <2> SUFFICES ASSUME Types, Safe, NEW x \in accepted
                 PROVE  LET l == lanes[x[2]] IN
                        \/ l.forced \/ l.worker = "none"
                        \/ Received(x[1], l.route, Len(out[l.route]))
                        \/ l.worker = "run" /\ \E i \in DOMAIN l.queue : l.queue[i] = x[1]
      BY DEF GracefulLosesNothing
    <2>1. x[2] \in DOMAIN lanes
      BY ProducersAreOK DEF ProducersOK
    <2>2. lanes[x[2]].worker \in {"none", "run", "exited"}
      BY <2>1, HeapIsOK, HeapTypes DEF LaneType
    <2> QED
      BY <2>1, <2>2, WrittenIsReceived DEF Safe, Kept, InQueue
  <1> QED
    BY <1>1, TypesInvariant, SafeInvariant, PTL

-----------------------------------------------------------------------------
(* close() flushes what it drained.                                        *)

\* The sinks of the current lanes' routes.
Served(r) == \E l \in Lanes(crossbar) : lanes[l].route = r

FlushedUpTo(e, r) == \E k \in 1..flushed[r] : out[r][k].event = e

\* CloseFlushes for the thread a and an event that lane l accepted.
CloseFlushed(a, e, l) ==
  /\ apc[a] \in {"copy", "renew"} /\ aop[a] = "close"
  /\ lanes[l].worker # "none" /\ ~lanes[l].forced /\ Served(lanes[l].route)
  => FlushedUpTo(e, lanes[l].route)

LEMMA FlushedStays ==
  ASSUME Types, [Next]_vars, NEW e, NEW r \in RouteId, FlushedUpTo(e, r)
  PROVE  FlushedUpTo(e, r)'
  <1>1. /\ flushed[r] <= flushed'[r] /\ flushed[r] \in 0..Len(out[r]) /\ flushed'[r] \in Nat
        /\ DOMAIN out[r] = 1..Len(out[r]) /\ Len(out[r]) \in Nat
        /\ \A k \in DOMAIN out[r] : out'[r][k] = out[r][k]
    BY SinksStep, SinksAreOK DEF SinksGrow, SinksOK
  <1>2. PICK k \in 1..flushed[r] : out[r][k].event = e
    BY DEF FlushedUpTo
  <1>3. k \in DOMAIN out[r] /\ k \in 1..flushed'[r]
    BY <1>1, <1>2
  <1> QED
    BY <1>1, <1>2, <1>3 DEF FlushedUpTo

\* A step within the same lanes gives no route a lane.
LEMMA ServedStays ==
  ASSUME Types, [Next]_vars, UNCHANGED <<crossbars, crossbar>>, NEW r
  PROVE  Served(r)' <=> Served(r)
  <1>1. Lanes(crossbar)' = Lanes(crossbar) /\ Lanes(crossbar) \subseteq DOMAIN lanes
    BY HeapIsOK, HeapTypes, LocalTypes DEF Lanes, LanesOf
  <1> QED
    BY <1>1, HeapStep DEF Served, HeapGrows

LEMMA CloseFlushedStep ==
  ASSUME NEW a, Admins = {a}, Types, Steady(a), Safe, [Next]_vars,
         NEW e, NEW l \in DOMAIN lanes, <<e, l>> \in accepted',
         <<e, l>> \in accepted => CloseFlushed(a, e, l)
  PROVE  CloseFlushed(a, e, l)'
  <1>0. /\ HeapOK /\ lanes[l].route \in RouteId /\ lanes'[l].route = lanes[l].route
        /\ lanes[l].forced => lanes'[l].forced
    BY HeapIsOK, HeapTypes, HeapStep DEF LaneType, HeapGrows
  <1>1. apc \in [Admins -> APlace] /\ aop \in [Admins -> Operation]
    BY AdminIsOK DEF AdminOK
  <1>2. CASE apc'[a] \notin {"copy", "renew"} \/ aop'[a] # "close"
    BY <1>2 DEF CloseFlushed
  <1>3. ASSUME UNCHANGED <<crossbars, crossbar, aop>>, apc[a] \in {"copy", "renew"},
               lanes'[l].worker # "none" => lanes[l].worker # "none", <<e, l>> \in accepted
        PROVE  CloseFlushed(a, e, l)'
    BY <1>0, <1>3, ServedStays, FlushedStays DEF CloseFlushed
  <1>4. CASE FlushAfterStop(a)
    <2> SUFFICES ASSUME lanes[l].worker # "none", ~lanes[l].forced, Served(lanes[l].route)
                 PROVE  FlushedUpTo(e, lanes[l].route)'
      <3>1. UNCHANGED <<crossbars, lanes, crossbar>>
        BY <1>4 DEF FlushAfterStop, heapVars, pipelineVars
      <3> QED
        BY <3>1, ServedStays DEF CloseFlushed
    <2>1. <<e, l>> \in accepted /\ apc[a] = "flush" /\ UNCHANGED out /\ FlushSinks(crossbar)
      BY <1>4 DEF FlushAfterStop, producerVars
    <2>2. lanes[l].worker = "exited"
      BY <1>0, <2>1, NobodyRuns, HeapTypes DEF LaneType
    <2>3. Kept(e, l)
      BY <2>1 DEF Safe
    <2>4. Written(e, l)
      BY <2>2, <2>3 DEF Kept
    <2>5. \E i \in DOMAIN LanesOf(crossbar) : lanes[LanesOf(crossbar)[i]].route = lanes[l].route
      BY DEF Served, Lanes
    <2>6. flushed'[lanes[l].route] = Len(out[lanes[l].route])
      BY <1>0, <2>1, <2>5 DEF FlushSinks, SinkFlush
    <2> QED
      BY <1>0, <2>1, <2>4, <2>6, SinksAreOK DEF Written, FlushedUpTo
  <1>5. CASE CopyRoutes(a)
    BY <1>1, <1>3, <1>5 DEF CopyRoutes, heapVars, pipelineVars, producerVars
  <1>6. ASSUME Background PROVE CloseFlushed(a, e, l)'
    <2>0. UNCHANGED <<crossbars, crossbar, aop, apc>>
      BY <1>6, BackgroundEffect DEF adminVars
    <2>1. SUFFICES ASSUME apc[a] \in {"copy", "renew"} PROVE CloseFlushed(a, e, l)'
      BY <1>2, <2>0
    <2>2. lanes'[l].worker # "none" => lanes[l].worker # "none"
      BY <1>6, BackgroundEffect DEF SameFlags, Exits, Dies, LaneIs
    <2>3. CASE <<e, l>> \in accepted
      BY <1>3, <2>0, <2>1, <2>2, <2>3
    <2>4. CASE <<e, l>> \notin accepted
      <3>1. PICK p \in Producers : Push(p)
        BY <1>6, <2>4 DEF Background, ProducerStep, LoadMode, CopyPointer, LoadAccepting, Snapshot,
           DispatchSync, WriteSync, CopyFlushPointer, FlushFatal, Return, LogAt, WorkerStep, WorkerWrites,
           WorkerExits, vars, producerVars
      <3>2. PICK m \in DOMAIN lanes :
              \/ /\ ~lanes[m].closed /\ InPlace({m})
                 /\ LaneIs(lanes'[m], m, Append(lanes[m].queue, <<p, sent[p]>>), FALSE,
                           lanes[m].worker, lanes[m].drain, lanes[m].forced)
                 /\ accepted' = accepted \cup {<<<<p, sent[p]>>, m>>}
              \/ UNCHANGED accepted
        BY <1>0, <3>1, PushEffect
      <3>3. l = m /\ ~lanes[l].closed
        <4>1. ~UNCHANGED accepted
          BY <2>4
        <4>2. ~lanes[m].closed /\ <<e, l>> = <<<<p, sent[p]>>, m>>
          BY <2>4, <3>2, <4>1
        <4> QED
          BY <4>2
      <3>4. lanes[l].worker # "run" /\ lanes[l].worker \in {"none", "run", "exited"}
        BY <1>0, <2>1, NobodyRuns, HeapTypes DEF LaneType
      <3>5. lanes[l].worker = "none" \/ lanes[l].forced
        BY <3>3, <3>4 DEF Steady, WorkersOK
      <3> QED
        BY <1>0, <2>2, <3>5 DEF CloseFlushed
    <2> QED
      BY <2>3, <2>4
  <1>7. ASSUME Call(a) \/ Relane(a) \/ StopLanes(a) \/ CloseLane(a) \/ Join(a) \/ LoadRunning(a)
               \/ RebuildRunning(a) \/ Renew(a)
        PROVE  apc'[a] \notin {"copy", "renew"} \/ aop'[a] # "close"
    <2>1. CASE Call(a)
      BY <1>1, <2>1 DEF Call, add_route, clear_routes, start, flush, Stop, configure, Begin, Called, AGoto
    <2>2. CASE Relane(a) \/ StopLanes(a)
      BY <1>1, <2>2 DEF Relane, StopLanes, StopBegins, AGoto, Finish
    <2>3. CASE CloseLane(a) \/ Join(a)
      BY <1>1, <2>3 DEF CloseLane, Join, AGoto
    <2>4. CASE LoadRunning(a)
      BY <1>1, <2>4 DEF LoadRunning, AGoto, Finish, Steady, Phases
    <2>5. CASE RebuildRunning(a) \/ Renew(a)
      BY <1>1, <2>5 DEF RebuildRunning, Renew, AGoto, Finish
    <2> QED
      BY <1>7, <2>1, <2>2, <2>3, <2>4, <2>5
  <1> QED
    BY <1>2, <1>4, <1>5, <1>6, <1>7 DEF Next, AdminStep, Finished, Background

\* A lane that a step makes has no events yet.
LEMMA AcceptedBefore ==
  ASSUME Types, [Next]_vars, NEW x \in accepted'
  PROVE  x[2] \in DOMAIN lanes /\ x = <<x[1], x[2]>>
  <1>1. accepted \subseteq Event \X DOMAIN lanes
    BY ProducersAreOK DEF ProducersOK
  <1>2. ASSUME NEW p \in Producers, Push(p)
        PROVE  \E l \in DOMAIN lanes : accepted' \subseteq accepted \cup {<<<<p, sent[p]>>, l>>}
    BY <1>2, PushEffect, HeapIsOK
  <1>3. CASE UNCHANGED accepted
    BY <1>1, <1>3
  <1>4. ASSUME NEW p \in Producers, ~Push(p),
               ProducerStep(p) \/ \E severity \in Severities : LogAt(p, severity)
        PROVE  UNCHANGED accepted
    BY <1>4 DEF ProducerStep, LoadMode, CopyPointer, LoadAccepting, Snapshot, DispatchSync, WriteSync,
                CopyFlushPointer, FlushFatal, Return, LogAt
  <1>5. ASSUME (\E b \in Admins : Call(b) \/ AdminStep(b)) \/ WorkerStep \/ UNCHANGED vars
        PROVE  UNCHANGED accepted
    BY <1>5, ProducersUntouched
  <1> QED
    BY <1>1, <1>2, <1>3, <1>4, <1>5 DEF Next, Finished

AllCloseFlushed(a) == \A x \in accepted : CloseFlushed(a, x[1], x[2])

\* When close() is about to replace the crossbar, every event that a started lane accepted
\* for a route the crossbar serves is not only written but flushed, also if that lane was
\* replaced before (Pipeline::close: stop, flush, then the new crossbar).
THEOREM CloseHasFlushed ==
  ASSUME NEW a, Admins = {a}
  PROVE  Spec => []CloseFlushes
  <1>1. Init => AllCloseFlushed(a)
    BY DEF Init, AllCloseFlushed
  <1>2. Types /\ Steady(a) /\ Safe /\ AllCloseFlushed(a) /\ [Next]_vars => AllCloseFlushed(a)'
    <2> SUFFICES ASSUME Types, Steady(a), Safe, AllCloseFlushed(a), [Next]_vars, NEW x \in accepted'
                 PROVE  CloseFlushed(a, x[1], x[2])'
      BY DEF AllCloseFlushed
    <2>1. x[2] \in DOMAIN lanes /\ <<x[1], x[2]>> \in accepted'
          /\ (<<x[1], x[2]>> \in accepted => x \in accepted)
      BY AcceptedBefore
    <2> QED
      BY <2>1, CloseFlushedStep DEF AllCloseFlushed
  <1>3. AllCloseFlushed(a) => CloseFlushes
    <2> SUFFICES ASSUME AllCloseFlushed(a), NEW x \in accepted,
                        apc[a] \in {"copy", "renew"}, aop[a] = "close",
                        lanes[x[2]].worker # "none", ~lanes[x[2]].forced,
                        \E i \in DOMAIN LanesOf(crossbar) :
                          lanes[LanesOf(crossbar)[i]].route = lanes[x[2]].route
                 PROVE  Received(x[1], lanes[x[2]].route, flushed[lanes[x[2]].route])
      BY DEF CloseFlushes
    <2> QED
      BY DEF AllCloseFlushed, CloseFlushed, Served, Lanes, Received, FlushedUpTo
  <1> QED
    BY <1>1, <1>2, <1>3, TypesInvariant, SteadyInvariant, SafeInvariant, PTL DEF Spec

-----------------------------------------------------------------------------
(* Where events come from.                                                 *)

\* The event that producer p is logging.
Now(p) == <<p, sent[p]>>

InSink(e, r) == \E k \in DOMAIN out[r] : out[r][k].event = e

\* Some queues are emptied, new lanes have empty queues, and the others stay.
QueuesShrink ==
  \A l \in DOMAIN lanes' :
    \/ lanes'[l].queue = <<>>
    \/ l \in DOMAIN lanes /\ lanes'[l].queue = lanes[l].queue

LEMMA NewQueuesEmpty ==
  ASSUME Types, NEW a \in Admins, Rebuilt(a, TRUE) \/ Rebuilt(a, FALSE) \/ Renewed(a)
  PROVE  QueuesShrink
  <1>0. HeapOK /\ acopy[a] \in Seq(RouteId) /\ crossbar \in DOMAIN crossbars
    BY HeapIsOK, LocalTypes
  <1>1. PICK old \in {lanes, Destroyed(crossbar)}, w \in {"none", "run"} : Adds(old, acopy[a], w)
    BY DEF Rebuilt, Renewed
  <1>2. ASSUME NEW l \in DOMAIN lanes PROVE old[l].queue = <<>> \/ old[l] = lanes[l]
    BY <1>0, <1>1, DestroyedLanes DEF LaneIs
  <1>3. ASSUME NEW l \in DOMAIN lanes', l \notin DOMAIN lanes PROVE lanes'[l].queue = <<>>
    <2>1. Len(acopy[a]) \in Nat /\ DOMAIN acopy[a] = 1..Len(acopy[a])
      BY <1>0, SeqIsFunction
    <2>2. Len(lanes) \in Nat /\ DOMAIN lanes = 1..Len(lanes)
      BY <1>0, HeapTypes
    <2>3. l - Len(lanes) \in DOMAIN acopy[a] /\ l = Len(lanes) + (l - Len(lanes))
      BY <1>1, <1>3, <2>1, <2>2 DEF Adds
    <2>4. lanes'[l] = NewLane(acopy[a][l - Len(lanes)], w)
      BY <1>1, <2>3 DEF Adds
    <2> QED
      BY <2>4 DEF NewLane
  <1> QED
    BY <1>1, <1>2, <1>3 DEF QueuesShrink, Adds

LEMMA QueueStep ==
  ASSUME Types, [Next]_vars
  PROVE  \/ \E m \in DOMAIN lanes : WorkerWrites(m)
         \/ \E p \in Producers : Push(p)
         \/ QueuesShrink
  <1>0. HeapOK
    BY HeapIsOK
  <1>1. ASSUME UNCHANGED lanes PROVE QueuesShrink
    BY <1>1 DEF QueuesShrink
  <1>2. ASSUME NEW a \in Admins, start(a) PROVE QueuesShrink
    BY <1>0, <1>2, StartEffect DEF QueuesShrink, InPlace, LaneIs, heapVars
  <1>3. ASSUME NEW a \in Admins, NEW d \in BOOLEAN, NEW next, StopBegins(a, d, next), UNCHANGED crossbar
        PROVE  QueuesShrink
    BY <1>0, <1>3, StopEffect DEF QueuesShrink, InPlace, LaneIs, heapVars
  <1>4. ASSUME NEW a \in Admins, StopLanes(a) PROVE QueuesShrink
    <2>1. PICK d \in BOOLEAN : d <=> aop[a] = "close"
      OBVIOUS
    <2> QED
      BY <1>3, <1>4, <2>1 DEF StopLanes
  <1>5. ASSUME NEW a \in Admins, CloseLane(a) PROVE QueuesShrink
    <2>1. \/ UNCHANGED heapVars
          \/ \E m \in Lanes(crossbar) : InPlace({m}) /\ lanes'[m].queue = lanes[m].queue
      BY <1>0, <1>5, CloseEffect, LocalTypes DEF LaneIs
    <2> QED
      BY <2>1 DEF QueuesShrink, InPlace, heapVars
  <1>6. ASSUME NEW a \in Admins, Join(a) PROVE QueuesShrink
    <2>1. /\ InPlace(Lanes(crossbar))
          /\ \A l \in Lanes(crossbar) : lanes'[l].queue = <<>> \/ l \notin DOMAIN lanes \/ lanes'[l] = lanes[l]
      BY <1>0, <1>6, JoinEffect DEF InPlace, LaneIs
    <2> QED
      BY <2>1 DEF QueuesShrink, InPlace
  <1>7. ASSUME NEW a \in Admins, Relane(a) PROVE QueuesShrink
    BY <1>3, <1>7, RebuiltEffect, NewQueuesEmpty DEF pipelineVars
  <1>8. ASSUME NEW a \in Admins, RebuildRunning(a) \/ Renew(a) PROVE QueuesShrink
    BY <1>8, RebuiltEffect, RenewEffect, NewQueuesEmpty
  <1>9. ASSUME NEW a \in Admins,
               (Call(a) /\ ~start(a)) \/ FlushAfterStop(a) \/ CopyRoutes(a) \/ LoadRunning(a)
        PROVE  UNCHANGED lanes
    BY <1>9 DEF Call, add_route, clear_routes, flush, Stop, configure, FlushAfterStop, CopyRoutes,
                LoadRunning, heapVars
  <1>10. ASSUME NEW p \in Producers, Return(p) PROVE QueuesShrink
    BY <1>0, <1>10, ReturnEffect DEF QueuesShrink, InPlace, LaneIs
  <1>11. ASSUME NEW p \in Producers, ~Push(p), ~Return(p),
               ProducerStep(p) \/ \E severity \in Severities : LogAt(p, severity)
         PROVE  UNCHANGED lanes
    BY <1>11 DEF ProducerStep, LoadMode, CopyPointer, LoadAccepting, Snapshot, DispatchSync, WriteSync,
                 CopyFlushPointer, FlushFatal, LogAt, heapVars
  <1>12. ASSUME NEW l \in DOMAIN lanes, WorkerExits(l) PROVE QueuesShrink
    BY <1>0, <1>12, ExitEffect DEF QueuesShrink, InPlace, LaneIs
  <1>13. CASE UNCHANGED vars
    BY <1>1, <1>13 DEF vars, heapVars
  <1> QED
    BY <1>1, <1>2, <1>4, <1>5, <1>6, <1>7, <1>8, <1>9, <1>10, <1>11, <1>12, <1>13
       DEF Next, AdminStep, WorkerStep, Finished, ProducerStep

LEMMA SinkStep ==
  ASSUME Types, [Next]_vars
  PROVE  \/ \E m \in DOMAIN lanes : WorkerWrites(m)
         \/ \E p \in Producers : WriteSync(p)
         \/ UNCHANGED out
  <1>1. ASSUME NEW a \in Admins, Call(a) \/ AdminStep(a) PROVE UNCHANGED out
    BY <1>1 DEF Call, add_route, clear_routes, start, flush, Stop, configure, AdminStep, Relane,
       StopLanes, CloseLane, Join, RebuildRunning, FlushAfterStop, CopyRoutes, Renew, LoadRunning,
       sinkVars
  <1>2. ASSUME NEW p \in Producers, ~WriteSync(p),
               ProducerStep(p) \/ \E severity \in Severities : LogAt(p, severity)
        PROVE  UNCHANGED out
    BY <1>2 DEF ProducerStep, LoadMode, CopyPointer, LoadAccepting, Snapshot, Push, Return,
                DispatchSync, CopyFlushPointer, FlushFatal, LogAt, sinkVars
  <1>3. ASSUME NEW l, WorkerExits(l) PROVE UNCHANGED out
    BY <1>3 DEF WorkerExits, sinkVars
  <1>4. CASE UNCHANGED vars
    BY <1>4 DEF vars, sinkVars
  <1> QED
    BY <1>1, <1>2, <1>3, <1>4 DEF Next, WorkerStep, Finished

\* What p's push does to the queues.
LEMMA PushQueues ==
  ASSUME Types, NEW p \in Producers, Push(p)
  PROVE  /\ DOMAIN lanes' = DOMAIN lanes /\ Now(p) \in Event /\ Head(todo[p]) \in DOMAIN lanes
         /\ todo[p] # <<>> /\ ppc[p] = "push" /\ UNCHANGED out /\ UNCHANGED <<crossbar, crossbars>>
         /\ \A l \in DOMAIN lanes :
              \/ lanes'[l].queue = lanes[l].queue
              \/ l = Head(todo[p]) /\ lanes'[l].queue = Append(lanes[l].queue, Now(p))
  <1>1. PICK l \in DOMAIN lanes :
           /\ l = Head(todo[p]) /\ todo[p] # <<>> /\ SameCrossbars /\ UNCHANGED crossbars
           /\ <<p, sent[p]>> \in Event
           /\ \/ /\ InPlace({l})
                 /\ lanes'[l].queue = Append(lanes[l].queue, <<p, sent[p]>>)
              \/ UNCHANGED <<lanes, accepted>>
    BY HeapIsOK, PushEffect DEF LaneIs
  <1>2. UNCHANGED out /\ UNCHANGED <<crossbar, crossbars>> /\ ppc[p] = "push"
    BY DEF Push, sinkVars, pipelineVars
  <1>3. DOMAIN lanes' = DOMAIN lanes
    BY <1>1 DEF InPlace
  <1> QED
    BY <1>1, <1>2, <1>3 DEF InPlace, Now

\* What a worker's write does to the queues and sinks.
LEMMA WriteQueues ==
  ASSUME Types, NEW m \in DOMAIN lanes, WorkerWrites(m)
  PROVE  LET q == lanes[m].queue
             r == lanes[m].route
         IN /\ DOMAIN lanes' = DOMAIN lanes /\ UNCHANGED <<crossbar, crossbars, sent, ppc, todo>>
            /\ lanes[m].worker = "run" /\ r \in RouteId
            /\ DOMAIN q = 1..Len(q) /\ Len(q) \in Nat \ {0} /\ 1 \in DOMAIN q
            /\ DOMAIN lanes'[m].queue = 1..(Len(q) - 1)
            /\ \A k \in 1..(Len(q) - 1) : lanes'[m].queue[k] = q[k + 1]
            /\ \A l \in DOMAIN lanes \ {m} : lanes'[l].queue = lanes[l].queue
            /\ m \in Nat \ {0} /\ q[1] \in Event
            /\ out'[r] = Append(out[r], [event |-> q[1], lane |-> m])
            /\ [event |-> q[1], lane |-> m] \in Entry
            /\ \A s \in RouteId \ {r} : out'[s] = out[s]
  <1>0. HeapOK
    BY HeapIsOK
  <1> DEFINE q == lanes[m].queue
             r == lanes[m].route
  <1>1. /\ InPlace({m}) /\ lanes'[m].queue = Tail(q) /\ lanes[m].worker = "run"
        /\ q \in Seq(Event) /\ q # <<>> /\ r \in RouteId
    BY <1>0, WriteEffect DEF LaneIs
  <1>2. UNCHANGED <<crossbar, crossbars, sent, ppc, todo>>
    BY DEF WorkerWrites, pipelineVars, producerVars
  <1>3. /\ m \in Nat \ {0} /\ [event |-> Head(q), lane |-> m] \in Entry
        /\ out'[r] = Append(out[r], [event |-> Head(q), lane |-> m])
        /\ \A s \in RouteId \ {r} : out'[s] = out[s]
    BY WrittenEffect
  <1> HIDE DEF q, r
  <1>4. /\ DOMAIN q = 1..Len(q) /\ Len(q) \in Nat \ {0} /\ 1 \in DOMAIN q /\ Head(q) = q[1] /\ Head(q) \in Event
        /\ DOMAIN Tail(q) = 1..(Len(q) - 1)
        /\ \A k \in 1..(Len(q) - 1) : Tail(q)[k] = q[k + 1]
    BY <1>1, HeadAndTail, SeqIsFunction
  <1>5. DOMAIN lanes' = DOMAIN lanes /\ \A l \in DOMAIN lanes \ {m} : lanes'[l].queue = lanes[l].queue
    BY <1>1 DEF InPlace
  <1>6. /\ DOMAIN lanes'[m].queue = 1..(Len(q) - 1)
        /\ \A k \in 1..(Len(q) - 1) : lanes'[m].queue[k] = q[k + 1]
    BY <1>1, <1>4
  <1>7. /\ [event |-> q[1], lane |-> m] \in Entry
        /\ out'[r] = Append(out[r], [event |-> q[1], lane |-> m])
    BY <1>3, <1>4
  <1> QED
    BY <1>1, <1>2, <1>3, <1>4, <1>5, <1>6, <1>7 DEF q, r

\* An event gets into a queue by a push of its producer.
LEMMA InQueueStep ==
  ASSUME Types, [Next]_vars, NEW e, NEW l \in DOMAIN lanes', InQueue(e, l)'
  PROVE  /\ l \in DOMAIN lanes
         /\ InQueue(e, l) \/ \E p \in Producers : Push(p) /\ e = Now(p) /\ l = Head(todo[p])
  <1>0. PICK k \in DOMAIN lanes'[l].queue : lanes'[l].queue[k] = e
    BY DEF InQueue
  <1>1. CASE QueuesShrink
    <2>1. lanes'[l].queue # <<>>
      BY <1>0, EmptySeq
    <2>2. l \in DOMAIN lanes /\ lanes'[l].queue = lanes[l].queue
      BY <1>1, <2>1 DEF QueuesShrink
    <2> QED
      BY <1>0, <2>2 DEF InQueue
  <1>2. ASSUME NEW p \in Producers, Push(p)
        PROVE  /\ l \in DOMAIN lanes
               /\ InQueue(e, l) \/ (e = Now(p) /\ l = Head(todo[p]))
    <2>1. l \in DOMAIN lanes /\ lanes[l].queue \in Seq(Event) /\ Now(p) \in Event
      BY <1>2, PushQueues, HeapIsOK, HeapTypes DEF LaneType
    <2>2. CASE lanes'[l].queue = lanes[l].queue
      BY <1>0, <2>1, <2>2 DEF InQueue
    <2>3. CASE l = Head(todo[p]) /\ lanes'[l].queue = Append(lanes[l].queue, Now(p))
      <3>1. /\ DOMAIN lanes[l].queue = 1..Len(lanes[l].queue) /\ Len(lanes[l].queue) \in Nat
            /\ DOMAIN lanes'[l].queue = 1..(Len(lanes[l].queue) + 1)
            /\ \A i \in 1..Len(lanes[l].queue) : lanes'[l].queue[i] = lanes[l].queue[i]
            /\ lanes'[l].queue[Len(lanes[l].queue) + 1] = Now(p)
        BY <2>1, <2>3, AppendElements, SeqIsFunction
      <3>2. k \in 1..Len(lanes[l].queue) \/ k = Len(lanes[l].queue) + 1
        BY <1>0, <3>1
      <3>3. CASE k \in 1..Len(lanes[l].queue)
        BY <1>0, <2>1, <3>1, <3>3 DEF InQueue
      <3>4. CASE k = Len(lanes[l].queue) + 1
        BY <1>0, <2>1, <2>3, <3>1, <3>4
      <3> QED
        BY <3>2, <3>3, <3>4
    <2> QED
      BY <1>2, <2>1, <2>2, <2>3, PushQueues
  <1>3. ASSUME NEW m \in DOMAIN lanes, WorkerWrites(m) PROVE l \in DOMAIN lanes /\ InQueue(e, l)
    <2>1. l \in DOMAIN lanes
      BY <1>3, WriteQueues
    <2>2. CASE l # m
      BY <1>0, <1>3, <2>1, <2>2, WriteQueues DEF InQueue
    <2>3. CASE l = m
      <3>1. /\ DOMAIN lanes[l].queue = 1..Len(lanes[l].queue) /\ Len(lanes[l].queue) \in Nat \ {0}
            /\ DOMAIN lanes'[l].queue = 1..(Len(lanes[l].queue) - 1)
            /\ \A i \in 1..(Len(lanes[l].queue) - 1) : lanes'[l].queue[i] = lanes[l].queue[i + 1]
        BY <1>3, <2>3, WriteQueues
      <3>2. k + 1 \in DOMAIN lanes[l].queue /\ lanes[l].queue[k + 1] = e
        BY <1>0, <3>1
      <3> QED
        BY <2>1, <3>2 DEF InQueue
    <2> QED
      BY <2>2, <2>3
  <1> QED
    BY <1>1, <1>2, <1>3, QueueStep

\* An entry of a sink is an old one, was written by its producer, or comes from a queue.
LEMMA InSinkStep ==
  ASSUME Types, [Next]_vars, NEW r \in RouteId, NEW k \in DOMAIN out'[r]
  PROVE  \/ k \in DOMAIN out[r] /\ out'[r][k] = out[r][k]
         \/ /\ k = Len(out[r]) + 1
            /\ \/ \E p \in Producers : /\ Writes(p, r)
                                       /\ out'[r][k].event = Now(p) /\ out'[r][k].lane = 0
               \/ \E m \in DOMAIN lanes : /\ WorkerWrites(m) /\ lanes[m].route = r
                                          /\ out'[r][k].event = lanes[m].queue[1]
                                          /\ out'[r][k].lane = m /\ InQueue(lanes[m].queue[1], m)
  <1>0. out[r] \in Seq(Entry) /\ DOMAIN out[r] = 1..Len(out[r]) /\ Len(out[r]) \in Nat
    BY SinksAreOK
  <1>1. CASE out'[r] = out[r]
    BY <1>1
  <1>2. ASSUME NEW e \in Entry, out'[r] = Append(out[r], e)
        PROVE  \/ k \in DOMAIN out[r] /\ out'[r][k] = out[r][k]
               \/ k = Len(out[r]) + 1 /\ out'[r][k] = e
    <2>1. /\ DOMAIN out'[r] = 1..(Len(out[r]) + 1)
          /\ \A i \in 1..Len(out[r]) : out'[r][i] = out[r][i]
          /\ out'[r][Len(out[r]) + 1] = e
      BY <1>0, <1>2, AppendElements
    <2> QED
      BY <1>0, <2>1
  <1>3. ASSUME NEW p \in Producers, WriteSync(p)
        PROVE  \/ k \in DOMAIN out[r] /\ out'[r][k] = out[r][k]
               \/ /\ k = Len(out[r]) + 1 /\ Writes(p, r)
                  /\ out'[r][k].event = Now(p) /\ out'[r][k].lane = 0
    <2>1. CASE /\ out'[r] = Append(out[r], [event |-> <<p, sent[p]>>, lane |-> 0])
               /\ Writes(p, r)
      <3>1. \/ k \in DOMAIN out[r] /\ out'[r][k] = out[r][k]
            \/ k = Len(out[r]) + 1 /\ out'[r][k] = [event |-> <<p, sent[p]>>, lane |-> 0]
        BY <1>2, <1>3, <2>1, SyncEffect
      <3> QED
        BY <2>1, <3>1 DEF Now
    <2> QED
      BY <1>1, <1>3, <2>1, SyncEffect
  <1>4. ASSUME NEW m \in DOMAIN lanes, WorkerWrites(m)
        PROVE  \/ k \in DOMAIN out[r] /\ out'[r][k] = out[r][k]
               \/ /\ k = Len(out[r]) + 1 /\ lanes[m].route = r
                  /\ out'[r][k].event = lanes[m].queue[1]
                  /\ out'[r][k].lane = m /\ InQueue(lanes[m].queue[1], m)
    <2>1. CASE lanes[m].route # r
      <3>1. out'[r] = out[r]
        BY <1>4, <2>1, WriteQueues
      <3> QED
        BY <3>1
    <2>2. CASE lanes[m].route = r
      <3>1. /\ out'[r] = Append(out[r], [event |-> lanes[m].queue[1], lane |-> m])
            /\ [event |-> lanes[m].queue[1], lane |-> m] \in Entry /\ 1 \in DOMAIN lanes[m].queue
        BY <1>4, <2>2, WriteQueues
      <3>2. \/ k \in DOMAIN out[r] /\ out'[r][k] = out[r][k]
            \/ k = Len(out[r]) + 1 /\ out'[r][k] = [event |-> lanes[m].queue[1], lane |-> m]
        BY <1>2, <3>1
      <3> QED
        BY <2>2, <3>1, <3>2 DEF InQueue
    <2> QED
      BY <2>1, <2>2
  <1> QED
    BY <1>1, <1>3, <1>4, SinkStep

\* Somewhere in a queue or in a sink.
Seen(e) == (\E l \in DOMAIN lanes : InQueue(e, l)) \/ (\E r \in RouteId : InSink(e, r))

LEMMA SeenStep ==
  ASSUME Types, [Next]_vars, NEW e, Seen(e)'
  PROVE  Seen(e) \/ \E p \in Producers : (Push(p) \/ WriteSync(p)) /\ e = Now(p)
  <1>1. ASSUME NEW l \in DOMAIN lanes', InQueue(e, l)'
        PROVE  Seen(e) \/ \E p \in Producers : Push(p) /\ e = Now(p)
    BY <1>1, InQueueStep DEF Seen
  <1>2. ASSUME NEW r \in RouteId, InSink(e, r)'
        PROVE  Seen(e) \/ \E p \in Producers : WriteSync(p) /\ e = Now(p)
    <2>1. PICK k \in DOMAIN out'[r] : out'[r][k].event = e
      BY <1>2 DEF InSink
    <2>2. \/ k \in DOMAIN out[r] /\ out'[r][k] = out[r][k]
          \/ \E p \in Producers : WriteSync(p) /\ out'[r][k].event = Now(p)
          \/ \E m \in DOMAIN lanes : out'[r][k].event = lanes[m].queue[1] /\ InQueue(lanes[m].queue[1], m)
      BY InSinkStep DEF Writes
    <2> QED
      BY <2>1, <2>2 DEF Seen, InSink
  <1> QED
    BY <1>1, <1>2 DEF Seen

\* Where the producers are.
LEMMA ProducerMoves ==
  ASSUME Types, [Next]_vars, NEW p \in Producers
  PROVE  \/ UNCHANGED <<ppc[p], sev[p], held[p], todo[p], copied[p], sent[p]>>
         \/ ProducerStep(p) \/ \E severity \in Severities : LogAt(p, severity)
  <1>0. /\ DOMAIN ppc = Producers /\ DOMAIN sev = Producers /\ DOMAIN held = Producers
        /\ DOMAIN todo = Producers /\ DOMAIN copied = Producers /\ DOMAIN sent = Producers
    BY ProducersAreOK DEF ProducersOK, Types, TypeOK
  <1>1. ASSUME NEW q \in Producers \ {p},
               ProducerStep(q) \/ \E severity \in Severities : LogAt(q, severity)
        PROVE  UNCHANGED <<ppc[p], sev[p], held[p], todo[p], copied[p], sent[p]>>
    BY <1>0, <1>1 DEF ProducerStep, LoadMode, CopyPointer, LoadAccepting, Snapshot, Push,
       DispatchSync, WriteSync, CopyFlushPointer, FlushFatal, Return, LogAt, PGoto
  <1>2. ASSUME (\E a \in Admins : Call(a) \/ AdminStep(a)) \/ WorkerStep \/ UNCHANGED vars
        PROVE  UNCHANGED <<ppc[p], sev[p], held[p], todo[p], copied[p], sent[p]>>
    BY <1>2, ProducersUntouched
  <1> QED
    BY <1>1, <1>2 DEF Next, Finished

Early == {"mode", "pointer", "accepting", "snapshot", "sync"}

\* Events are numbered as they are logged, the current one is nowhere before it is pushed or
\* written, and only a push leaves lanes to do and only a synchronous call routes to write to.
History ==
  \A p \in Producers :
    /\ \A n \in Nat : Seen(<<p, n>>) => n <= sent[p]
    /\ ppc[p] \in Early => ~Seen(Now(p))
    /\ todo[p] # <<>> => ppc[p] = "push"
    /\ copied[p] # <<>> => ppc[p] = "write"

LEMMA HistoryStep ==
  ASSUME Types, History, [Next]_vars
  PROVE  History'
  <1>0. ProducersOK
    BY ProducersAreOK
  <1> SUFFICES ASSUME NEW p \in Producers
               PROVE  /\ \A n \in Nat : Seen(<<p, n>>)' => n <= sent'[p]
                      /\ ppc'[p] \in Early => ~Seen(Now(p))'
                      /\ todo'[p] # <<>> => ppc'[p] = "push"
                      /\ copied'[p] # <<>> => ppc'[p] = "write"
    BY DEF History
  <1>1. /\ sent[p] \in Nat /\ sent'[p] \in {sent[p], sent[p] + 1}
        /\ sent'[p] # sent[p] => /\ sent'[p] = sent[p] + 1 /\ ppc[p] = "idle" /\ UNCHANGED <<todo, lanes, out>>
                                 /\ \E severity \in Severities : LogAt(p, severity)
    <2>1. sent[p] \in Nat
      BY <1>0, LifecycleAssumption DEF ProducersOK
    <2>2. ASSUME NEW severity \in Severities, LogAt(p, severity)
          PROVE  sent'[p] = sent[p] + 1 /\ ppc[p] = "idle" /\ UNCHANGED <<todo, lanes, out>>
      BY <1>0, <2>2 DEF LogAt, ProducersOK, heapVars, sinkVars
    <2>3. ASSUME ProducerStep(p) PROVE UNCHANGED sent
      BY <2>3 DEF ProducerStep, LoadMode, CopyPointer, LoadAccepting, Snapshot, Push,
         DispatchSync, WriteSync, CopyFlushPointer, FlushFatal, Return
    <2> QED
      BY <2>1, <2>2, <2>3, ProducerMoves
  <1>2. ASSUME NEW n \in Nat, Seen(<<p, n>>)' PROVE n <= sent'[p]
    <2>1. Seen(<<p, n>>) \/ <<p, n>> = Now(p)
      BY <1>2, SeenStep DEF Now
    <2>2. CASE Seen(<<p, n>>)
      BY <1>1, <2>2 DEF History
    <2>3. CASE <<p, n>> = Now(p)
      <3>1. n = sent[p]
        BY <2>3 DEF Now
      <3> QED
        BY <1>1, <3>1
    <2> QED
      BY <1>1, <2>1, <2>2, <2>3
  <1>3. ASSUME ppc'[p] \in Early, Seen(Now(p))' PROVE FALSE
    <2>1. PICK e : e = <<p, sent'[p]>>
      OBVIOUS
    <2>2. Seen(e)'
      BY <1>3, <2>1 DEF Now, Seen, InQueue, InSink
    <2>3. CASE sent'[p] # sent[p]
      <3>1. Seen(<<p, sent'[p]>>)
        <4>1. UNCHANGED <<lanes, out>>
          BY <1>1, <2>3
        <4> QED
          BY <2>1, <2>2, <4>1 DEF Seen, InQueue, InSink
      <3>2. sent'[p] \in Nat
        BY <1>1
      <3>3. sent'[p] <= sent[p]
        BY <3>1, <3>2 DEF History
      <3> QED
        BY <1>1, <2>3, <3>3
    <2>4. CASE sent'[p] = sent[p]
      <3>1. CASE ppc[p] \in Early
        <4>1. e = Now(p) /\ ~Seen(Now(p))
          BY <2>1, <2>4, <3>1 DEF History, Now
        <4>2. ~Seen(e)
          BY <4>1
        <4>3. PICK q \in Producers : (Push(q) \/ WriteSync(q)) /\ e = Now(q)
          BY <2>2, <4>2, SeenStep
        <4>4. q = p
          BY <4>1, <4>3 DEF Now
        <4> QED
          BY <3>1, <4>3, <4>4 DEF Push, WriteSync, Early
      <3>2. CASE ppc[p] \notin Early
        <4>1. ASSUME ProducerStep(p) PROVE ppc'[p] \notin Early
          BY <1>0, <3>2, <4>1 DEF ProducerStep, LoadMode, CopyPointer, LoadAccepting, Snapshot, Push,
             DispatchSync, WriteSync, CopyFlushPointer, FlushFatal, Return, PGoto, Early, ProducersOK
        <4>2. ASSUME NEW severity \in Severities, LogAt(p, severity) PROVE sent'[p] # sent[p]
          BY <1>0, <1>1, <4>2 DEF LogAt, ProducersOK
        <4> QED
          BY <1>3, <2>4, <3>2, <4>1, <4>2, ProducerMoves
      <3> QED
        BY <3>1, <3>2
    <2> QED
      BY <2>3, <2>4
  <1>4. ASSUME todo'[p] # <<>> PROVE ppc'[p] = "push"
    <2>1. CASE UNCHANGED <<ppc[p], todo[p]>>
      BY <1>4, <2>1 DEF History
    <2>2. ASSUME NEW severity \in Severities, LogAt(p, severity) PROVE ppc'[p] = "push"
      BY <1>0, <1>4, <2>2 DEF LogAt, History
    <2>3. ASSUME ProducerStep(p), ~Snapshot(p), ~Push(p) PROVE ppc'[p] = "push"
      <3>1. UNCHANGED todo
        BY <2>3 DEF ProducerStep, LoadMode, CopyPointer, LoadAccepting, DispatchSync, WriteSync,
           CopyFlushPointer, FlushFatal, Return
      <3>2. ppc[p] = "push" /\ todo[p] # <<>>
        BY <1>4, <3>1 DEF History
      <3> QED
        BY <2>3, <3>2 DEF ProducerStep, LoadMode, CopyPointer, LoadAccepting, DispatchSync, WriteSync,
           CopyFlushPointer, FlushFatal, Return
    <2>4. CASE Snapshot(p) \/ Push(p)
      BY <1>0, <2>4 DEF Snapshot, Push, PGoto, ProducersOK
    <2> QED
      BY <2>1, <2>2, <2>3, <2>4, ProducerMoves
  <1>5. ASSUME copied'[p] # <<>> PROVE ppc'[p] = "write"
    <2>1. CASE UNCHANGED <<ppc[p], copied[p]>>
      BY <1>5, <2>1 DEF History
    <2>2. CASE DispatchSync(p) \/ WriteSync(p)
      BY <1>0, <1>5, <2>2 DEF DispatchSync, WriteSync, PGoto, ProducersOK
    <2>3. ASSUME \/ ProducerStep(p) /\ ~DispatchSync(p) /\ ~WriteSync(p)
                 \/ \E severity \in Severities : LogAt(p, severity)
          PROVE  UNCHANGED copied /\ ppc[p] # "write"
      BY <2>3 DEF ProducerStep, LoadMode, CopyPointer, LoadAccepting, Snapshot, Push,
         CopyFlushPointer, FlushFatal, Return, LogAt
    <2> QED
      BY <1>5, <2>1, <2>2, <2>3, ProducerMoves DEF History
  <1> QED
    BY <1>2, <1>3, <1>4, <1>5

LEMMA HistoryInvariant == Spec => []History
  <1>1. Init => History
    BY DEF Init, History, Early, Seen, InQueue, InSink
  <1>2. Types /\ History /\ [Next]_vars => History'
    BY HistoryStep
  <1> QED
    BY <1>1, <1>2, TypesInvariant, PTL DEF Spec

-----------------------------------------------------------------------------
(* A fatal event is flushed when the call returns.                         *)

\* A call that logs a fatal event goes straight to the sinks.
Straight(p) ==
  sev[p] = "fatal" /\ ppc[p] # "idle" =>
    /\ ppc[p] \in {"mode", "sync", "write", "flushPointer", "flush", "push"}
    /\ todo[p] = <<>>
    /\ \A l \in DOMAIN lanes : ~InQueue(Now(p), l)

\* The event is only in sinks of configured routes until it is flushed, and the crossbar it is
\* flushed through has a lane for each of them.
Flushing(p) ==
  sev[p] = "fatal" /\ calm[p] =>
    /\ ppc[p] \in {"write", "flushPointer", "flush"} =>
         \A r \in RouteId : InSink(Now(p), r) => \E i \in DOMAIN routes : routes[i] = r
    /\ ppc[p] = "write" =>
         \A i \in DOMAIN copied[p] : \E j \in DOMAIN routes : routes[j] = copied[p][i]
    /\ ppc[p] = "flush" => RoutesOf(held[p]) = routes
    /\ ppc[p] = "push" =>
         \A r \in RouteId : \A k \in DOMAIN out[r] : out[r][k].event = Now(p) => k <= flushed[r]

\* No operation on the routes is under way.
Undisturbed(a, p) == ppc[p] # "idle" /\ calm[p] => aop[a] # "route"

LEMMA StraightStep ==
  ASSUME Types, History, History', [Next]_vars, NEW p \in Producers, Straight(p)
  PROVE  Straight(p)'
  <1>0. ProducersOK
    BY ProducersAreOK
  <1> SUFFICES ASSUME sev'[p] = "fatal", ppc'[p] # "idle"
               PROVE  /\ ppc'[p] \in {"mode", "sync", "write", "flushPointer", "flush", "push"}
                      /\ todo'[p] = <<>>
                      /\ \A l \in DOMAIN lanes' : ~InQueue(Now(p), l)'
    BY DEF Straight
  <1>1. ASSUME NEW severity \in Severities, LogAt(p, severity)
        PROVE  ppc'[p] = "mode" /\ todo'[p] = <<>> /\ \A l \in DOMAIN lanes' : ~InQueue(Now(p), l)'
    <2>1. ppc[p] = "idle" /\ UNCHANGED todo /\ ppc'[p] = "mode"
      BY <1>0, <1>1 DEF LogAt, PGoto, ProducersOK
    <2>2. todo'[p] = <<>>
      BY <2>1 DEF History
    <2>3. ~Seen(Now(p))'
      BY <2>1 DEF History, Early
    <2> QED
      BY <2>1, <2>2, <2>3 DEF Seen
  <1>2. ASSUME ppc[p] # "idle", sev[p] = "fatal", sent'[p] = sent[p]
        PROVE  /\ ~Push(p) /\ ~Snapshot(p) /\ ~CopyPointer(p) /\ ~LoadAccepting(p)
               /\ \A l \in DOMAIN lanes' : ~InQueue(Now(p), l)'
    <2>1. ~Push(p) /\ ~Snapshot(p) /\ ~CopyPointer(p) /\ ~LoadAccepting(p)
      BY <1>2 DEF Straight, Push, Snapshot, CopyPointer, LoadAccepting
    <2>2. PICK e : e = Now(p) /\ e = Now(p)'
      BY <1>2 DEF Now
    <2>3. ASSUME NEW l \in DOMAIN lanes' PROVE ~InQueue(e, l)'
      <3>1. SUFFICES ASSUME InQueue(e, l)' PROVE FALSE
        OBVIOUS
      <3>2. l \in DOMAIN lanes /\ (InQueue(e, l) \/ \E q \in Producers : Push(q) /\ e = Now(q))
        BY <3>1, InQueueStep
      <3>3. ~InQueue(e, l)
        BY <1>2, <2>2, <3>2 DEF Straight
      <3> QED
        BY <2>1, <2>2, <3>2, <3>3 DEF Now
    <2> QED
      BY <2>1, <2>2, <2>3 DEF InQueue
  <1>3. CASE UNCHANGED <<ppc[p], sev[p], held[p], todo[p], copied[p], sent[p]>>
    BY <1>2, <1>3 DEF Straight
  <1>4. CASE ProducerStep(p)
    <2>1. ppc[p] # "idle" /\ UNCHANGED sent
      BY <1>4 DEF ProducerStep, LoadMode, CopyPointer, LoadAccepting, Snapshot, Push,
         DispatchSync, WriteSync, CopyFlushPointer, FlushFatal, Return
    <2>2. ~Return(p)
      BY <1>0 DEF Return, PGoto, ProducersOK
    <2>3. UNCHANGED sev
      BY <1>4, <2>2 DEF ProducerStep, LoadMode, CopyPointer, LoadAccepting, Snapshot, Push,
         DispatchSync, WriteSync, CopyFlushPointer, FlushFatal
    <2>4. LoadMode(p) \/ DispatchSync(p) \/ WriteSync(p) \/ CopyFlushPointer(p) \/ FlushFatal(p)
      BY <1>2, <1>4, <2>1, <2>2, <2>3 DEF ProducerStep
    <2>5. UNCHANGED todo /\ ppc'[p] \in {"mode", "sync", "write", "flushPointer", "flush", "push"}
      BY <1>0, <2>3, <2>4 DEF LoadMode, DispatchSync, WriteSync, CopyFlushPointer, FlushFatal, PGoto, ProducersOK
    <2> QED
      BY <1>2, <2>1, <2>3, <2>5 DEF Straight
  <1> QED
    BY <1>1, <1>3, <1>4, ProducerMoves

\* While a call stays calm the routes stay.
LEMMA CalmStep ==
  ASSUME Types, [Next]_vars, NEW p \in Producers, ppc[p] # "idle", ppc'[p] # "idle", calm'[p]
  PROVE  /\ calm[p] /\ UNCHANGED routes /\ sev'[p] = sev[p] /\ sent'[p] = sent[p]
         /\ \A b \in Admins : ~add_route(b) /\ ~clear_routes(b)
  <1>0. ProducersOK
    BY ProducersAreOK
  <1>1. ASSUME NEW b \in Admins, add_route(b) \/ clear_routes(b) PROVE FALSE
    BY <1>1 DEF add_route, clear_routes, Disturb
  <1>2. CASE (\E b \in Admins : Call(b) \/ AdminStep(b)) \/ WorkerStep \/ UNCHANGED vars
    <2>1. UNCHANGED <<sev, sent, calm>>
      BY <1>1, <1>2, ProducersUntouched
    <2>2. ASSUME NEW b \in Admins, Call(b) \/ AdminStep(b) PROVE UNCHANGED routes
      BY <1>1, <2>2 DEF Call, start, flush, Stop, configure, AdminStep, Relane, StopLanes,
         CloseLane, Join, RebuildRunning, FlushAfterStop, CopyRoutes, Renew, LoadRunning, pipelineVars
    <2>3. ASSUME WorkerStep \/ UNCHANGED vars PROVE UNCHANGED routes
      BY <2>3, AdminUntouched DEF pipelineVars
    <2> QED
      BY <1>1, <1>2, <2>1, <2>2, <2>3
  <1>3. ASSUME NEW q \in Producers, ProducerStep(q) \/ \E severity \in Severities : LogAt(q, severity)
        PROVE  calm[p] /\ UNCHANGED routes /\ sev'[p] = sev[p] /\ sent'[p] = sent[p]
    <2>1. UNCHANGED routes
      BY <1>3, AdminUntouched DEF pipelineVars
    <2>2. CASE q # p
      BY <1>0, <1>3, <2>1, <2>2 DEF ProducersOK, ProducerStep, LoadMode, CopyPointer, LoadAccepting, Snapshot, Push,
         DispatchSync, WriteSync, CopyFlushPointer, FlushFatal, Return, LogAt
    <2>3. CASE q = p
      <3>1. ~Return(p) /\ \A severity : ~LogAt(p, severity)
        BY <1>0 DEF Return, PGoto, ProducersOK, LogAt
      <3> QED
        BY <1>3, <2>1, <2>3, <3>1 DEF ProducerStep, LoadMode, CopyPointer, LoadAccepting, Snapshot, Push,
         DispatchSync, WriteSync, CopyFlushPointer, FlushFatal
    <2> QED
      BY <2>2, <2>3
  <1> QED
    BY <1>1, <1>2, <1>3 DEF Next, Finished

LEMMA UndisturbedStep ==
  ASSUME NEW a, Admins = {a}, Types, Steady(a), [Next]_vars, NEW p \in Producers, Undisturbed(a, p)
  PROVE  Undisturbed(a, p)'
  <1>0. ProducersOK /\ aop \in [Admins -> Operation]
    BY ProducersAreOK, AdminIsOK DEF AdminOK
  <1> SUFFICES ASSUME ppc'[p] # "idle", calm'[p] PROVE aop'[a] # "route"
    BY DEF Undisturbed
  <1>1. CASE ppc[p] = "idle"
    <2>1. ASSUME NEW severity \in Severities, LogAt(p, severity) PROVE aop'[a] # "route"
      <3>1. (apc[a] = "idle" \/ aop[a] # "route") /\ UNCHANGED aop
        BY <1>0, <1>1, <2>1 DEF LogAt, ProducersOK, adminVars
      <3> QED
        BY <3>1 DEF Steady, Phases
    <2>2. ~ProducerStep(p)
      BY <1>1 DEF ProducerStep, LoadMode, CopyPointer, LoadAccepting, Snapshot, Push,
         DispatchSync, WriteSync, CopyFlushPointer, FlushFatal, Return
    <2> QED
      BY <1>1, <2>1, <2>2, ProducerMoves
  <1>2. CASE ppc[p] # "idle"
    <2>1. aop[a] # "route" /\ ~add_route(a) /\ ~clear_routes(a)
      BY <1>2, CalmStep DEF Undisturbed
    <2>2. CASE Call(a)
      BY <1>0, <2>1, <2>2 DEF Call, start, flush, Stop, configure, Begin
    <2>3. CASE AdminStep(a)
      BY <1>0, <2>1, <2>3 DEF AdminStep, Relane, StopLanes,
         CloseLane, Join, RebuildRunning, FlushAfterStop, CopyRoutes, Renew, LoadRunning, Finish
    <2>4. CASE UNCHANGED <<pipelineVars, adminVars>>
      BY <2>1, <2>4 DEF adminVars
    <2> QED
      BY <2>2, <2>3, <2>4, AdminUntouched DEF Next, Finished
  <1> QED
    BY <1>1, <1>2

\* The crossbar that the call flushes through keeps its lanes.
LEMMA HeldLanesStay ==
  ASSUME NEW a, Admins = {a}, Types, Steady(a), [Next]_vars, aop[a] # "route", NEW x \in DOMAIN crossbars
  PROVE  RoutesOf(x)' = RoutesOf(x)
  <1>1. ~Rebuilt(a, TRUE) /\ ~Rebuilt(a, FALSE)
    BY DEF Rebuilt, Steady, Phases
  <1>2. SameCrossbars \/ Renewed(a)
    BY <1>1, CrossbarSteps
  <1>3. LanesOf(x)' = LanesOf(x)
    BY <1>2 DEF SameCrossbars, Renewed, LanesOf
  <1> QED
    BY <1>3, RoutesStay

LEMMA FlushingStep ==
  ASSUME NEW a, Admins = {a}, Types, History, Steady(a), Matching(a), [Next]_vars,
         NEW p \in Producers, Straight(p), Undisturbed(a, p), Flushing(p)
  PROVE  Flushing(p)'
  <1>0. ProducersOK /\ HeapOK
    BY ProducersAreOK, HeapIsOK
  <1> SUFFICES ASSUME sev'[p] = "fatal", calm'[p], ppc'[p] \in {"write", "flushPointer", "flush", "push"}
               PROVE  /\ ppc'[p] \in {"write", "flushPointer", "flush"} =>
                           \A r \in RouteId : InSink(Now(p), r)' => \E i \in DOMAIN routes' : routes'[i] = r
                      /\ ppc'[p] = "write" =>
                           \A i \in DOMAIN copied'[p] : \E j \in DOMAIN routes' : routes'[j] = copied'[p][i]
                      /\ ppc'[p] = "flush" => RoutesOf(held[p])' = routes'
                      /\ ppc'[p] = "push" =>
                           \A r \in RouteId : \A k \in DOMAIN out'[r] :
                             out'[r][k].event = Now(p)' => k <= flushed'[r]
    BY DEF Flushing
  <1>1. ppc[p] # "idle"
    <2> SUFFICES ASSUME ppc[p] = "idle" PROVE FALSE
      OBVIOUS
    <2>1. ASSUME NEW severity \in Severities, LogAt(p, severity) PROVE ppc'[p] \in {"idle", "mode"}
      BY <1>0, <2>1 DEF LogAt, PGoto, ProducersOK
    <2>2. ~ProducerStep(p)
      BY DEF ProducerStep, LoadMode, CopyPointer, LoadAccepting, Snapshot, Push,
         DispatchSync, WriteSync, CopyFlushPointer, FlushFatal, Return
    <2> QED
      BY <2>1, <2>2, ProducerMoves
  <1>2. calm[p] /\ UNCHANGED routes /\ sev[p] = "fatal" /\ sent'[p] = sent[p]
    BY <1>1, CalmStep
  <1>3. aop[a] # "route"
    BY <1>1, <1>2 DEF Undisturbed
  <1>4. PICK e : e = Now(p) /\ e = Now(p)'
    BY <1>2 DEF Now
  <1>5. \A l \in DOMAIN lanes : ~InQueue(e, l)
    BY <1>1, <1>2, <1>4 DEF Straight
  <1>6. ASSUME NEW r \in RouteId, NEW k \in DOMAIN out'[r], out'[r][k].event = e
        PROVE  \/ k \in DOMAIN out[r] /\ out[r][k].event = e
               \/ Writes(p, r)
    <2>1. \/ k \in DOMAIN out[r] /\ out'[r][k] = out[r][k]
          \/ \E q \in Producers : Writes(q, r) /\ out'[r][k].event = Now(q)
          \/ \E m \in DOMAIN lanes : /\ out'[r][k].event = lanes[m].queue[1]
                                     /\ InQueue(lanes[m].queue[1], m)
      BY InSinkStep
    <2>2. \A q \in Producers : Now(q) = e => q = p
      BY <1>4 DEF Now
    <2> QED
      BY <1>5, <1>6, <2>1, <2>2
  <1>7. ASSUME ProducerStep(p)
        PROVE  DispatchSync(p) \/ WriteSync(p) \/ CopyFlushPointer(p) \/ FlushFatal(p)
    <2>1. ~LoadMode(p)
      BY <1>0, <1>2 DEF LoadMode, PGoto, ProducersOK
    <2>2. ~CopyPointer(p) /\ ~LoadAccepting(p) /\ ~Snapshot(p) /\ ~Push(p)
      BY <1>1, <1>2 DEF Straight, Push, Snapshot, CopyPointer, LoadAccepting
    <2>3. ~Return(p)
      BY <1>0 DEF Return, PGoto, ProducersOK
    <2> QED
      BY <1>7, <2>1, <2>2, <2>3 DEF ProducerStep
  <1>8. \A severity : ~LogAt(p, severity)
    BY <1>1 DEF LogAt
  <1>9. ASSUME ppc'[p] \in {"write", "flushPointer", "flush"}, NEW r \in RouteId, InSink(e, r)'
        PROVE  \E i \in DOMAIN routes : routes[i] = r
    <2>1. PICK k \in DOMAIN out'[r] : out'[r][k].event = e
      BY <1>9 DEF InSink
    <2>2. CASE DispatchSync(p)
      <3>1. ~Seen(e) /\ UNCHANGED out
        BY <1>4, <2>2 DEF DispatchSync, History, Early, sinkVars
      <3> QED
        BY <2>1, <3>1 DEF Seen, InSink
    <2>3. CASE Writes(p, r)
      <3>1. ppc[p] = "write" /\ copied[p] # <<>> /\ r = Head(copied[p])
        BY <2>3 DEF Writes, WriteSync
      <3>2. 1 \in DOMAIN copied[p] /\ r = copied[p][1]
        BY <3>1, LocalTypes, HeadAndTail
      <3> QED
        BY <1>2, <3>1, <3>2 DEF Flushing
    <2>4. CASE ~DispatchSync(p) /\ ~Writes(p, r)
      <3>1. InSink(e, r)
        BY <1>6, <2>1, <2>4 DEF InSink
      <3>2. ppc[p] \in {"write", "flushPointer", "flush"}
        BY <1>0, <1>7, <1>8, <1>9, <2>4, ProducerMoves
           DEF WriteSync, CopyFlushPointer, FlushFatal, PGoto, ProducersOK
      <3> QED
        BY <1>2, <1>4, <3>1, <3>2 DEF Flushing
    <2> QED
      BY <2>2, <2>3, <2>4
  <1>13. ASSUME ppc'[p] = "write", NEW i \in DOMAIN copied'[p]
         PROVE  \E j \in DOMAIN routes : routes[j] = copied'[p][i]
    <2>1. CASE DispatchSync(p)
      BY <2>1, <1>13, CopyEffect
    <2>2. CASE WriteSync(p)
      <3>1. ppc[p] = "write" /\ copied[p] # <<>> /\ copied'[p] = Tail(copied[p])
        BY <1>0, <1>2, <1>13, <2>2 DEF WriteSync, PGoto, ProducersOK, Types, TypeOK
      <3>2. i + 1 \in DOMAIN copied[p] /\ copied'[p][i] = copied[p][i + 1]
        <4>1. /\ copied[p] \in Seq(RouteId) /\ Len(copied[p]) \in Nat
              /\ DOMAIN copied[p] = 1..Len(copied[p])
          BY LocalTypes, SeqIsFunction
        <4>2. /\ DOMAIN copied'[p] = 1..(Len(copied[p]) - 1)
              /\ \A k \in 1..(Len(copied[p]) - 1) : copied'[p][k] = copied[p][k + 1]
          BY <3>1, <4>1, HeadAndTail
        <4> QED
          BY <1>13, <4>1, <4>2
      <3> QED
        BY <1>2, <3>1, <3>2 DEF Flushing
    <2>3. CASE ~DispatchSync(p) /\ ~WriteSync(p)
      <3>1. UNCHANGED <<ppc[p], copied[p]>>
        BY <1>0, <1>7, <1>8, <1>13, <2>3, ProducerMoves
           DEF CopyFlushPointer, FlushFatal, PGoto, ProducersOK
      <3> QED
        BY <1>2, <1>13, <3>1 DEF Flushing
    <2> QED
      BY <2>1, <2>2, <2>3
  <1>10. ASSUME ppc'[p] = "flush" PROVE RoutesOf(held[p])' = routes
    <2>1. CASE CopyFlushPointer(p)
      <3>1. PICK x : x = crossbar /\ x = held'[p]
        BY <1>0, <2>1 DEF CopyFlushPointer, ProducersOK
      <3>2. UNCHANGED <<crossbars, lanes>>
        BY <2>1 DEF CopyFlushPointer, heapVars
      <3>3. RoutesOf(x) = routes
        BY <1>3, <3>1 DEF Matching
      <3> QED
        BY <3>1, <3>2, <3>3 DEF RoutesOf, LanesOf
    <2>2. CASE ~CopyFlushPointer(p)
      <3>1. ppc[p] = "flush" /\ held'[p] = held[p]
        <4>1. ~DispatchSync(p) /\ ~WriteSync(p) /\ ~FlushFatal(p)
          BY <1>0, <1>2, <1>10 DEF DispatchSync, WriteSync, FlushFatal, PGoto, ProducersOK
        <4> QED
          BY <1>7, <1>8, <1>10, <2>2, <4>1, ProducerMoves
      <3>2. PICK x \in DOMAIN crossbars : x = held[p] /\ x = held'[p]
        BY <3>1, LocalTypes
      <3>3. RoutesOf(x) = routes
        BY <1>2, <3>1, <3>2 DEF Flushing
      <3>4. RoutesOf(x)' = routes
        BY <1>3, <3>3, HeldLanesStay
      <3> QED
        BY <3>2, <3>4 DEF RoutesOf, LanesOf
    <2> QED
      BY <2>1, <2>2
  <1>11. ASSUME ppc'[p] = "push", NEW r \in RouteId, NEW k \in DOMAIN out'[r], out'[r][k].event = e
         PROVE  k <= flushed'[r]
    <2>0. /\ flushed[r] <= flushed'[r] /\ flushed[r] \in Nat /\ flushed'[r] \in Nat
          /\ DOMAIN out[r] = 1..Len(out[r]) /\ Len(out[r]) \in Nat
      BY SinksStep, SinksAreOK DEF SinksGrow, SinksOK
    <2>1. ~DispatchSync(p) /\ ~WriteSync(p) /\ ~CopyFlushPointer(p)
      BY <1>0, <1>2, <1>11 DEF DispatchSync, WriteSync, CopyFlushPointer, PGoto, ProducersOK
    <2>2. k \in DOMAIN out[r] /\ out[r][k].event = e
      BY <1>6, <1>11, <2>1 DEF Writes
    <2>3. CASE FlushFatal(p)
      <3>1. ppc[p] = "flush" /\ FlushSinks(held[p])
        BY <2>3 DEF FlushFatal
      <3>2. PICK j \in DOMAIN routes : routes[j] = r
        BY <1>2, <1>4, <2>2, <3>1 DEF Flushing, InSink
      <3>3. RoutesOf(held[p]) = routes
        BY <1>2, <3>1 DEF Flushing
      <3>4. j \in DOMAIN LanesOf(held[p]) /\ lanes[LanesOf(held[p])[j]].route = r
        BY <3>2, <3>3 DEF RoutesOf
      <3>5. flushed'[r] = Len(out[r])
        BY <3>1, <3>4 DEF FlushSinks, SinkFlush
      <3> QED
        BY <2>0, <2>2, <3>5
    <2>4. CASE ~FlushFatal(p)
      <3>1. ppc[p] = "push"
        BY <1>7, <1>8, <1>11, <2>1, <2>4, ProducerMoves
      <3>2. k <= flushed[r]
        BY <1>2, <1>4, <2>2, <3>1 DEF Flushing
      <3> QED
        BY <2>0, <2>2, <3>2
    <2> QED
      BY <2>3, <2>4
  <1>12. \A r \in RouteId : InSink(Now(p), r)' <=> InSink(e, r)'
    BY <1>4 DEF InSink
  <1> QED
    BY <1>2, <1>4, <1>9, <1>10, <1>11, <1>12, <1>13

Fatal(a) == \A p \in Producers : Straight(p) /\ Undisturbed(a, p) /\ Flushing(p)

\* When a call that logs a fatal event returns, the event is flushed in every sink it was
\* written to, whatever starts, stops, rebuilds and replacements of the crossbar happen during
\* the call, unless the routes change during it (Logger::log_at and Pipeline::flush).
THEOREM FatalIsFlushed ==
  ASSUME NEW a, Admins = {a}
  PROVE  Spec => []FatalFlushed
  <1>1. Init => Fatal(a)
    BY DEF Init, Fatal, Straight, Undisturbed, Flushing
  <1>2. Types /\ History /\ History' /\ Steady(a) /\ Matching(a) /\ Fatal(a) /\ [Next]_vars => Fatal(a)'
    BY StraightStep, UndisturbedStep, FlushingStep DEF Fatal
  <1>3. Fatal(a) => FatalFlushed
    BY DEF Fatal, Flushing, FatalFlushed, Now
  <1> QED
    BY <1>1, <1>2, <1>3, TypesInvariant, HistoryInvariant, SteadyInvariant, MatchingInvariant, PTL DEF Spec

-----------------------------------------------------------------------------
(* Each producer's events reach a sink in order.                           *)

Distinct(s) == \A i, j \in DOMAIN s : s[i] = s[j] => i = j

\* No route is configured twice, and no crossbar has two lanes for a route.
RoutesDistinct ==
  /\ Distinct(routes)
  /\ \A i \in DOMAIN routes : routes[i] <= added
  /\ \A x \in DOMAIN crossbars : Distinct(RoutesOf(x))

LEMMA RoutesDistinctStep ==
  ASSUME NEW a, Admins = {a}, Types, Phases(a), Matching(a), RoutesDistinct, [Next]_vars
  PROVE  RoutesDistinct'
  <1>0. /\ routes \in Seq(RouteId) /\ added \in Nat /\ acopy[a] \in Seq(RouteId)
        /\ crossbar \in DOMAIN crossbars
    BY AdminIsOK, LocalTypes, LifecycleAssumption DEF AdminOK
  <1>1. /\ DOMAIN routes = 1..Len(routes) /\ Len(routes) \in Nat
        /\ \A i \in DOMAIN routes : routes[i] \in Nat
    BY <1>0, SeqIsFunction, LifecycleAssumption DEF RouteId
  <1>2. Distinct(routes') /\ \A i \in DOMAIN routes' : routes'[i] <= added'
    <2>1. CASE UNCHANGED <<routes, added>>
      BY <2>1 DEF RoutesDistinct
    <2>2. CASE clear_routes(a)
      BY <2>2, EmptySeq DEF clear_routes, Distinct
    <2>3. CASE add_route(a)
      <3>1. routes' = Append(routes, added + 1) /\ added' = added + 1 /\ added + 1 \in Nat
        BY <1>0, <2>3 DEF add_route
      <3>2. routes \in Seq(Nat)
        BY <1>0, <1>1, SeqDef
      <3>3. /\ DOMAIN routes' = 1..(Len(routes) + 1)
            /\ \A i \in 1..Len(routes) : routes'[i] = routes[i]
            /\ routes'[Len(routes) + 1] = added + 1
        BY <3>1, <3>2, AppendElements
      <3>4. \A i \in DOMAIN routes' : routes'[i] <= added'
        BY <1>0, <1>1, <3>1, <3>3 DEF RoutesDistinct
      <3>5. \A i \in DOMAIN routes : routes[i] # added + 1
        BY <1>0, <1>1 DEF RoutesDistinct
      <3>6. Distinct(routes')
        BY <1>1, <3>3, <3>5 DEF RoutesDistinct, Distinct
      <3> QED
        BY <3>4, <3>6
    <2>4. ASSUME Call(a), ~add_route(a), ~clear_routes(a) PROVE UNCHANGED <<routes, added>>
      BY <2>4 DEF Call, start, flush, Stop, configure, pipelineVars
    <2>5. ASSUME AdminStep(a) PROVE UNCHANGED <<routes, added>>
      BY <2>5 DEF AdminStep, Relane, StopLanes, CloseLane, Join, RebuildRunning, FlushAfterStop,
         CopyRoutes, Renew, LoadRunning, pipelineVars
    <2>6. CASE UNCHANGED <<pipelineVars, adminVars>>
      BY <2>1, <2>6 DEF pipelineVars, adminVars
    <2> QED
      BY <2>1, <2>2, <2>3, <2>4, <2>5, <2>6, AdminUntouched DEF Next, Finished
  <1>3. ASSUME NEW x \in DOMAIN crossbars, LanesOf(x)' = LanesOf(x) PROVE Distinct(RoutesOf(x)')
    BY <1>3, RoutesStay DEF RoutesDistinct
  <1>4. ASSUME NEW old, NEW w, Adds(old, acopy[a], w), NEW z, crossbars'[z].lanes = NewLanes(acopy[a]),
               acopy[a] = routes
        PROVE  Distinct(RoutesOf(z)')
    <2>1. RoutesOf(z)' = acopy[a]
      BY <1>0, <1>4, NewRoutes
    <2> QED
      BY <1>4, <2>1 DEF RoutesDistinct
  <1>5. ASSUME NEW x \in DOMAIN crossbars' PROVE Distinct(RoutesOf(x)')
    <2>1. CASE SameCrossbars
      BY <1>3, <2>1 DEF SameCrossbars
    <2>2. CASE Rebuilt(a, TRUE) \/ Rebuilt(a, FALSE)
      <3>1. acopy[a] = routes
        BY <2>2 DEF Rebuilt, Phases, Matching
      <3>2. PICK w : Adds(lanes, acopy[a], w)
        BY <2>2 DEF Rebuilt
      <3>3. CASE x = crossbar
        <4>1. crossbars'[x].lanes = NewLanes(acopy[a])
          BY <2>2, <3>3 DEF Rebuilt, pipelineVars, LanesOf
        <4> QED
          BY <1>4, <3>1, <3>2, <4>1
      <3>4. CASE x # crossbar
        BY <1>3, <2>2, <3>4 DEF Rebuilt, LanesOf
      <3> QED
        BY <3>3, <3>4
    <2>3. CASE Renewed(a)
      <3>1. acopy[a] = routes
        BY <2>3 DEF Renewed, Matching
      <3>2. PICK old : Adds(old, acopy[a], "none")
        BY <2>3 DEF Renewed
      <3>3. CASE x = crossbar'
        <4>1. crossbars'[x].lanes = NewLanes(acopy[a])
          BY <2>3, <3>3 DEF Renewed
        <4> QED
          BY <1>4, <3>1, <3>2, <4>1
      <3>4. CASE x # crossbar'
        BY <1>3, <2>3, <3>4 DEF Renewed, LanesOf
      <3> QED
        BY <3>3, <3>4
    <2> QED
      BY <2>1, <2>2, <2>3, CrossbarSteps
  <1> QED
    BY <1>2, <1>5 DEF RoutesDistinct, Distinct

\* Event e has not got to route r.
Absent(e, r) ==
  /\ ~InSink(e, r)
  /\ \A l \in DOMAIN lanes : lanes[l].route = r => ~InQueue(e, l)

LEMMA AbsentStep ==
  ASSUME Types, [Next]_vars, NEW e, NEW r \in RouteId, Absent(e, r),
         \A q \in Producers : e = Now(q) =>
           ~Writes(q, r) /\ (Push(q) => lanes[Head(todo[q])].route # r)
  PROVE  Absent(e, r)'
  <1>1. ASSUME InSink(e, r)' PROVE FALSE
    <2>1. PICK k \in DOMAIN out'[r] : out'[r][k].event = e
      BY <1>1 DEF InSink
    <2>2. \/ k \in DOMAIN out[r] /\ out'[r][k] = out[r][k]
          \/ \E p \in Producers : Writes(p, r) /\ out'[r][k].event = Now(p)
          \/ \E m \in DOMAIN lanes : /\ lanes[m].route = r /\ out'[r][k].event = lanes[m].queue[1]
                                     /\ InQueue(lanes[m].queue[1], m)
      BY InSinkStep
    <2> QED
      BY <2>1, <2>2 DEF Absent, InSink
  <1>2. ASSUME NEW l \in DOMAIN lanes', lanes'[l].route = r, InQueue(e, l)' PROVE FALSE
    <2>1. l \in DOMAIN lanes /\ (InQueue(e, l) \/ \E p \in Producers : Push(p) /\ e = Now(p) /\ l = Head(todo[p]))
      BY <1>2, InQueueStep
    <2>2. lanes[l].route = r
      BY <1>2, <2>1, HeapStep DEF HeapGrows
    <2> QED
      BY <2>1, <2>2 DEF Absent
  <1> QED
    BY <1>1, <1>2 DEF Absent

\* A call of log has not reached the routes of the lanes it still has to push to.
Pending(p) ==
  /\ \A i, j \in DOMAIN todo[p] : lanes[todo[p][i]].route = lanes[todo[p][j]].route => i = j
  /\ \A i \in DOMAIN todo[p] : Absent(Now(p), lanes[todo[p][i]].route)

LEMMA SnapshotPending ==
  ASSUME Types, History, RoutesDistinct, [Next]_vars, NEW p \in Producers, Snapshot(p)
  PROVE  Pending(p)'
  <1>0. ProducersOK /\ UNCHANGED <<lanes, out, sent>> /\ ppc[p] = "snapshot"
    BY ProducersAreOK DEF Snapshot, heapVars, sinkVars
  <1>1. PICK x \in DOMAIN crossbars : x = held[p]
    BY <1>0, LocalTypes
  <1>2. LanesOf(x) \in Seq(DOMAIN lanes)
    BY HeapIsOK, HeapTypes
  <1>3. PICK n \in Nat : n <= Len(LanesOf(x)) /\ todo'[p] = SubSeq(LanesOf(x), 1, n)
    <2>1. mask[p] \in Nat /\ Len(LanesOf(x)) \in Nat /\ DOMAIN todo = Producers
      BY <1>0, <1>2, SeqIsFunction DEF ProducersOK
    <2>2. todo'[p] = SubSeq(LanesOf(x), 1, IF mask[p] < Len(LanesOf(x)) THEN mask[p] ELSE Len(LanesOf(x)))
      BY <1>1, <2>1 DEF Snapshot
    <2>3. PICK n \in Nat : n = IF mask[p] < Len(LanesOf(x)) THEN mask[p] ELSE Len(LanesOf(x))
      BY <2>1
    <2>4. n <= Len(LanesOf(x))
      BY <2>1, <2>3
    <2> QED
      BY <2>2, <2>3, <2>4
  <1>4. /\ DOMAIN todo'[p] \subseteq DOMAIN LanesOf(x)
        /\ \A i \in DOMAIN todo'[p] : todo'[p][i] = LanesOf(x)[i] /\ todo'[p][i] \in DOMAIN lanes
    <2>1. /\ DOMAIN LanesOf(x) = 1..Len(LanesOf(x)) /\ Len(LanesOf(x)) \in Nat
          /\ \A i \in DOMAIN LanesOf(x) : LanesOf(x)[i] \in DOMAIN lanes
      BY <1>2, SeqIsFunction
    <2>2. \A i \in 1..n : LanesOf(x)[i] \in DOMAIN lanes
      BY <1>3, <2>1
    <2>3. /\ SubSeq(LanesOf(x), 1, n) \in Seq(DOMAIN lanes)
          /\ Len(SubSeq(LanesOf(x), 1, n)) = IF 1 <= n THEN n - 1 + 1 ELSE 0
          /\ \A i \in 1..(n - 1 + 1) : SubSeq(LanesOf(x), 1, n)[i] = LanesOf(x)[1 + i - 1]
      BY <2>2, SubSeqProperties
    <2>4. DOMAIN todo'[p] = 1..n
      BY <1>3, <2>3, SeqIsFunction
    <2> QED
      BY <1>3, <2>1, <2>3, <2>4
  <1>5. \A i, j \in DOMAIN LanesOf(x) : lanes[LanesOf(x)[i]].route = lanes[LanesOf(x)[j]].route => i = j
    BY DEF RoutesDistinct, Distinct, RoutesOf
  <1>6. ~Seen(Now(p))
    BY <1>0 DEF History, Early
  <1>7. \A i \in DOMAIN todo'[p] : Absent(Now(p), lanes[todo'[p][i]].route)
    <2>1. \A l \in DOMAIN lanes : lanes[l].route \in RouteId
      BY HeapIsOK, HeapTypes DEF LaneType
    <2> QED
      BY <1>4, <1>6, <2>1 DEF Seen, Absent
  <1>8. \A i \in DOMAIN todo'[p] : Absent(Now(p), lanes[todo[p][i]].route)'
    BY <1>0, <1>7 DEF Absent, InSink, InQueue, Now
  <1> QED
    BY <1>0, <1>4, <1>5, <1>8 DEF Pending

LEMMA PendingStep ==
  ASSUME Types, History, RoutesDistinct, [Next]_vars, NEW p \in Producers, Pending(p)
  PROVE  Pending(p)'
  <1>0. ProducersOK /\ todo[p] \in Seq(DOMAIN lanes)
    BY ProducersAreOK, LocalTypes
  <1>1. \A l \in DOMAIN lanes : lanes'[l].route = lanes[l].route /\ lanes[l].route \in RouteId
    BY HeapStep, HeapIsOK, HeapTypes DEF HeapGrows, LaneType
  <1>2. /\ DOMAIN todo[p] = 1..Len(todo[p]) /\ Len(todo[p]) \in Nat
        /\ \A i \in DOMAIN todo[p] : todo[p][i] \in DOMAIN lanes
    BY <1>0, SeqIsFunction
  <1>3. CASE todo'[p] = <<>>
    BY <1>3, EmptySeq DEF Pending
  <1>4. CASE Snapshot(p)
    BY <1>4, SnapshotPending
  <1>5. CASE Push(p)
    <2>1. todo[p] # <<>> /\ UNCHANGED sent /\ todo'[p] = Tail(todo[p])
      BY <1>0, <1>5 DEF Push, ProducersOK
    <2>2. /\ DOMAIN todo'[p] = 1..(Len(todo[p]) - 1) /\ 1 \in DOMAIN todo[p] /\ Head(todo[p]) = todo[p][1]
          /\ \A i \in 1..(Len(todo[p]) - 1) : todo'[p][i] = todo[p][i + 1]
      BY <1>0, <2>1, HeadAndTail
    <2>3. ASSUME NEW i \in DOMAIN todo'[p]
          PROVE  /\ i + 1 \in DOMAIN todo[p] /\ todo'[p][i] = todo[p][i + 1]
                 /\ lanes[todo[p][i + 1]].route # lanes[todo[p][1]].route
      <3>1. i + 1 \in DOMAIN todo[p] /\ todo'[p][i] = todo[p][i + 1] /\ i + 1 # 1
        BY <1>2, <2>2
      <3> QED
        BY <2>2, <3>1 DEF Pending
    <2>4. PICK e : e = Now(p) /\ e = Now(p)'
      BY <2>1 DEF Now
    <2>5. ASSUME NEW i \in DOMAIN todo'[p], NEW r, r = lanes[todo[p][i + 1]].route PROVE Absent(e, r)'
      <3>1. r \in RouteId /\ Absent(e, r) /\ r # lanes[Head(todo[p])].route
        BY <1>1, <1>2, <2>2, <2>3, <2>4, <2>5 DEF Pending
      <3>2. \A q \in Producers : e = Now(q) => q = p
        BY <2>4 DEF Now
      <3>3. ~Writes(p, r)
        BY <1>5 DEF Push, Writes, WriteSync
      <3> QED
        BY <3>1, <3>2, <3>3, AbsentStep
    <2>6. ASSUME NEW i \in DOMAIN todo'[p] PROVE Absent(Now(p), lanes[todo[p][i]].route)'
      <3>1. PICK r : r = lanes[todo[p][i + 1]].route
        OBVIOUS
      <3>2. lanes'[todo'[p][i]].route = r
        BY <1>1, <1>2, <2>3, <3>1
      <3>3. Absent(e, r)'
        BY <2>5, <3>1
      <3> QED
        BY <2>4, <3>2, <3>3 DEF Absent, InSink, InQueue
    <2>7. ASSUME NEW i \in DOMAIN todo'[p], NEW j \in DOMAIN todo'[p],
                 lanes'[todo'[p][i]].route = lanes'[todo'[p][j]].route
          PROVE  i = j
      <3>1. /\ i + 1 \in DOMAIN todo[p] /\ j + 1 \in DOMAIN todo[p]
            /\ lanes[todo[p][i + 1]].route = lanes[todo[p][j + 1]].route
        BY <1>1, <1>2, <2>3, <2>7
      <3>2. i + 1 = j + 1
        BY <3>1 DEF Pending
      <3> QED
        BY <1>2, <2>2, <3>2
    <2> QED
      BY <2>6, <2>7 DEF Pending
  <1>6. CASE /\ ~Push(p) /\ UNCHANGED <<todo[p], sent[p]>> /\ todo[p] # <<>>
    <2>1. PICK e : e = Now(p) /\ e = Now(p)'
      BY <1>6 DEF Now
    <2>2. \A q \in Producers : e = Now(q) => q = p
      BY <2>1 DEF Now
    <2>3. \A r : ~Writes(p, r)
      BY <1>6 DEF History, Writes, WriteSync
    <2>4. ASSUME NEW i \in DOMAIN todo[p] PROVE Absent(Now(p), lanes[todo[p][i]].route)'
      <3>1. PICK r \in RouteId : r = lanes[todo[p][i]].route /\ r = lanes'[todo'[p][i]].route
        BY <1>1, <1>2, <1>6
      <3>2. Absent(e, r)
        BY <2>1, <3>1 DEF Pending
      <3>3. Absent(e, r)'
        BY <1>6, <2>2, <2>3, <3>2, AbsentStep
      <3> QED
        BY <2>1, <3>1, <3>3 DEF Absent, InSink, InQueue
    <2>5. \A i, j \in DOMAIN todo'[p] : lanes'[todo'[p][i]].route = lanes'[todo'[p][j]].route => i = j
      BY <1>1, <1>2, <1>6 DEF Pending
    <2> QED
      BY <1>6, <2>4, <2>5 DEF Pending
  <1>7. ASSUME NEW severity \in Severities, LogAt(p, severity) PROVE todo'[p] = <<>>
    BY <1>7 DEF LogAt, History
  <1>8. ASSUME ProducerStep(p), ~Push(p), ~Snapshot(p) PROVE UNCHANGED <<todo[p], sent[p]>>
    BY <1>8 DEF ProducerStep, LoadMode, CopyPointer, LoadAccepting, DispatchSync, WriteSync, CopyFlushPointer,
       FlushFatal, Return
  <1> QED
    BY <1>3, <1>4, <1>5, <1>6, <1>7, <1>8, ProducerMoves

\* A call of log has not reached the routes it still has to write to.
Unwritten(p) ==
  /\ Distinct(copied[p])
  /\ \A i \in DOMAIN copied[p] : Absent(Now(p), copied[p][i])

LEMMA UnwrittenStep ==
  ASSUME Types, History, RoutesDistinct, [Next]_vars, NEW p \in Producers, Unwritten(p)
  PROVE  Unwritten(p)'
  <1>0. ProducersOK /\ copied \in [Producers -> Seq(RouteId)]
    BY ProducersAreOK DEF Types, TypeOK
  <1>1. /\ copied[p] \in Seq(RouteId) /\ Len(copied[p]) \in Nat /\ DOMAIN copied[p] = 1..Len(copied[p])
        /\ \A i \in DOMAIN copied[p] : copied[p][i] \in RouteId
    BY <1>0, SeqIsFunction
  <1>2. CASE copied'[p] = <<>>
    BY <1>2, EmptySeq DEF Unwritten, Distinct
  <1>3. CASE DispatchSync(p)
    <2>1. /\ DOMAIN copied'[p] \subseteq DOMAIN routes /\ copied'[p] \in Seq(RouteId)
          /\ \A i \in DOMAIN copied'[p] : copied'[p][i] = routes[i]
      BY <1>3, CopyEffect
    <2>2. Distinct(copied'[p])
      BY <2>1 DEF RoutesDistinct, Distinct
    <2>3. ~Seen(Now(p)) /\ UNCHANGED <<lanes, out, sent>>
      BY <1>3 DEF DispatchSync, History, Early, heapVars, sinkVars
    <2>4. \A i \in DOMAIN copied'[p] : copied'[p][i] \in RouteId
      BY <2>1, SeqIsFunction
    <2>5. \A i \in DOMAIN copied'[p] : Absent(Now(p), copied[p][i])'
      BY <2>3, <2>4 DEF Seen, Absent, InSink, InQueue, Now
    <2> QED
      BY <2>2, <2>5 DEF Unwritten, Distinct
  <1>4. ASSUME UNCHANGED sent[p], NEW r \in RouteId, Absent(Now(p), r), ~Push(p), ~Writes(p, r)
        PROVE  Absent(Now(p), r)'
    <2>1. PICK e : e = Now(p) /\ e = Now(p)'
      BY <1>4 DEF Now
    <2>2. \A q \in Producers : e = Now(q) => q = p
      BY <2>1 DEF Now
    <2>3. Absent(e, r)
      BY <1>4, <2>1
    <2>4. Absent(e, r)'
      BY <1>4, <2>2, <2>3, AbsentStep
    <2> QED
      BY <2>1, <2>4 DEF Absent, InSink, InQueue
  <1>5. CASE WriteSync(p) /\ copied[p] # <<>>
    <2>1. UNCHANGED sent /\ copied'[p] = Tail(copied[p]) /\ ~Push(p)
      BY <1>0, <1>5 DEF WriteSync, Push
    <2>2. /\ DOMAIN copied'[p] = 1..(Len(copied[p]) - 1) /\ 1 \in DOMAIN copied[p] /\ Head(copied[p]) = copied[p][1]
          /\ \A i \in 1..(Len(copied[p]) - 1) : copied'[p][i] = copied[p][i + 1]
      BY <1>1, <1>5, <2>1, HeadAndTail
    <2>3. ASSUME NEW i \in DOMAIN copied'[p]
          PROVE  i + 1 \in DOMAIN copied[p] /\ i + 1 # 1 /\ copied'[p][i] = copied[p][i + 1]
      BY <1>1, <2>2
    <2>4. ASSUME NEW i \in DOMAIN copied'[p] PROVE Absent(Now(p), copied[p][i])'
      <3>1. PICK r \in RouteId : r = copied[p][i + 1] /\ r = copied'[p][i]
        BY <1>1, <2>3
      <3>2. Absent(Now(p), r)
        BY <2>3, <3>1 DEF Unwritten
      <3>3. ~Writes(p, r)
        BY <2>2, <2>3, <3>1 DEF Unwritten, Distinct, Writes
      <3>4. Absent(Now(p), r)'
        BY <1>4, <2>1, <3>2, <3>3
      <3> QED
        BY <3>1, <3>4
    <2>5. ASSUME NEW i \in DOMAIN copied'[p], NEW j \in DOMAIN copied'[p], copied'[p][i] = copied'[p][j]
          PROVE  i = j
      <3>1. i + 1 = j + 1
        BY <2>3, <2>5 DEF Unwritten, Distinct
      <3> QED
        BY <2>2, <3>1
    <2> QED
      BY <2>4, <2>5 DEF Unwritten, Distinct
  <1>6. CASE UNCHANGED <<copied[p], sent[p]>> /\ ~WriteSync(p) /\ copied[p] # <<>>
    <2>1. ~Push(p)
      BY <1>6 DEF History, Push
    <2>2. ASSUME NEW i \in DOMAIN copied[p] PROVE Absent(Now(p), copied[p][i])'
      <3>1. PICK r \in RouteId : r = copied[p][i] /\ r = copied'[p][i]
        BY <1>1, <1>6
      <3>2. Absent(Now(p), r)'
        BY <1>4, <1>6, <2>1, <3>1 DEF Unwritten, Writes
      <3> QED
        BY <3>1, <3>2
    <2> QED
      BY <1>6, <2>2 DEF Unwritten, Distinct
  <1>7. ASSUME NEW severity \in Severities, LogAt(p, severity) PROVE copied'[p] = <<>>
    BY <1>7 DEF LogAt, History
  <1>8. ASSUME ProducerStep(p), ~DispatchSync(p), ~WriteSync(p) PROVE UNCHANGED <<copied[p], sent[p]>>
    BY <1>8 DEF ProducerStep, LoadMode, CopyPointer, LoadAccepting, Snapshot, Push, CopyFlushPointer,
       FlushFatal, Return
  <1>9. ASSUME WriteSync(p), copied[p] = <<>> PROVE copied'[p] = <<>>
    BY <1>9 DEF WriteSync
  <1> QED
    BY <1>2, <1>3, <1>5, <1>6, <1>7, <1>8, <1>9, ProducerMoves

\* f comes after e if the same producer logged both.
Precedes(e, f) == e[1] = f[1] => e[2] < f[2]

QueueInOrder(l) ==
  \A i, j \in DOMAIN lanes[l].queue : i < j => Precedes(lanes[l].queue[i], lanes[l].queue[j])

\* What workers have written to l's sink precedes what l still holds.
Ahead(l) ==
  \A k \in DOMAIN out[lanes[l].route], m \in DOMAIN lanes[l].queue :
    out[lanes[l].route][k].lane # 0 => Precedes(out[lanes[l].route][k].event, lanes[l].queue[m])

SinkInOrder(r) ==
  \A i, j \in DOMAIN out[r] :
    i < j => Precedes(out[r][i].event, out[r][j].event) \/ (out[r][i].lane = 0 /\ out[r][j].lane # 0)

Ordered ==
  /\ \A l \in DOMAIN lanes : QueueInOrder(l)
  /\ \A l \in Lanes(crossbar) : Ahead(l)
  /\ \A r \in RouteId : SinkInOrder(r)

\* The event p is logging comes after every other event.
LEMMA NowIsLast ==
  ASSUME Types, History, NEW p \in Producers, NEW e \in Event, Seen(e), e # Now(p)
  PROVE  Precedes(e, Now(p))
  <1>1. e[1] \in Producers /\ e[2] \in 1..MaxEvents /\ e = <<e[1], e[2]>>
    BY DEF Event
  <1>2. sent[p] \in Nat /\ e[2] \in Nat
    BY <1>1, ProducersAreOK, LifecycleAssumption DEF ProducersOK
  <1>3. ASSUME e[1] = p PROVE e[2] < sent[p]
    <2>1. Seen(<<p, e[2]>>) /\ e[2] # sent[p]
      BY <1>1, <1>3 DEF Now
    <2>2. e[2] <= sent[p]
      BY <1>2, <2>1 DEF History
    <2> QED
      BY <1>2, <2>1, <2>2
  <1> QED
    BY <1>3 DEF Precedes, Now

LEMMA QueueTypes ==
  ASSUME Types, NEW l \in DOMAIN lanes
  PROVE  /\ lanes[l].queue \in Seq(Event) /\ lanes[l].route \in RouteId
         /\ DOMAIN lanes[l].queue = 1..Len(lanes[l].queue) /\ Len(lanes[l].queue) \in Nat
         /\ \A k \in DOMAIN lanes[l].queue : /\ lanes[l].queue[k] \in Event /\ Seen(lanes[l].queue[k])
                                             /\ InQueue(lanes[l].queue[k], l)
  <1>1. lanes[l].queue \in Seq(Event) /\ lanes[l].route \in RouteId
    BY HeapIsOK, HeapTypes DEF LaneType
  <1> QED
    BY <1>1, SeqIsFunction DEF Seen, InQueue

LEMMA SinkTypes ==
  ASSUME Types, NEW r \in RouteId
  PROVE  /\ DOMAIN out[r] = 1..Len(out[r]) /\ Len(out[r]) \in Nat
         /\ \A k \in DOMAIN out[r] : /\ out[r][k].event \in Event /\ Seen(out[r][k].event)
                                     /\ InSink(out[r][k].event, r)
  BY SinksAreOK DEF Entry, Seen, InSink

\* The current lanes are the same ones or all new.
LEMMA CurrentOrNew ==
  ASSUME NEW a, Admins = {a}, Types, [Next]_vars, NEW l \in DOMAIN lanes, l \in Lanes(crossbar)'
  PROVE  l \in Lanes(crossbar)
  <1>1. CASE SameCrossbars
    BY <1>1, CurrentStays
  <1>2. ASSUME NEW old, NEW w, Adds(old, acopy[a], w), NEW z, z = crossbar',
               crossbars'[z].lanes = NewLanes(acopy[a])
        PROVE  FALSE
    <2>1. l \notin Lanes(z)'
      BY <1>2, NewRoutes, LocalTypes
    <2> QED
      BY <1>2, <2>1 DEF Lanes, LanesOf
  <1>3. CASE Rebuilt(a, TRUE) \/ Rebuilt(a, FALSE)
    <2>1. PICK z : z = crossbar' /\ crossbars'[z].lanes = NewLanes(acopy[a])
      BY <1>3 DEF Rebuilt, pipelineVars, LanesOf
    <2> QED
      BY <1>2, <1>3, <2>1 DEF Rebuilt
  <1>4. CASE Renewed(a)
    <2>1. PICK z : z = crossbar' /\ crossbars'[z].lanes = NewLanes(acopy[a])
      BY <1>4 DEF Renewed
    <2> QED
      BY <1>2, <1>4, <2>1 DEF Renewed
  <1> QED
    BY <1>1, <1>3, <1>4, CrossbarSteps

LEMMA WriteKeepsOrder ==
  ASSUME NEW a, Admins = {a}, Types, Steady(a), RoutesDistinct, Ordered, [Next]_vars,
         NEW m \in DOMAIN lanes, WorkerWrites(m)
  PROVE  Ordered'
  <1> DEFINE q == lanes[m].queue
             r == lanes[m].route
  <1>1. /\ DOMAIN lanes' = DOMAIN lanes /\ UNCHANGED <<crossbar, crossbars>>
        /\ lanes[m].worker = "run" /\ r \in RouteId
        /\ DOMAIN q = 1..Len(q) /\ Len(q) \in Nat \ {0} /\ 1 \in DOMAIN q
        /\ DOMAIN lanes'[m].queue = 1..(Len(q) - 1)
        /\ \A k \in 1..(Len(q) - 1) : lanes'[m].queue[k] = q[k + 1]
        /\ \A l \in DOMAIN lanes \ {m} : lanes'[l].queue = lanes[l].queue
        /\ m \in Nat \ {0}
        /\ \A s \in RouteId \ {r} : out'[s] = out[s]
    BY WriteQueues
  <1>2. /\ DOMAIN out'[r] = 1..(Len(out[r]) + 1) /\ DOMAIN out[r] = 1..Len(out[r]) /\ Len(out[r]) \in Nat
        /\ \A k \in DOMAIN out[r] : out'[r][k] = out[r][k]
        /\ out'[r][Len(out[r]) + 1].event = q[1] /\ out'[r][Len(out[r]) + 1].lane = m
    <2>1. /\ out[r] \in Seq(Entry) /\ DOMAIN out[r] = 1..Len(out[r]) /\ Len(out[r]) \in Nat
          /\ out'[r] = Append(out[r], [event |-> q[1], lane |-> m])
          /\ [event |-> q[1], lane |-> m] \in Entry
      BY WriteQueues, SinksAreOK
    <2> HIDE DEF q, r
    <2>2. /\ DOMAIN out'[r] = 1..(Len(out[r]) + 1)
          /\ \A k \in DOMAIN out[r] : out'[r][k] = out[r][k]
          /\ out'[r][Len(out[r]) + 1] = [event |-> q[1], lane |-> m]
      BY <2>1, AppendElements
    <2> QED
      BY <2>1, <2>2
  <1>3. m \in Lanes(crossbar) /\ Lanes(crossbar)' = Lanes(crossbar) /\ Lanes(crossbar) \subseteq DOMAIN lanes
    BY SMTT(20), <1>1, HeapIsOK, HeapTypes, LocalTypes DEF Steady, WorkersOK, Lanes, LanesOf
  <1>4. \A l \in DOMAIN lanes : lanes'[l].route = lanes[l].route /\ lanes[l].route \in RouteId
    BY HeapStep, QueueTypes DEF HeapGrows
  <1>5. ASSUME NEW l \in Lanes(crossbar), lanes[l].route = r PROVE l = m
    <2>1. PICK i \in DOMAIN LanesOf(crossbar), j \in DOMAIN LanesOf(crossbar) :
            l = LanesOf(crossbar)[i] /\ m = LanesOf(crossbar)[j]
      BY <1>3 DEF Lanes
    <2>2. Distinct(RoutesOf(crossbar))
      BY LocalTypes DEF RoutesDistinct
    <2>3. i = j
      BY <1>5, <2>1, <2>2 DEF Distinct, RoutesOf
    <2> QED
      BY <2>1, <2>3
  <1>6. QueueInOrder(m) /\ Ahead(m)
    BY <1>3 DEF Ordered
  <1>7. QueueInOrder(m)'
    <2> SUFFICES ASSUME NEW i \in 1..(Len(q) - 1), NEW j \in 1..(Len(q) - 1), i < j
                 PROVE  Precedes(lanes'[m].queue[i], lanes'[m].queue[j])
      BY <1>1 DEF QueueInOrder, Precedes
    <2>1. i + 1 \in DOMAIN q /\ j + 1 \in DOMAIN q /\ i + 1 < j + 1
      BY <1>1
    <2>2. Precedes(q[i + 1], q[j + 1])
      BY <1>6, <2>1 DEF QueueInOrder
    <2> QED
      BY <1>1, <2>2
  <1>8. \A l \in DOMAIN lanes' : QueueInOrder(l)'
    BY ZenonT(40), <1>1, <1>7 DEF Ordered, QueueInOrder, Precedes
  <1>9. Ahead(m)'
    <2> SUFFICES ASSUME NEW k \in DOMAIN out'[r], NEW i \in 1..(Len(q) - 1), out'[r][k].lane # 0
                 PROVE  Precedes(out'[r][k].event, lanes'[m].queue[i])
      BY <1>1, <1>4 DEF Ahead, Precedes
    <2>1. lanes'[m].queue[i] = q[i + 1] /\ i + 1 \in DOMAIN q /\ 1 < i + 1
      BY <1>1
    <2>2. CASE k \in DOMAIN out[r]
      BY <1>2, <1>6, <2>1, <2>2 DEF Ahead
    <2>3. CASE k = Len(out[r]) + 1
      BY <1>1, <1>2, <1>6, <2>1, <2>3 DEF QueueInOrder
    <2> QED
      BY <1>2, <2>2, <2>3
  <1>10. ASSUME NEW l \in Lanes(crossbar), l # m PROVE Ahead(l)'
    <2>1. lanes[l].route # r
      BY <1>5, <1>10
    <2>2. out'[lanes[l].route] = out[lanes[l].route] /\ lanes'[l].queue = lanes[l].queue
      BY <1>1, <1>3, <1>4, <1>10, <2>1
    <2> QED
      BY <1>3, <1>4, <2>2 DEF Ordered, Ahead, Precedes
  <1>11. ASSUME NEW s \in RouteId, s = r PROVE SinkInOrder(s)'
    <2> SUFFICES ASSUME NEW i \in DOMAIN out'[s], NEW j \in DOMAIN out'[s], i < j
                 PROVE  \/ Precedes(out'[s][i].event, out'[s][j].event)
                        \/ out'[s][i].lane = 0 /\ out'[s][j].lane # 0
      BY DEF SinkInOrder, Precedes
    <2>0. /\ DOMAIN out'[s] = 1..(Len(out[s]) + 1) /\ DOMAIN out[s] = 1..Len(out[s]) /\ Len(out[s]) \in Nat
          /\ \A k \in DOMAIN out[s] : out'[s][k] = out[s][k]
          /\ out'[s][Len(out[s]) + 1].event = q[1] /\ out'[s][Len(out[s]) + 1].lane = m
      BY <1>2, <1>11
    <2>1. CASE j \in DOMAIN out[s]
      <3>1. i \in DOMAIN out[s]
        BY <2>0, <2>1
      <3> QED
        BY <2>0, <2>1, <3>1 DEF Ordered, SinkInOrder
    <2>2. CASE j = Len(out[s]) + 1
      <3>1. i \in DOMAIN out[s]
        BY <2>0, <2>2
      <3>2. out[s][i].lane # 0 => Precedes(out[s][i].event, q[1])
        BY <1>1, <1>6, <1>11, <3>1 DEF Ahead
      <3> QED
        BY <1>1, <2>0, <2>2, <3>1, <3>2
    <2> QED
      BY <2>0, <2>1, <2>2
  <1>12. ASSUME NEW s \in RouteId, s # r PROVE SinkInOrder(s)'
    BY <1>1, <1>12 DEF Ordered, SinkInOrder, Precedes
  <1>13. \A s \in RouteId : SinkInOrder(s)'
    BY <1>11, <1>12
  <1> QED
    BY <1>3, <1>8, <1>9, <1>10, <1>13 DEF Ordered

LEMMA PushKeepsOrder ==
  ASSUME NEW a, Admins = {a}, Types, History, Ordered, [Next]_vars,
         NEW p \in Producers, Push(p), Pending(p)
  PROVE  Ordered'
  <1>1. /\ DOMAIN lanes' = DOMAIN lanes /\ Now(p) \in Event /\ Head(todo[p]) \in DOMAIN lanes
        /\ todo[p] # <<>> /\ UNCHANGED out /\ UNCHANGED <<crossbar, crossbars>>
        /\ \A l \in DOMAIN lanes :
              \/ lanes'[l].queue = lanes[l].queue
              \/ l = Head(todo[p]) /\ lanes'[l].queue = Append(lanes[l].queue, Now(p))
    BY PushQueues
  <1>2. Absent(Now(p), lanes[Head(todo[p])].route)
    BY <1>1, HeadAndTail, LocalTypes DEF Pending
  <1>3. \A l \in DOMAIN lanes : lanes'[l].route = lanes[l].route /\ lanes[l].route \in RouteId
    BY HeapStep, QueueTypes DEF HeapGrows
  <1>4. Lanes(crossbar)' = Lanes(crossbar) /\ Lanes(crossbar) \subseteq DOMAIN lanes
    BY <1>1, HeapIsOK, HeapTypes, LocalTypes DEF Lanes, LanesOf
  <1>5. ASSUME NEW l \in DOMAIN lanes, l = Head(todo[p]),
               lanes'[l].queue = Append(lanes[l].queue, Now(p))
        PROVE  /\ DOMAIN lanes'[l].queue = 1..(Len(lanes[l].queue) + 1)
               /\ DOMAIN lanes[l].queue = 1..Len(lanes[l].queue) /\ Len(lanes[l].queue) \in Nat
               /\ \A k \in DOMAIN lanes[l].queue : /\ lanes'[l].queue[k] = lanes[l].queue[k]
                                                   /\ Precedes(lanes[l].queue[k], Now(p))
               /\ lanes'[l].queue[Len(lanes[l].queue) + 1] = Now(p)
               /\ \A k \in DOMAIN out[lanes[l].route] : Precedes(out[lanes[l].route][k].event, Now(p))
    <2>1. /\ DOMAIN lanes'[l].queue = 1..(Len(lanes[l].queue) + 1)
          /\ DOMAIN lanes[l].queue = 1..Len(lanes[l].queue) /\ Len(lanes[l].queue) \in Nat
          /\ \A k \in 1..Len(lanes[l].queue) : lanes'[l].queue[k] = lanes[l].queue[k]
          /\ lanes'[l].queue[Len(lanes[l].queue) + 1] = Now(p)
      BY <1>1, <1>5, QueueTypes, AppendElements
    <2>2. ASSUME NEW k \in DOMAIN lanes[l].queue PROVE Precedes(lanes[l].queue[k], Now(p))
      <3>1. lanes[l].queue[k] \in Event /\ Seen(lanes[l].queue[k]) /\ InQueue(lanes[l].queue[k], l)
        BY QueueTypes
      <3>2. lanes[l].queue[k] # Now(p)
        BY <1>2, <1>5, <3>1 DEF Absent
      <3> QED
        BY <3>1, <3>2, NowIsLast
    <2>3. ASSUME NEW k \in DOMAIN out[lanes[l].route]
          PROVE  Precedes(out[lanes[l].route][k].event, Now(p))
      <3>1. /\ out[lanes[l].route][k].event \in Event /\ Seen(out[lanes[l].route][k].event)
            /\ InSink(out[lanes[l].route][k].event, lanes[l].route)
        BY <1>3, SinkTypes
      <3>2. out[lanes[l].route][k].event # Now(p)
        BY <1>2, <1>5, <3>1 DEF Absent
      <3> QED
        BY <3>1, <3>2, NowIsLast
    <2> QED
      BY <2>1, <2>2, <2>3
  <1>6. ASSUME NEW l \in DOMAIN lanes PROVE QueueInOrder(l)'
    <2>0. QueueInOrder(l)
      BY DEF Ordered
    <2>1. CASE lanes'[l].queue = lanes[l].queue
      BY <2>0, <2>1 DEF QueueInOrder, Precedes
    <2>2. CASE l = Head(todo[p]) /\ lanes'[l].queue = Append(lanes[l].queue, Now(p))
      <3> SUFFICES ASSUME NEW i \in DOMAIN lanes'[l].queue, NEW j \in DOMAIN lanes'[l].queue, i < j
                   PROVE  Precedes(lanes'[l].queue[i], lanes'[l].queue[j])
        BY DEF QueueInOrder, Precedes
      <3>1. i \in DOMAIN lanes[l].queue /\ (j \in DOMAIN lanes[l].queue \/ j = Len(lanes[l].queue) + 1)
        BY SMTT(20), <1>5, <2>2
      <3>2. CASE j \in DOMAIN lanes[l].queue
        BY <1>5, <2>0, <2>2, <3>1, <3>2 DEF QueueInOrder
      <3>3. CASE j = Len(lanes[l].queue) + 1
        BY <1>5, <2>2, <3>1, <3>3
      <3> QED
        BY <3>1, <3>2, <3>3
    <2> QED
      BY <1>1, <2>1, <2>2
  <1>7. ASSUME NEW l \in Lanes(crossbar) PROVE Ahead(l)'
    <2>0. Ahead(l) /\ l \in DOMAIN lanes /\ lanes'[l].route = lanes[l].route
      BY <1>3, <1>4 DEF Ordered
    <2>1. CASE lanes'[l].queue = lanes[l].queue
      BY <1>1, <2>0, <2>1 DEF Ahead, Precedes
    <2>2. CASE l = Head(todo[p]) /\ lanes'[l].queue = Append(lanes[l].queue, Now(p))
      <3> SUFFICES ASSUME NEW k \in DOMAIN out[lanes[l].route], NEW j \in DOMAIN lanes'[l].queue,
                          out[lanes[l].route][k].lane # 0
                   PROVE  Precedes(out[lanes[l].route][k].event, lanes'[l].queue[j])
        BY <1>1, <2>0 DEF Ahead, Precedes
      <3>1. j \in DOMAIN lanes[l].queue \/ j = Len(lanes[l].queue) + 1
        BY <1>5, <2>0, <2>2
      <3>2. CASE j \in DOMAIN lanes[l].queue
        BY <1>5, <2>0, <2>2, <3>2 DEF Ahead
      <3>3. CASE j = Len(lanes[l].queue) + 1
        BY <1>5, <2>0, <2>2, <3>3
      <3> QED
        BY <3>1, <3>2, <3>3
    <2> QED
      BY <1>1, <2>0, <2>1, <2>2
  <1>8. \A r \in RouteId : SinkInOrder(r)'
    BY <1>1 DEF Ordered, SinkInOrder, Precedes
  <1> QED
    BY <1>1, <1>4, <1>6, <1>7, <1>8 DEF Ordered

LEMMA OthersKeepOrder ==
  ASSUME NEW a, Admins = {a}, Types, History, Ordered, [Next]_vars, QueuesShrink,
         \A m \in DOMAIN lanes : ~WorkerWrites(m), \A p \in Producers : Unwritten(p)
  PROVE  Ordered'
  <1>1. ASSUME NEW r \in RouteId, NEW k \in DOMAIN out'[r]
        PROVE  \/ k \in DOMAIN out[r] /\ out'[r][k] = out[r][k]
               \/ /\ k = Len(out[r]) + 1 /\ out'[r][k].lane = 0
                  /\ \A i \in DOMAIN out[r] : Precedes(out[r][i].event, out'[r][k].event)
    <2>1. ASSUME NEW p \in Producers, Writes(p, r), NEW i \in DOMAIN out[r]
          PROVE  Precedes(out[r][i].event, Now(p))
      <3>1. ~InSink(Now(p), r)
        <4>1. 1 \in DOMAIN copied[p] /\ r = copied[p][1]
          BY <2>1, LocalTypes, HeadAndTail DEF Writes
        <4> QED
          BY <4>1 DEF Unwritten, Absent
      <3>2. out[r][i].event \in Event /\ Seen(out[r][i].event)
        BY SinkTypes
      <3>3. out[r][i].event # Now(p)
        BY <2>1, <3>1 DEF InSink
      <3> QED
        BY <3>2, <3>3, NowIsLast
    <2>2. \/ k \in DOMAIN out[r] /\ out'[r][k] = out[r][k]
          \/ /\ k = Len(out[r]) + 1
             /\ \E p \in Producers : Writes(p, r) /\ out'[r][k].event = Now(p) /\ out'[r][k].lane = 0
      BY InSinkStep
    <2> QED
      BY <2>1, <2>2
  <1>2. ASSUME NEW l \in DOMAIN lanes' PROVE QueueInOrder(l)'
    <2>1. CASE lanes'[l].queue = <<>>
      BY <2>1, EmptySeq DEF QueueInOrder
    <2>2. CASE l \in DOMAIN lanes /\ lanes'[l].queue = lanes[l].queue
      BY <2>2 DEF Ordered, QueueInOrder, Precedes
    <2> QED
      BY <2>1, <2>2 DEF QueuesShrink
  <1>3. ASSUME NEW l \in DOMAIN lanes', l \in Lanes(crossbar)' PROVE Ahead(l)'
    <2>1. CASE lanes'[l].queue = <<>>
      BY <2>1, EmptySeq DEF Ahead
    <2>2. CASE l \in DOMAIN lanes /\ lanes'[l].queue = lanes[l].queue
      <3>1. lanes'[l].route = lanes[l].route /\ lanes[l].route \in RouteId
        BY <2>2, HeapStep, QueueTypes DEF HeapGrows
      <3>2. Ahead(l)
        BY <1>3, <2>2, CurrentOrNew DEF Ordered
      <3> SUFFICES ASSUME NEW k \in DOMAIN out'[lanes[l].route], NEW j \in DOMAIN lanes[l].queue,
                          out'[lanes[l].route][k].lane # 0
                   PROVE  Precedes(out'[lanes[l].route][k].event, lanes[l].queue[j])
        BY <2>2, <3>1 DEF Ahead, Precedes
      <3>3. k \in DOMAIN out[lanes[l].route] /\ out'[lanes[l].route][k] = out[lanes[l].route][k]
        BY <1>1, <3>1
      <3> QED
        BY <3>2, <3>3 DEF Ahead
    <2> QED
      BY <2>1, <2>2 DEF QueuesShrink
  <1>4. ASSUME NEW r \in RouteId PROVE SinkInOrder(r)'
    <2> SUFFICES ASSUME NEW i \in DOMAIN out'[r], NEW j \in DOMAIN out'[r], i < j
                 PROVE  \/ Precedes(out'[r][i].event, out'[r][j].event)
                        \/ out'[r][i].lane = 0 /\ out'[r][j].lane # 0
      BY DEF SinkInOrder, Precedes
    <2>0. DOMAIN out[r] = 1..Len(out[r]) /\ Len(out[r]) \in Nat /\ i \in Nat /\ j \in Nat
      <3>1. out'[r] \in Seq(Entry)
        BY SinksStep DEF SinksOK
      <3>2. DOMAIN out'[r] = 1..Len(out'[r]) /\ Len(out'[r]) \in Nat
        BY <3>1, SeqIsFunction
      <3> QED
        BY <3>2, SinkTypes
    <2>1. CASE j \in DOMAIN out[r] /\ out'[r][j] = out[r][j]
      <3>1. i # Len(out[r]) + 1
        BY <2>0, <2>1
      <3>2. i \in DOMAIN out[r] /\ out'[r][i] = out[r][i]
        BY <1>1, <3>1
      <3> QED
        BY <2>1, <3>2 DEF Ordered, SinkInOrder
    <2>2. CASE /\ j = Len(out[r]) + 1
               /\ \A n \in DOMAIN out[r] : Precedes(out[r][n].event, out'[r][j].event)
      <3>1. i # Len(out[r]) + 1
        BY <2>0, <2>2
      <3>2. i \in DOMAIN out[r] /\ out'[r][i] = out[r][i]
        BY <1>1, <3>1
      <3> QED
        BY <2>2, <3>2
    <2> QED
      BY <1>1, <2>1, <2>2
  <1>5. Lanes(crossbar)' \subseteq DOMAIN lanes'
    <2>1. HeapOK'
      BY HeapStep DEF HeapGrows
    <2>2. LanesOf(crossbar)' \in Seq(DOMAIN lanes')
      <3>1. crossbars' \in Seq(CrossbarType') /\ crossbar' \in DOMAIN crossbars'
        BY <2>1 DEF HeapOK
      <3>2. PICK x \in DOMAIN crossbars' : x = crossbar'
        BY <3>1
      <3>3. crossbars'[x] \in CrossbarType'
        BY <3>1, SeqIsFunction
      <3>4. crossbars'[x].lanes \in Seq(DOMAIN lanes')
        BY <3>3 DEF CrossbarType
      <3> QED
        BY <3>2, <3>4 DEF LanesOf
    <2> QED
      BY <2>2, SeqIsFunction DEF Lanes
  <1> QED
    BY <1>2, <1>3, <1>4, <1>5 DEF Ordered

InOrder == RoutesDistinct /\ (\A p \in Producers : Pending(p) /\ Unwritten(p)) /\ Ordered

\* A producer's events reach each sink in the order they were logged, across rebuilt, stopped
\* and replaced lanes and with any number of producers; only an event that was written
\* synchronously may overtake events that are still queued (SinkCrossbar::submit, lane_loop_
\* and dispatch_sync_).
THEOREM SinksAreInOrder ==
  ASSUME NEW a, Admins = {a}
  PROVE  Spec => []RouteOrder
  <1>1. Init => InOrder
    <2> SUFFICES ASSUME Init PROVE InOrder
      OBVIOUS
    <2>1. /\ routes = <<>> /\ lanes = <<>> /\ LanesOf(crossbar) = <<>> /\ crossbar = 1 /\ DOMAIN crossbars = {1}
          /\ \A p \in Producers : todo[p] = <<>> /\ copied[p] = <<>>
          /\ \A r \in RouteId : out[r] = <<>>
      BY DEF Init, LanesOf
    <2>2. RoutesDistinct
      BY <2>1, EmptySeq DEF RoutesDistinct, Distinct, RoutesOf
    <2>3. \A p \in Producers : Pending(p) /\ Unwritten(p)
      BY <2>1, EmptySeq DEF Pending, Unwritten, Distinct
    <2>4. Lanes(crossbar) = {} /\ DOMAIN lanes = {}
      BY <2>1, EmptySeq DEF Lanes
    <2>5. Ordered
      BY <2>1, <2>4, EmptySeq DEF Ordered, SinkInOrder
    <2> QED
      BY <2>2, <2>3, <2>5 DEF InOrder
  <1>2. Types /\ History /\ Steady(a) /\ Matching(a) /\ InOrder /\ [Next]_vars => InOrder'
    <2> SUFFICES ASSUME Types, History, Steady(a), Matching(a), InOrder, [Next]_vars PROVE InOrder'
      OBVIOUS
    <2>1. RoutesDistinct'
      BY RoutesDistinctStep DEF InOrder, Steady
    <2>2. ASSUME NEW p \in Producers PROVE Pending(p)' /\ Unwritten(p)'
      BY PendingStep, UnwrittenStep DEF InOrder
    <2>3. Ordered'
      BY QueueStep, WriteKeepsOrder, PushKeepsOrder, OthersKeepOrder DEF InOrder
    <2> QED
      BY <2>1, <2>2, <2>3 DEF InOrder
  <1>3. Types /\ InOrder => RouteOrder
    <2> SUFFICES ASSUME Types, InOrder, NEW r \in RouteId, NEW i \in DOMAIN out[r], NEW j \in DOMAIN out[r],
                        i < j, out[r][i].event[1] = out[r][j].event[1],
                        out[r][i].event[2] >= out[r][j].event[2]
                 PROVE  out[r][i].lane = 0 /\ out[r][j].lane # 0
      BY DEF RouteOrder
    <2>1. out[r][i].event[2] \in Nat /\ out[r][j].event[2] \in Nat
      BY SinkTypes, LifecycleAssumption DEF Event
    <2>2. ~Precedes(out[r][i].event, out[r][j].event)
      BY <2>1 DEF Precedes
    <2> QED
      BY <2>2 DEF InOrder, Ordered, SinkInOrder
  <1> QED
    BY <1>1, <1>2, <1>3, TypesInvariant, HistoryInvariant, SteadyInvariant, MatchingInvariant, PTL DEF Spec
=============================================================================
