------------------------- MODULE DispatchAgentProofs -------------------------
(***************************************************************************)
(* Proofs about DispatchAgent, for every set of calls, queue capacity,     *)
(* restart ceiling and number of faults.                                   *)
(***************************************************************************)
EXTENDS DispatchAgent, SequenceTheorems, TLAPS

(***************************************************************************)
(* Positions in a queue that grew by a task or lost its head.              *)
(***************************************************************************)

LEMMA PosAppend ==
    ASSUME NEW S, NEW q \in Seq(S), NEW t \in S, NEW u
    PROVE  Pos(Append(q, t), u) = Pos(q, u) \cup (IF u = t THEN {Len(q) + 1} ELSE {})
<1>1. /\ Append(q, t) \in Seq(S)
      /\ Len(Append(q, t)) = Len(q) + 1
      /\ DOMAIN Append(q, t) = 1..(Len(q) + 1)
      /\ \A i \in 1..Len(q) : Append(q, t)[i] = q[i]
      /\ Append(q, t)[Len(q) + 1] = t
  BY AppendProperties
<1>2. Len(q) \in Nat /\ DOMAIN q = 1..Len(q)
  BY LenProperties
<1>3. \A i \in DOMAIN Append(q, t) : i \in DOMAIN q \/ i = Len(q) + 1
  BY <1>1, <1>2
<1> QED
  BY <1>1, <1>2, <1>3 DEF Pos

LEMMA PosTail ==
    ASSUME NEW S, NEW q \in Seq(S), q # <<>>, NEW u
    PROVE  /\ Pos(Tail(q), u) = {i \in Nat \ {0} : i + 1 \in Pos(q, u)}
           /\ 1 \in Pos(q, u) <=> u = Head(q)
<1>1. /\ Head(q) = q[1]
      /\ Tail(q) \in Seq(S)
      /\ Len(Tail(q)) = Len(q) - 1
      /\ \A i \in 1..Len(Tail(q)) : Tail(q)[i] = q[i + 1]
  BY HeadTailProperties
<1>2. Len(q) \in Nat \ {0} /\ DOMAIN q = 1..Len(q) /\ DOMAIN Tail(q) = 1..(Len(q) - 1)
  BY <1>1, LenProperties, EmptySeq
<1>3. \A i : i \in 1..(Len(q) - 1) <=> i \in Nat \ {0} /\ i + 1 \in 1..Len(q)
  BY <1>2
<1>4. \A i : i \in Pos(Tail(q), u) <=> i \in Nat \ {0} /\ i + 1 \in Pos(q, u)
  BY <1>1, <1>2, <1>3 DEF Pos
<1> QED
  BY <1>1, <1>2, <1>4 DEF Pos

(***************************************************************************)
(* Tasks are told apart by their type and their call.                      *)
(***************************************************************************)

LEMMA TaskFacts ==
    /\ \A c, d : /\ P1(c) # P2(d)
                 /\ P1(c) = P1(d) => c = d
                 /\ P2(c) = P2(d) => c = d
    /\ \A c : /\ P1(c).type = "phase1" /\ P1(c).call = c
              /\ P2(c).type = "phase2" /\ P2(c).call = c
              /\ P1(c) # Pill /\ P2(c) # Pill
              /\ P1(c) # Nothing /\ P2(c) # Nothing
    /\ Pill # Nothing
    /\ Pill.type # "phase2" /\ Nothing.type # "phase2"
  BY DEF P1, P2, Pill, Nothing

LEMMA TaskCases ==
    /\ \A c \in Calls : P1(c) \in Tasks /\ P2(c) \in Tasks
    /\ \A t \in Tasks : /\ t.call \in Calls
                        /\ t # Pill /\ t # Nothing
                        /\ t.type = "phase2" => t = P2(t.call)
                        /\ t.type # "phase2" => t = P1(t.call)
  BY TaskFacts DEF Tasks

(***************************************************************************)
(* Type correctness.  It needs to know that a listener that is capturing   *)
(* has a call, and that a busy worker has a task.                          *)
(***************************************************************************)

TypeInv ==
    /\ TypeOK
    /\ ListenerBusy <=> cap # NoCall

USE DEF listener, worker, supervisor, shutdown, history, HasRoom, Put, WithPill

LEMMA InitTypeInv == Init => TypeInv
<1>1. /\ <<>> \in Seq(Tasks \cup {Pill})
      /\ <<>> \in Seq(Calls)
      /\ Len(<<>>) = 0
  BY EmptySeq
<1>2. "unheard" \in Stages
  BY DEF Stages
<1> SUFFICES ASSUME Init PROVE TypeInv
  OBVIOUS
<1>3. stage \in [Calls -> Stages]
  BY <1>2 DEF Init
<1>4. checks \in 0..MaxChecks /\ recent \in 0..MaxRestarts /\ Len(queue) <= QMax
  BY <1>1, ConstantsOK DEF Init
<1>5. epoch \in Nat /\ awaited \in Nat /\ faults \in Nat
  BY DEF Init
<1>6. ListenerBusy <=> cap # NoCall
  BY DEF Init, ListenerBusy
<1> QED
  BY <1>1, <1>3, <1>4, <1>5, <1>6, Zenon DEF Init, TypeInv, TypeOK, Alive

LEMMA StageType ==
    ASSUME NEW f \in [Calls -> Stages], NEW c \in Calls, NEW s \in Stages
    PROVE  [f EXCEPT ![c] = s] \in [Calls -> Stages]
  OBVIOUS

LEMMA NextTypeInv == TypeInv /\ [Next]_vars => TypeInv'
<1> SUFFICES ASSUME TypeInv, [Next]_vars
             PROVE  TypeInv'
  OBVIOUS
<1> USE ConstantsOK DEF TypeInv, TypeOK, ListenerBusy
<1>a. ListenerBusy => cap \in Calls
  OBVIOUS
<1>b. \A t \in Tasks \cup {Pill} : /\ Append(queue, t) \in Seq(Tasks \cup {Pill})
                                   /\ Len(Append(queue, t)) = Len(queue) + 1
  BY AppendProperties
<1>c. queue # <<>> => /\ Tail(queue) \in Seq(Tasks \cup {Pill})
                      /\ Len(Tail(queue)) <= QMax
                      /\ Head(queue) \in Tasks \cup {Pill}
  BY HeadTailProperties, LenProperties
<1>d. Len(queue) \in Nat
  BY LenProperties
<1>1. CASE HearSound
  BY <1>1 DEF HearSound
<1>2. CASE RejectTone
  BY <1>2 DEF RejectTone
<1>3. ASSUME NEW c \in Calls, ConfirmTone(c)
      PROVE  TypeInv'
  BY <1>3, AppendProperties DEF ConfirmTone, Stages
<1>4. CASE OfferPhase1
  BY <1>4, <1>a, <1>b, <1>d, TaskCases DEF OfferPhase1
<1>5. CASE EndCapture
  BY <1>5, <1>a DEF EndCapture, Stages
<1>g. ASSUME cap \in Calls, NEW s \in {"queued", "refused"}, HandedOff(s)
      PROVE  /\ lst' = "idle" /\ cap' = NoCall /\ checks' \in 0..MaxChecks
             /\ stage' \in [Calls -> Stages]
  <2>1. s \in Stages
    BY DEF Stages, Settled
  <2> QED
    BY <1>g, <2>1, StageType DEF HandedOff
<1>6. CASE OfferPhase2
  <2>1. CASE HasRoom
    <3>1. cap \in Calls /\ HandedOff("queued") /\ queue' = Append(queue, P2(cap))
      BY <1>6, <2>1, <1>a DEF OfferPhase2
    <3>2. /\ lst' = "idle" /\ cap' = NoCall /\ checks' \in 0..MaxChecks
          /\ stage' \in [Calls -> Stages]
      BY <3>1, <1>g
    <3>3. queue' \in Seq(Tasks \cup {Pill}) /\ Len(queue') <= QMax
      BY <3>1, <2>1, <1>b, <1>d, TaskCases
    <3> QED
      BY <1>6, <3>2, <3>3 DEF OfferPhase2
  <2>2. CASE ~HasRoom
    BY <1>6, <2>2, <1>a DEF OfferPhase2
  <2> QED
    BY <2>1, <2>2
<1>h. queue # <<>> /\ Head(queue).type = "phase2" => Head(queue).call \in Calls
  BY <1>c, TaskCases, TaskFacts
<1>7. CASE MakeRoom
  <2>1. /\ queue' \in Seq(Tasks \cup {Pill})
        /\ Len(queue') <= QMax
    BY <1>7, <1>c DEF MakeRoom
  <2>2. stage' \in [Calls -> Stages]
    <3>1. "displaced" \in Stages
      BY DEF Stages, Settled
    <3> QED
      BY <1>7, <1>h, <3>1, StageType DEF MakeRoom
  <2> QED
    BY <1>7, <1>a, <2>1, <2>2 DEF MakeRoom
<1>8. CASE RetryPhase2
  <2>1. CASE HasRoom
    <3>1. cap \in Calls /\ HandedOff("queued") /\ queue' = Append(queue, P2(cap))
      BY <1>8, <2>1, <1>a DEF RetryPhase2
    <3>2. /\ lst' = "idle" /\ cap' = NoCall /\ checks' \in 0..MaxChecks
          /\ stage' \in [Calls -> Stages]
      BY <3>1, <1>g
    <3>3. queue' \in Seq(Tasks \cup {Pill}) /\ Len(queue') <= QMax
      BY <3>1, <2>1, <1>b, <1>d, TaskCases
    <3> QED
      BY <1>8, <3>2, <3>3 DEF RetryPhase2
  <2>2. CASE ~HasRoom
    BY <1>8, <2>2, <1>a, <1>g DEF RetryPhase2, HandedOff
  <2> QED
    BY <2>1, <2>2
<1>9. CASE StopListening
  BY <1>9 DEF StopListening
<1>10. CASE ListenerRaises
  <2>1. stage' \in [Calls -> Stages]
    <3>1. "cut" \in Stages
      BY DEF Stages, Settled
    <3> QED
      BY <1>10, <3>1, StageType DEF ListenerRaises
  <2> QED
    BY <1>10, <2>1 DEF ListenerRaises
<1>11. CASE WorkerBoots
  BY <1>11 DEF WorkerBoots, Alive
<1>12. CASE WorkerWaits
  BY <1>12 DEF WorkerWaits, Alive
<1>13. CASE WorkerTakes
  <2>1. /\ wk' \in Alive \cup {"exited", "dead"}
        /\ cur' \in Tasks \cup {Nothing}
        /\ rlock' \in {"free", "held", "orphaned"}
    BY <1>13, <1>c DEF WorkerTakes, Alive
  <2>2. stage' \in [Calls -> Stages]
    <3>1. "working" \in Stages
      BY DEF Stages
    <3> QED
      <4>1. CASE stage' = stage
        BY <4>1
      <4>2. CASE /\ Head(queue).type = "phase2"
                 /\ stage' = [stage EXCEPT ![Head(queue).call] = "working"]
        BY <1>13, <1>h, <3>1, <4>2, StageType DEF WorkerTakes
      <4> QED
        BY <1>13, <4>1, <4>2 DEF WorkerTakes
  <2> QED
    BY <1>13, <1>c, <2>1, <2>2 DEF WorkerTakes
<1>e. cur.type = "phase2" => cur \in Tasks /\ cur.call \in Calls
  BY TaskCases, TaskFacts
<1>14. CASE WorkerFinishes
  BY <1>14, <1>e DEF WorkerFinishes, Alive, Stages, Settled
<1>f. WorkerDies => /\ wk' = "dead" /\ cur' = Nothing
                    /\ rlock' \in {"free", "held", "orphaned"}
                    /\ stage' \in [Calls -> Stages]
  BY <1>e DEF WorkerDies, Stages, Settled
<1>15. CASE WorkerCrashes
  BY <1>15, <1>f DEF WorkerCrashes
<1>16. CASE SupervisorWakes
  BY <1>16 DEF SupervisorWakes
<1>17. CASE SupervisorLeaves
  BY <1>17 DEF SupervisorLeaves
<1>18. CASE SupervisorGivesUp
  BY <1>18 DEF SupervisorGivesUp
<1>19. CASE SupervisorRespawns
  BY <1>19 DEF SupervisorRespawns, MayRespawn, Alive
<1>20. CASE SpawnFails
  BY <1>20 DEF SpawnFails, MayRespawn, AfterSpawnFailure
<1>21. CASE RestartAges
  BY <1>21 DEF RestartAges
<1>22. CASE Sigterm
  BY <1>22, <1>f DEF Sigterm
<1>23. CASE StopSupervisor
  BY <1>23 DEF StopSupervisor
<1>24. CASE PutPill
  BY <1>24, <1>b, <1>d DEF PutPill
<1>25. CASE CheckWorker
  BY <1>25 DEF CheckWorker
<1>26. CASE JoinReturns
  BY <1>26 DEF JoinReturns
<1>27. CASE TerminateChildren
  BY <1>27, <1>f DEF TerminateChildren
<1>28. CASE Exit
  BY <1>28 DEF Exit
<1>29. CASE Killed
  BY <1>29, EmptySeq DEF Killed, Stages, Settled
<1>30. CASE UNCHANGED vars
  BY <1>30 DEF vars
<1> QED
  BY <1>1, <1>2, <1>3, <1>4, <1>5, <1>6, <1>7, <1>8, <1>9, <1>10, <1>11, <1>12,
     <1>13, <1>14, <1>15, <1>16, <1>17, <1>18, <1>19, <1>20, <1>21, <1>22, <1>23,
     <1>24, <1>25, <1>26, <1>27, <1>28, <1>29, <1>30
  DEF Next, ListenerStep, WorkerStep, SupervisorStep, MainStep

\* The state of DispatchAgent is always of its types.
THEOREM TypeCorrect == Spec => []TypeOK
<1>1. TypeInv => TypeOK
  BY DEF TypeInv
<1> QED
  BY InitTypeInv, NextTypeInv, <1>1, PTL DEF Spec

(***************************************************************************)
(* Where the recordings are.  Placed(c) is what OnePlace and Phase1First   *)
(* say of one call; a step touches the recording of one call at a time, so *)
(* the proof follows a call d through each action.                         *)
(***************************************************************************)

Placed(c) ==
    /\ (cap = c) <=> stage[c] \in {"capturing", "offered"}
    /\ stage[c] = "queued" <=> At(P2(c)) # {}
    /\ \A i, j \in At(P2(c)) : i = j
    /\ stage[c] = "working" <=> cur = P2(c)
    /\ \A i \in At(P1(c)), j \in At(P2(c)) : i < j
    /\ At(P1(c)) # {} \/ cur = P1(c) => stage[c] \notin {"working", "final", "crashed"}

LEMMA PlacedAll == OnePlace /\ Phase1First <=> \A c \in Calls : Placed(c)
  BY DEF OnePlace, Phase1First, Placed

\* The inductive invariant, in the form the steps use.
Inv ==
    /\ TypeInv
    /\ Bookkeeping
    /\ \A c \in Calls : Placed(c)
    /\ wk = "exited" => queue = <<>>

LEMMA InitInv == Init => Inv
<1> SUFFICES ASSUME Init PROVE Inv
  OBVIOUS
<1>1. \A t : At(t) = {}
  BY EmptySeq DEF Init, At, Pos
<1>2. \A c \in Calls : Placed(c)
  BY <1>1, TaskFacts, ConstantsOK DEF Init, Placed
<1>3. Bookkeeping
  BY <1>1 DEF Init, Bookkeeping, ListenerBusy
<1> QED
  BY <1>2, <1>3, InitTypeInv DEF Inv, Init

\* A task is appended: it stands last, everything else where it stood.
LEMMA AppendStep ==
    ASSUME TypeInv, NEW t \in Tasks \cup {Pill}, queue' = Append(queue, t)
    PROVE  /\ Len(queue') = Len(queue) + 1
           /\ \A u : At(u)' = At(u) \cup (IF u = t THEN {Len(queue) + 1} ELSE {})
           /\ \A u : \A i \in At(u) : i \in 1..Len(queue)
<1>1. queue \in Seq(Tasks \cup {Pill})
  BY DEF TypeInv, TypeOK
<1>2. \A u : Pos(Append(queue, t), u) = Pos(queue, u) \cup (IF u = t THEN {Len(queue) + 1} ELSE {})
  BY <1>1, PosAppend
<1>3. Len(queue') = Len(queue) + 1 /\ DOMAIN queue = 1..Len(queue)
  BY <1>1, AppendProperties, LenProperties
<1> QED
  BY <1>2, <1>3 DEF At, Pos

\* The head is taken: everything else moves up by one.
LEMMA TailStep ==
    ASSUME TypeInv, queue # <<>>, queue' = Tail(queue)
    PROVE  /\ Head(queue) \in Tasks \cup {Pill}
           /\ Len(queue') = Len(queue) - 1
           /\ \A u : At(u)' = {i \in Nat \ {0} : i + 1 \in At(u)}
           /\ \A u : 1 \in At(u) <=> u = Head(queue)
           /\ \A u : \A i \in At(u) : i \in 1..Len(queue)
           /\ Len(queue) \in Nat \ {0}
<1>1. queue \in Seq(Tasks \cup {Pill})
  BY DEF TypeInv, TypeOK
<1>2. \A u : /\ Pos(Tail(queue), u) = {i \in Nat \ {0} : i + 1 \in Pos(queue, u)}
             /\ 1 \in Pos(queue, u) <=> u = Head(queue)
  BY <1>1, PosTail
<1>3. /\ Head(queue) \in Tasks \cup {Pill}
      /\ Len(queue') = Len(queue) - 1
      /\ DOMAIN queue = 1..Len(queue)
      /\ Len(queue) \in Nat \ {0}
  BY <1>1, HeadTailProperties, LenProperties, EmptySeq
<1> QED
  BY <1>2, <1>3 DEF At, Pos

\* A step that moves no recording.
LEMMA QuietStep ==
    ASSUME Inv, TypeInv', UNCHANGED <<cap, queue, cur, stage>>
    PROVE  \A c \in Calls : Placed(c)'
  BY DEF Inv, Placed, At, Pos

\* put_nowait of the phase 2 task succeeds.
LEMMA AcceptStep ==
    ASSUME Inv, cap \in Calls, HandedOff("queued"), queue' = Put(P2(cap)), UNCHANGED cur
    PROVE  \A c \in Calls : Placed(c)'
<1> SUFFICES ASSUME NEW c \in Calls PROVE Placed(c)'
  OBVIOUS
<1>1. P2(cap) \in Tasks
  BY TaskCases
<1>2. /\ \A u : At(u)' = At(u) \cup (IF u = P2(cap) THEN {Len(queue) + 1} ELSE {})
      /\ \A u : \A i \in At(u) : i \in 1..Len(queue)
  BY <1>1, AppendStep DEF Inv
<1>3. Len(queue) \in Nat /\ stage \in [Calls -> Stages]
  BY LenProperties DEF Inv, TypeInv, TypeOK
<1>4. Placed(c) /\ Placed(cap)
  BY DEF Inv
<1>5. At(P1(c))' = At(P1(c))
  BY <1>2, TaskFacts
<1>6. CASE c = cap
  <2>1. At(P2(c)) = {} /\ At(P2(c))' = {Len(queue) + 1}
    BY <1>2, <1>4, <1>6 DEF Placed
  <2>2. stage'[c] = "queued" /\ cap' # c /\ stage[c] # "working"
    BY <1>3, <1>4, <1>6, ConstantsOK DEF HandedOff, Placed
  <2> QED
    BY <1>2, <1>3, <1>4, <1>5, <2>1, <2>2 DEF Placed
<1>7. CASE c # cap
  <2>1. At(P2(c))' = At(P2(c))
    BY <1>2, <1>7, TaskFacts
  <2>2. stage'[c] = stage[c] /\ cap' # c /\ cap # c
    BY <1>3, <1>7, ConstantsOK DEF HandedOff
  <2> QED
    BY <1>4, <1>5, <2>1, <2>2 DEF Placed
<1> QED
  BY <1>6, <1>7

\* A phase 1 check is enqueued, or discarded when the queue is full.
LEMMA OfferPhase1Placed ==
    ASSUME Inv, OfferPhase1
    PROVE  \A c \in Calls : Placed(c)'
<1> SUFFICES ASSUME NEW c \in Calls PROVE Placed(c)'
  OBVIOUS
<1>1. cap \in Calls /\ UNCHANGED <<cap, cur, stage>>
  BY DEF Inv, TypeInv, TypeOK, ListenerBusy, OfferPhase1
<1>2. CASE queue' = queue
  BY <1>1, <1>2 DEF Inv, Placed, At, Pos
<1>3. CASE queue' = Append(queue, P1(cap))
  <2>1. /\ \A u : At(u)' = At(u) \cup (IF u = P1(cap) THEN {Len(queue) + 1} ELSE {})
        /\ \A u : \A i \in At(u) : i \in 1..Len(queue)
    BY <1>1, <1>3, TaskCases, AppendStep DEF Inv
  <2>2. Placed(c) /\ Placed(cap)
    BY <1>1 DEF Inv
  <2>3. At(P2(c))' = At(P2(c))
    BY <2>1, TaskFacts
  <2>4. CASE c = cap
    <3>1. stage[c] \in {"capturing", "offered"} /\ At(P2(c)) = {}
      BY <2>2, <2>4 DEF Placed
    <3> QED
      BY <1>1, <2>2, <2>3, <3>1 DEF Placed
  <2>5. CASE c # cap
    <3>1. At(P1(c))' = At(P1(c))
      BY <2>1, <2>5, TaskFacts
    <3> QED
      BY <1>1, <2>2, <2>3, <3>1 DEF Placed
  <2> QED
    BY <2>4, <2>5
<1> QED
  BY <1>2, <1>3 DEF OfferPhase1

\* A task leaves the head of the queue for the worker.
LEMMA TakesPlaced ==
    ASSUME Inv, WorkerTakes
    PROVE  \A c \in Calls : Placed(c)'
<1> SUFFICES ASSUME NEW c \in Calls PROVE Placed(c)'
  OBVIOUS
<1>1. /\ Head(queue) \in Tasks \cup {Pill}
      /\ \A u : At(u)' = {i \in Nat \ {0} : i + 1 \in At(u)}
      /\ \A u : 1 \in At(u) <=> u = Head(queue)
      /\ \A u : \A i \in At(u) : i \in 1..Len(queue)
      /\ Len(queue) \in Nat \ {0}
  BY TailStep DEF Inv, WorkerTakes
<1>2. Placed(c) /\ stage \in [Calls -> Stages] /\ cap' = cap /\ cur = Nothing
  BY DEF Inv, TypeInv, TypeOK, Bookkeeping, WorkerTakes
<1>3. Head(queue) # Pill => Head(queue) \in Tasks /\ cur' = Head(queue)
  BY <1>1 DEF WorkerTakes
<1>4. CASE Head(queue) = P2(c)
  <2>1. stage'[c] = "working" /\ cur' = P2(c) /\ stage[c] = "queued"
    BY <1>1, <1>2, <1>4, TaskFacts DEF WorkerTakes, Placed
  <2>2. At(P2(c))' = {}
    BY <1>1, <1>2, <1>4 DEF Placed
  <2>3. At(P1(c)) = {}
    BY <1>1, <1>2, <1>4, TaskFacts DEF Placed
  <2>4. At(P1(c))' = {}
    BY <1>1, <2>3
  <2> QED
    BY <1>2, <2>1, <2>2, <2>4, TaskFacts DEF Placed
<1>5. CASE Head(queue) # P2(c)
  <2>1. stage'[c] = stage[c] /\ cur' # P2(c)
    BY <1>1, <1>2, <1>3, <1>5, TaskFacts, TaskCases DEF WorkerTakes
  <2>2. At(P2(c))' # {} <=> At(P2(c)) # {}
    <3>1. \A i \in At(P2(c)) : i # 1 /\ i - 1 \in Nat \ {0} /\ (i - 1) + 1 = i
      BY <1>1, <1>5
    <3>2. \A i \in At(P2(c)) : i - 1 \in At(P2(c))'
      BY <1>1, <3>1
    <3> QED
      BY <1>1, <3>2
  <2>3. \A i, j \in At(P2(c))' : i = j
    BY <1>1, <1>2 DEF Placed
  <2>4. \A i \in At(P1(c))', j \in At(P2(c))' : i < j
    BY <1>1, <1>2 DEF Placed
  <2>5. stage[c] # "working"
    BY <1>2, TaskFacts DEF Placed
  <2>6. At(P1(c))' # {} \/ cur' = P1(c) => At(P1(c)) # {}
    <3>1. cur' = P1(c) => 1 \in At(P1(c))
      BY <1>1, <1>2, <1>3, TaskFacts DEF WorkerTakes
    <3> QED
      BY <1>1, <3>1
  <2> QED
    BY <1>2, <2>1, <2>2, <2>3, <2>4, <2>5, <2>6 DEF Placed
<1> QED
  BY <1>4, <1>5

\* get_nowait takes the head away, for nobody.
LEMMA MakeRoomPlaced ==
    ASSUME Inv, MakeRoom
    PROVE  \A c \in Calls : Placed(c)'
<1> SUFFICES ASSUME NEW c \in Calls PROVE Placed(c)'
  OBVIOUS
<1>1. CASE UNCHANGED <<queue, stage>>
  BY <1>1 DEF Inv, MakeRoom, Placed, At, Pos
<1>2. CASE queue # <<>> /\ queue' = Tail(queue)
  <2>1. /\ Head(queue) \in Tasks \cup {Pill}
        /\ \A u : At(u)' = {i \in Nat \ {0} : i + 1 \in At(u)}
        /\ \A u : 1 \in At(u) <=> u = Head(queue)
        /\ \A u : \A i \in At(u) : i \in 1..Len(queue)
        /\ Len(queue) \in Nat \ {0}
    BY <1>2, TailStep DEF Inv
  <2>2. Placed(c) /\ stage \in [Calls -> Stages] /\ UNCHANGED <<cap, cur>>
    BY DEF Inv, TypeInv, TypeOK, MakeRoom
  <2>3. CASE Head(queue) = P2(c)
    <3>1. stage[c] = "queued"
      BY <2>1, <2>2, <2>3 DEF Placed
    <3>2. stage'[c] = "displaced"
      BY <1>2, <2>2, <2>3, <3>1, TaskFacts DEF MakeRoom
    <3>3. At(P2(c))' = {}
      BY <2>1, <2>2, <2>3 DEF Placed
    <3> QED
      BY <2>2, <3>1, <3>2, <3>3 DEF Placed
  <2>4. CASE Head(queue) # P2(c)
    <3>1. stage'[c] = stage[c]
      BY <1>2, <2>1, <2>2, <2>4, TaskFacts, TaskCases DEF MakeRoom
    <3>2. At(P2(c))' # {} <=> At(P2(c)) # {}
      <4>1. \A i \in At(P2(c)) : i # 1 /\ i - 1 \in Nat \ {0} /\ (i - 1) + 1 = i
        BY <2>1, <2>4
      <4>2. \A i \in At(P2(c)) : i - 1 \in At(P2(c))'
        BY <2>1, <4>1
      <4> QED
        BY <2>1, <4>2
    <3>3. \A i, j \in At(P2(c))' : i = j
      BY <2>1, <2>2 DEF Placed
    <3>4. \A i \in At(P1(c))', j \in At(P2(c))' : i < j
      BY <2>1, <2>2 DEF Placed
    <3>5. At(P1(c))' # {} => At(P1(c)) # {}
      BY <2>1
    <3> QED
      BY <2>2, <3>1, <3>2, <3>3, <3>4, <3>5 DEF Placed
  <2> QED
    BY <2>3, <2>4
<1> QED
  BY <1>1, <1>2 DEF MakeRoom

\* The listener's own steps that leave the queue alone.
LEMMA ListenerPlaced ==
    ASSUME Inv, UNCHANGED <<queue, cur>>,
           \/ \E c \in Calls : ConfirmTone(c)
           \/ EndCapture
           \/ cap \in Calls /\ HandedOff("refused")
           \/ ListenerRaises
    PROVE  \A c \in Calls : Placed(c)'
<1> SUFFICES ASSUME NEW d \in Calls PROVE Placed(d)'
  OBVIOUS
<1>1. Placed(d) /\ stage \in [Calls -> Stages] /\ cap \in Calls \cup {NoCall}
  BY DEF Inv, TypeInv, TypeOK
<1>2. At(P1(d))' = At(P1(d)) /\ At(P2(d))' = At(P2(d))
  BY DEF At, Pos
<1>3. ASSUME NEW c \in Calls, ConfirmTone(c)
      PROVE  Placed(d)'
  <2>1. cap = NoCall /\ cap' = c /\ stage[c] = "unheard"
    BY <1>3 DEF ConfirmTone, Inv, TypeInv, ListenerBusy
  <2>2. stage'[d] = IF d = c THEN "capturing" ELSE stage[d]
    BY <1>1, <1>3 DEF ConfirmTone
  <2> QED
    BY <1>1, <1>2, <2>1, <2>2, ConstantsOK DEF Placed
<1>4. CASE EndCapture
  <2>1. cap \in Calls /\ cap' = cap /\ stage[cap] \in {"capturing", "offered"}
    BY <1>4 DEF EndCapture, Inv, TypeInv, TypeOK, ListenerBusy, Placed
  <2>2. stage'[d] = IF d = cap THEN "offered" ELSE stage[d]
    BY <1>1, <1>4 DEF EndCapture
  <2> QED
    BY <1>1, <1>2, <2>1, <2>2 DEF Placed
<1>5. CASE cap \in Calls /\ HandedOff("refused")
  <2>1. cap' = NoCall /\ stage'[d] = IF d = cap THEN "refused" ELSE stage[d]
    BY <1>1, <1>5 DEF HandedOff
  <2> QED
    BY <1>1, <1>2, <2>1, ConstantsOK DEF Placed
<1>6. CASE ListenerRaises
  <2>1. cap' = NoCall /\ stage'[d] = IF d = cap THEN "cut" ELSE stage[d]
    BY <1>1, <1>6, ConstantsOK DEF ListenerRaises
  <2> QED
    BY <1>1, <1>2, <2>1, ConstantsOK DEF Placed
<1> QED
  BY <1>3, <1>4, <1>5, <1>6

\* The worker ends its task, one way or the other.
LEMMA WorkerPlaced ==
    ASSUME Inv, UNCHANGED <<cap, queue>>, cur' = Nothing,
           \E s \in {"final", "crashed"} :
               stage' = IF cur.type = "phase2" THEN [stage EXCEPT ![cur.call] = s] ELSE stage
    PROVE  \A c \in Calls : Placed(c)'
<1> SUFFICES ASSUME NEW d \in Calls PROVE Placed(d)'
  OBVIOUS
<1>1. Placed(d) /\ stage \in [Calls -> Stages] /\ cur \in Tasks \cup {Nothing}
  BY DEF Inv, TypeInv, TypeOK
<1>2. At(P1(d))' = At(P1(d)) /\ At(P2(d))' = At(P2(d))
  BY DEF At, Pos
<1>3. PICK s \in {"final", "crashed"} :
        stage' = IF cur.type = "phase2" THEN [stage EXCEPT ![cur.call] = s] ELSE stage
  OBVIOUS
<1>4. CASE cur = P2(d)
  <2>1. stage'[d] = s /\ stage[d] = "working"
    BY <1>1, <1>3, <1>4, TaskFacts DEF Placed
  <2> QED
    BY <1>1, <1>2, <1>3, <2>1, TaskFacts DEF Placed
<1>5. CASE cur # P2(d)
  <2>1. stage'[d] = stage[d]
    BY <1>1, <1>3, <1>5, TaskFacts, TaskCases
  <2> QED
    BY <1>1, <1>2, <1>5, <2>1, TaskFacts DEF Placed
<1> QED
  BY <1>4, <1>5

\* The pill is no recording.
LEMMA PillPlaced ==
    ASSUME Inv, PutPill
    PROVE  \A c \in Calls : Placed(c)'
<1> SUFFICES ASSUME NEW c \in Calls PROVE Placed(c)'
  OBVIOUS
<1>1. queue' = Append(queue, Pill) /\ UNCHANGED <<cap, cur, stage>>
  BY DEF PutPill
<1>2. \A u : At(u)' = At(u) \cup (IF u = Pill THEN {Len(queue) + 1} ELSE {})
  <2>1. Pill \in Tasks \cup {Pill}
    OBVIOUS
  <2> QED
    BY <1>1, <2>1, AppendStep DEF Inv
<1>3. At(P1(c))' = At(P1(c)) /\ At(P2(c))' = At(P2(c))
  BY <1>2, TaskFacts
<1> QED
  BY <1>1, <1>3 DEF Inv, Placed

\* SIGKILL empties everything.
LEMMA KilledPlaced ==
    ASSUME Inv, Killed
    PROVE  \A c \in Calls : Placed(c)'
<1> SUFFICES ASSUME NEW c \in Calls PROVE Placed(c)'
  OBVIOUS
<1>1. At(P1(c))' = {} /\ At(P2(c))' = {}
  BY EmptySeq DEF Killed, At, Pos
<1>2. /\ cap' = NoCall /\ cur' = Nothing
      /\ stage'[c] \in Settled \cup {"unheard", "abandoned"}
  BY DEF Killed
<1> QED
  BY <1>1, <1>2, TaskFacts, ConstantsOK DEF Placed, Settled

LEMMA NextPlaced ==
    ASSUME Inv, TypeInv', [Next]_vars
    PROVE  \A c \in Calls : Placed(c)'
<1>a. ListenerBusy => cap \in Calls
  BY DEF Inv, TypeInv, TypeOK
<1>1. ASSUME NEW c \in Calls, ConfirmTone(c)
      PROVE  \A d \in Calls : Placed(d)'
  BY <1>1, ListenerPlaced DEF ConfirmTone
<1>2. CASE OfferPhase1
  BY <1>2, OfferPhase1Placed
<1>3. CASE EndCapture
  BY <1>3, ListenerPlaced DEF EndCapture
<1>4. CASE OfferPhase2
  <2>1. CASE HandedOff("queued") /\ queue' = Put(P2(cap))
    BY <1>4, <1>a, <2>1, AcceptStep DEF OfferPhase2, ListenerBusy
  <2>2. CASE UNCHANGED <<cap, queue, stage>>
    BY <1>4, <2>2, QuietStep DEF OfferPhase2
  <2> QED
    BY <1>4, <2>1, <2>2 DEF OfferPhase2
<1>5. CASE MakeRoom
  BY <1>5, MakeRoomPlaced
<1>6. CASE RetryPhase2
  <2>1. CASE HandedOff("queued") /\ queue' = Put(P2(cap))
    BY <1>6, <1>a, <2>1, AcceptStep DEF RetryPhase2, ListenerBusy
  <2>2. CASE HandedOff("refused") /\ UNCHANGED queue
    BY <1>6, <1>a, <2>2, ListenerPlaced DEF RetryPhase2, ListenerBusy
  <2> QED
    BY <1>6, <2>1, <2>2 DEF RetryPhase2
<1>7. CASE ListenerRaises
  BY <1>7, ListenerPlaced DEF ListenerRaises
<1>8. CASE WorkerTakes
  BY <1>8, TakesPlaced
<1>9. CASE WorkerFinishes
  BY <1>9, WorkerPlaced DEF WorkerFinishes
<1>b. WorkerDies /\ UNCHANGED <<cap, queue>> => \A c \in Calls : Placed(c)'
  BY WorkerPlaced DEF WorkerDies
<1>10. CASE WorkerCrashes
  BY <1>10, <1>b DEF WorkerCrashes
<1>11. CASE Sigterm
  BY <1>11, <1>b, QuietStep DEF Sigterm
<1>12. CASE PutPill
  BY <1>12, PillPlaced
<1>13. CASE TerminateChildren
  BY <1>13, <1>b, QuietStep DEF TerminateChildren
<1>14. CASE Killed
  BY <1>14, KilledPlaced
<1>15. CASE \/ HearSound \/ RejectTone \/ StopListening
            \/ WorkerBoots \/ WorkerWaits
            \/ SupervisorStep
            \/ StopSupervisor \/ CheckWorker \/ JoinReturns \/ Exit
            \/ UNCHANGED vars
  <2>1. UNCHANGED <<cap, queue, cur, stage>>
    BY <1>15 DEF HearSound, RejectTone, StopListening, WorkerBoots, WorkerWaits,
       SupervisorStep, SupervisorWakes, SupervisorLeaves, SupervisorGivesUp,
       SupervisorRespawns, SpawnFails, RestartAges, StopSupervisor, CheckWorker,
       JoinReturns, Exit, vars
  <2> QED
    BY <2>1, QuietStep
<1> QED
  BY <1>1, <1>2, <1>3, <1>4, <1>5, <1>6, <1>7, <1>8, <1>9, <1>10, <1>11, <1>12,
     <1>13, <1>14, <1>15
  DEF Next, ListenerStep, WorkerStep, MainStep

(***************************************************************************)
(* The pill: it is the last task ever enqueued, so a worker that takes it  *)
(* leaves an empty queue.                                                  *)
(***************************************************************************)

LEMMA NextBookkeeping ==
    ASSUME Inv, TypeInv', [Next]_vars
    PROVE  Bookkeeping' /\ (wk = "exited" => queue = <<>>)'
<1> USE DEF Bookkeeping, ListenerBusy
<1>0. /\ Bookkeeping
      /\ wk = "exited" => queue = <<>>
      /\ (ListenerBusy <=> cap # NoCall)'
      /\ queue = <<>> => At(Pill) = {}
  BY EmptySeq DEF Inv, TypeInv, At, Pos
\* Steps that leave the queue and the shutdown alone.
<1>a. ASSUME UNCHANGED <<queue, main>>,
             lst = "done" => lst' = "done",
             wk' = "exited" => wk = "exited",
             (wk = "busy" <=> cur # Nothing)'
      PROVE  Bookkeeping' /\ (wk = "exited" => queue = <<>>)'
  BY <1>a, <1>0 DEF At, Pos
\* The listener puts a task: it has not returned, so no pill was sent.
<1>b. ASSUME NEW t \in Tasks, queue' = Append(queue, t), UNCHANGED <<wk, cur, main>>,
             lst # "done"
      PROVE  Bookkeeping' /\ (wk = "exited" => queue = <<>>)'
  <2>1. At(Pill) = {} /\ wk # "exited" /\ main = "listening"
    BY <1>0, <1>b
  <2>2. \A u : At(u)' = At(u) \cup (IF u = t THEN {Len(queue) + 1} ELSE {})
    BY <1>b, AppendStep DEF Inv
  <2>3. At(Pill)' = {}
    BY <2>1, <2>2, TaskCases
  <2> QED
    BY <1>0, <1>b, <2>1, <2>3
<1>1. CASE \/ HearSound \/ RejectTone \/ (\E c \in Calls : ConfirmTone(c))
           \/ EndCapture \/ StopListening \/ ListenerRaises
           \/ WorkerBoots \/ WorkerWaits \/ SupervisorStep
  <2>1. UNCHANGED <<queue, main>> /\ (lst = "done" => lst' = "done")
    BY <1>1 DEF HearSound, RejectTone, ConfirmTone, EndCapture, StopListening,
       ListenerRaises, WorkerBoots, WorkerWaits, SupervisorStep, SupervisorWakes,
       SupervisorLeaves, SupervisorGivesUp, SupervisorRespawns, SpawnFails, RestartAges
  <2>2. /\ wk' = "exited" => wk = "exited"
        /\ (wk = "busy" <=> cur # Nothing)'
    BY <1>0, <1>1 DEF HearSound, RejectTone, ConfirmTone, EndCapture, StopListening,
       ListenerRaises, WorkerBoots, WorkerWaits, SupervisorStep, SupervisorWakes,
       SupervisorLeaves, SupervisorGivesUp, SupervisorRespawns, SpawnFails, RestartAges,
       MayRespawn, Alive
  <2> QED
    BY <1>a, <2>1, <2>2
<1>2. CASE OfferPhase1
  <2>1. cap \in Calls
    BY <1>2 DEF OfferPhase1, Inv, TypeInv, TypeOK
  <2>2. CASE queue' = Append(queue, P1(cap))
    BY <1>2, <1>b, <2>1, <2>2, TaskCases DEF OfferPhase1
  <2>3. CASE queue' = queue
    BY <1>0, <1>2, <1>a, <2>3 DEF OfferPhase1
  <2> QED
    BY <1>2, <2>2, <2>3 DEF OfferPhase1
<1>3. CASE OfferPhase2 \/ RetryPhase2
  <2>1. cap \in Calls /\ lst # "done" /\ UNCHANGED <<wk, cur, main>>
    BY <1>3 DEF OfferPhase2, RetryPhase2, Inv, TypeInv, TypeOK
  <2>2. CASE queue' = Append(queue, P2(cap))
    BY <1>b, <2>1, <2>2, TaskCases
  <2>3. CASE queue' = queue
    BY <1>0, <1>a, <2>1, <2>3
  <2> QED
    BY <1>3, <2>2, <2>3 DEF OfferPhase2, RetryPhase2
<1>4. CASE MakeRoom
  <2>1. UNCHANGED <<wk, cur, main>> /\ lst # "done" /\ main = "listening"
    BY <1>0, <1>4 DEF MakeRoom
  <2>2. CASE queue' = queue
    BY <1>0, <1>4, <1>a, <2>1, <2>2 DEF MakeRoom
  <2>3. CASE queue # <<>> /\ queue' = Tail(queue)
    <3>1. \A u : At(u)' = {i \in Nat \ {0} : i + 1 \in At(u)}
      BY <2>3, TailStep DEF Inv
    <3>2. At(Pill) = {} /\ wk # "exited"
      BY <1>0, <2>1
    <3> QED
      BY <1>0, <2>1, <3>1, <3>2
  <2> QED
    BY <1>4, <2>2, <2>3 DEF MakeRoom
<1>5. CASE WorkerTakes
  <2>1. /\ Len(queue') = Len(queue) - 1
        /\ \A u : At(u)' = {i \in Nat \ {0} : i + 1 \in At(u)}
        /\ \A u : 1 \in At(u) <=> u = Head(queue)
        /\ Len(queue) \in Nat \ {0}
        /\ Head(queue) \in Tasks \cup {Pill}
    BY <1>5, TailStep DEF Inv, WorkerTakes
  <2>2. UNCHANGED <<lst, main>> /\ cur = Nothing
    BY <1>0, <1>5 DEF WorkerTakes
  <2>3. \A i \in At(Pill)' : i = Len(queue')
    BY <1>0, <2>1
  <2>4. (wk = "busy" <=> cur # Nothing)'
    BY <1>5, <2>1, <2>2, TaskCases DEF WorkerTakes
  <2>5. CASE Head(queue) = Pill
    <3>1. Len(queue) = 1 /\ main \notin {"listening", "putting"}
      BY <1>0, <2>1, <2>5
    <3>2. queue' = <<>>
      <4>1. queue' \in Seq(Tasks \cup {Pill}) /\ Len(queue') = 0
        BY <2>1, <3>1 DEF TypeInv, TypeOK
      <4> QED
        BY <4>1, EmptySeq
    <3> QED
      BY <1>0, <2>2, <2>3, <2>4, <3>1, <3>2
  <2>6. CASE Head(queue) # Pill
    <3>1. wk' = "busy" /\ (At(Pill)' # {} => At(Pill) # {})
      BY <1>5, <2>1, <2>6 DEF WorkerTakes
    <3> QED
      BY <1>0, <2>2, <2>3, <2>4, <3>1
  <2> QED
    BY <2>5, <2>6
<1>6. CASE WorkerFinishes
  BY <1>0, <1>6, <1>a DEF WorkerFinishes
<1>7. CASE WorkerCrashes
  BY <1>0, <1>7, <1>a DEF WorkerCrashes, WorkerDies
<1>8. CASE Sigterm
  <2>1. \/ UNCHANGED <<wk, cur>>
        \/ wk' = "dead" /\ cur' = Nothing
    BY <1>8 DEF Sigterm, WorkerDies
  <2> QED
    BY <1>0, <1>8, <1>a, <2>1 DEF Sigterm
\* The shutdown moves on, past the point where the pill is sent.
<1>9. CASE StopSupervisor \/ CheckWorker \/ JoinReturns \/ TerminateChildren \/ Exit
  <2>1. /\ UNCHANGED <<lst, queue>>
        /\ main' # "listening"
        /\ main = "listening" => lst = "done"
        /\ main \notin {"listening", "putting"} => main' \notin {"listening", "putting"}
        /\ \/ UNCHANGED <<wk, cur>>
           \/ wk' = "dead" /\ cur' = Nothing
    BY <1>9 DEF StopSupervisor, CheckWorker, JoinReturns, TerminateChildren, Exit, WorkerDies
  <2>2. At(Pill)' = At(Pill)
    BY <2>1 DEF At, Pos
  <2> QED
    BY <1>0, <2>1, <2>2
<1>10. CASE PutPill
  <2>1. At(Pill) = {} /\ wk # "exited"
    BY <1>0, <1>10 DEF PutPill
  <2>2. /\ Len(queue') = Len(queue) + 1
        /\ \A u : At(u)' = At(u) \cup (IF u = Pill THEN {Len(queue) + 1} ELSE {})
    <3>1. Pill \in Tasks \cup {Pill} /\ queue' = Append(queue, Pill)
      BY <1>10 DEF PutPill
    <3> QED
      BY <3>1, AppendStep DEF Inv
  <2> QED
    BY <1>0, <1>10, <2>1, <2>2 DEF PutPill
<1>11. CASE Killed
  <2>1. At(Pill)' = {}
    BY <1>11, EmptySeq DEF Killed, At, Pos
  <2> QED
    BY <1>0, <1>11, <2>1 DEF Killed
<1>12. CASE UNCHANGED vars
  BY <1>0, <1>12, <1>a DEF vars
<1> QED
  BY <1>1, <1>2, <1>3, <1>4, <1>5, <1>6, <1>7, <1>8, <1>9, <1>10, <1>11, <1>12
  DEF Next, ListenerStep, WorkerStep, MainStep

LEMMA NextInv == Inv /\ [Next]_vars => Inv'
  BY NextTypeInv, NextPlaced, NextBookkeeping DEF Inv

LEMMA AlwaysInv == Spec => []Inv
  BY InitInv, NextInv, PTL DEF Spec

\* At every moment a recording is in exactly one of the listener's hands, the
\* queue (once) and the worker's hands.
THEOREM OnePlaceCorrect == Spec => []OnePlace
<1>1. Inv => OnePlace
  BY PlacedAll DEF Inv
<1> QED
  BY AlwaysInv, <1>1, PTL

\* No phase 1 check is behind its phase 2, or worked on once that has begun.
THEOREM Phase1FirstCorrect == Spec => []Phase1First
<1>1. Inv => Phase1First
  BY PlacedAll DEF Inv
<1> QED
  BY AlwaysInv, <1>1, PTL

\* A worker that exits on the pill has settled every recording.
LEMMA DrainedFromInv == Inv => PillMeansDrained
<1> SUFFICES ASSUME Inv, wk = "exited"
             PROVE  /\ queue = <<>>
                    /\ \A c \in Calls : stage[c] \in Settled \cup {"unheard"}
  BY DEF PillMeansDrained
<1> SUFFICES ASSUME NEW c \in Calls
             PROVE  queue = <<>> /\ stage[c] \in Settled \cup {"unheard"}
  BY DEF Inv
<1>1. queue = <<>> /\ cur = Nothing /\ lst = "done"
  BY DEF Inv, Bookkeeping
<1>2. cap # c
  BY <1>1, ConstantsOK DEF Inv, Bookkeeping, ListenerBusy
<1>3. At(P2(c)) = {}
  BY <1>1, EmptySeq DEF At, Pos
<1>4. Placed(c) /\ stage[c] \in Stages
  BY DEF Inv, TypeInv, TypeOK
<1>5. stage[c] \notin {"capturing", "offered", "queued", "working"}
  BY <1>1, <1>2, <1>3, <1>4, TaskFacts DEF Placed
<1> QED
  BY <1>1, <1>4, <1>5 DEF Stages

THEOREM PillMeansDrainedCorrect == Spec => []PillMeansDrained
  BY AlwaysInv, DrainedFromInv, PTL

(***************************************************************************)
(* The graceful stop.  A recording is lost to a crash only with a fault,   *)
(* abandoned only by SIGKILL, and nothing moves once the agent is gone.    *)
(***************************************************************************)

StopInv ==
    /\ \A c \in Calls : /\ stage[c] = "crashed" => faults > 0
                        /\ stage[c] = "abandoned" => main = "killed"
    /\ main \in {"gone", "killed"} => /\ wk \notin Alive
                                      /\ sup = "ended"
                                      /\ \A i \in DOMAIN queue : queue[i] = Pill

LEMMA InitStopInv == Init => StopInv
  BY DEF Init, StopInv

LEMMA NextStopInv == Inv /\ StopInv /\ [Next]_vars => StopInv'
<1> SUFFICES ASSUME Inv, StopInv, [Next]_vars
             PROVE  StopInv'
  OBVIOUS
<1> USE DEF StopInv
<1>0. /\ stage \in [Calls -> Stages] /\ faults \in Nat
      /\ cap \in Calls \cup {NoCall} /\ cur \in Tasks \cup {Nothing}
      /\ main # "listening" => lst = "done"
      /\ wk # "busy" => cur = Nothing
  BY DEF Inv, TypeInv, TypeOK, Bookkeeping
\* A step that settles nothing as crashed or abandoned and does not end the agent.
<1>a. ASSUME \A c \in Calls : stage'[c] = stage[c] \/ stage'[c] \notin {"crashed", "abandoned"},
             UNCHANGED faults,
             main \notin {"gone", "killed"}, main' \notin {"gone", "killed"}
      PROVE  StopInv'
  BY <1>a
<1>b. ASSUME ListenerStep
      PROVE  /\ \A c \in Calls : \/ stage'[c] = stage[c]
                                 \/ stage'[c] \notin {"crashed", "abandoned"}
             /\ UNCHANGED <<faults, main>>
             /\ lst # "done"
  <2>1. \A s : HandedOff(s) =>
            \A c \in Calls : stage'[c] = stage[c] \/ stage'[c] = s
    BY <1>0 DEF HandedOff
  <2> QED
    BY <1>b, <1>0, <2>1 DEF ListenerStep, HearSound, RejectTone, ConfirmTone,
       OfferPhase1, EndCapture, OfferPhase2, MakeRoom, RetryPhase2, StopListening,
       ListenerRaises
<1>1. CASE ListenerStep
  BY <1>0, <1>1, <1>a, <1>b
<1>2. CASE WorkerBoots \/ WorkerWaits \/ WorkerTakes \/ WorkerFinishes
  <2>1. \A c \in Calls : stage'[c] = stage[c] \/ stage'[c] \notin {"crashed", "abandoned"}
    BY <1>0, <1>2 DEF WorkerBoots, WorkerWaits, WorkerTakes, WorkerFinishes
  <2>2. wk \in Alive /\ UNCHANGED <<faults, main>>
    BY <1>2 DEF WorkerBoots, WorkerWaits, WorkerTakes, WorkerFinishes, Alive
  <2> QED
    BY <1>a, <2>1, <2>2
<1>3. CASE WorkerCrashes
  <2>1. wk \in Alive /\ faults' = faults + 1 /\ main' = main
    BY <1>3, ConstantsOK DEF WorkerCrashes, Alive
  <2>2. \A c \in Calls : stage'[c] = stage[c] \/ stage'[c] = "crashed"
    BY <1>0, <1>3 DEF WorkerCrashes, WorkerDies
  <2> QED
    BY <1>0, <2>1, <2>2
<1>4. CASE SupervisorStep
  <2>1. /\ UNCHANGED <<stage, main, queue>>
        /\ sup # "ended"
        /\ faults' \in {faults, faults + 1}
    BY <1>0, <1>4 DEF SupervisorStep, SupervisorWakes, SupervisorLeaves,
       SupervisorGivesUp, SupervisorRespawns, SpawnFails, RestartAges, MayRespawn
  <2> QED
    BY <1>0, <1>4, <2>1
\* SIGTERM ends a booting worker, which has no task yet.
<1>c. wk \in SigtermReaches /\ WorkerDies => UNCHANGED stage
  BY <1>0 DEF SigtermReaches, WorkerDies, Nothing
<1>5. CASE Sigterm \/ TerminateChildren
  BY <1>5, <1>a, <1>c DEF Sigterm, TerminateChildren, Running
<1>6. CASE StopSupervisor \/ PutPill \/ CheckWorker \/ JoinReturns
  BY <1>6, <1>a DEF StopSupervisor, PutPill, CheckWorker, JoinReturns
<1>7. CASE Exit
  BY <1>7 DEF Exit
<1>8. CASE Killed
  <2>1. \A c \in Calls : stage'[c] = stage[c] \/ stage'[c] = "abandoned"
    BY <1>8 DEF Killed
  <2>2. queue' = <<>> /\ DOMAIN queue' = {}
    <3>1. queue' = <<>>
      BY <1>8 DEF Killed
    <3> QED
      BY <3>1, EmptySeq
  <2> QED
    BY <1>8, <2>1, <2>2 DEF Killed, Alive
<1>9. CASE UNCHANGED vars
  BY <1>9 DEF vars
<1> QED
  BY <1>1, <1>2, <1>3, <1>4, <1>5, <1>6, <1>7, <1>8, <1>9
  DEF Next, WorkerStep, MainStep

\* An agent that stopped by itself without a fault finished the call it was on.
THEOREM GracefulStopCorrect == Spec => []GracefulStop
<1>1. Inv /\ StopInv => GracefulStop
  <2> SUFFICES ASSUME Inv, StopInv, main = "gone", faults = 0, NEW c \in Calls
               PROVE  stage[c] \in {"unheard", "final", "displaced", "refused", "cut"}
    BY DEF GracefulStop
  <2>1. wk # "busy" /\ \A i \in DOMAIN queue : queue[i] = Pill
    BY DEF StopInv, Alive
  <2>2. cap # c /\ cur = Nothing
    BY <2>1, ConstantsOK DEF Inv, Bookkeeping, ListenerBusy
  <2>3. At(P2(c)) = {}
    BY <2>1, TaskFacts DEF At, Pos
  <2>4. Placed(c) /\ stage[c] \in Stages
    BY DEF Inv, TypeInv, TypeOK
  <2>5. stage[c] \notin {"capturing", "offered", "queued", "working"}
    BY <2>2, <2>3, <2>4, TaskFacts DEF Placed
  <2>6. stage[c] \notin {"crashed", "abandoned"}
    BY DEF StopInv
  <2> QED
    BY <2>4, <2>5, <2>6 DEF Stages, Settled
<1> QED
  BY AlwaysInv, InitStopInv, NextStopInv, <1>1, PTL DEF Spec
=============================================================================
