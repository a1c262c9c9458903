--------------------------- MODULE DispatchLogProofs ---------------------------
(***************************************************************************)
(* A proof that the agent implements CallLog, for every set of calls, any  *)
(* queue capacity and any number of restarts and faults.                   *)
(***************************************************************************)
EXTENDS DispatchAgentProofs

(***************************************************************************)
(* The order of the recordings is the order in which they were heard: in   *)
(* the queue, and from the queue to the worker and to the end.             *)
(***************************************************************************)

\* What is so of a call c that was captured before d.
Precedes(c, d) ==
    /\ stage[d] \in {"working", "final"} => stage[c] \in Settled
    /\ stage[d] = "queued" => stage[c] \in Settled \cup {"working", "queued"}
    /\ \A i \in At(P2(c)), j \in At(P2(d)) : i < j

InHand == {"capturing", "offered"}

Order ==
    /\ \A i, j \in DOMAIN heard : heard[i] = heard[j] => i = j
    /\ \A c \in Calls : stage[c] # "unheard" <=> \E i \in DOMAIN heard : heard[i] = c
    /\ \A i \in DOMAIN heard : stage[heard[i]] \in InHand => i = Len(heard)
    /\ \A i, j \in DOMAIN heard : i < j => Precedes(heard[i], heard[j])

OrderInv == Inv /\ Order

LEMMA HeardFacts ==
    ASSUME TypeInv
    PROVE  /\ heard \in Seq(Calls) /\ Len(heard) \in Nat /\ DOMAIN heard = 1..Len(heard)
           /\ \A i \in DOMAIN heard : heard[i] \in Calls
           /\ stage \in [Calls -> Stages]
<1>1. heard \in Seq(Calls) /\ stage \in [Calls -> Stages]
  BY DEF TypeInv, TypeOK
<1>2. Len(heard) \in Nat /\ DOMAIN heard = 1..Len(heard)
  BY <1>1, LenProperties
<1>3. \A i \in 1..Len(heard) : heard[i] \in Calls
  BY <1>1, ElementOfSeq
<1> QED
  BY <1>1, <1>2, <1>3

\* A step that captures nothing keeps the order if it keeps it of any two calls, the first of
\* which the listener has handed off or dropped.
LEMMA SameLog ==
    ASSUME TypeInv, Order, UNCHANGED heard,
           \A c \in Calls : /\ stage'[c] = "unheard" <=> stage[c] = "unheard"
                            /\ stage'[c] \in InHand => stage[c] \in InHand,
           \A c, d \in Calls : c # d /\ Precedes(c, d) /\ stage[c] \notin InHand \cup {"unheard"}
                               => Precedes(c, d)'
    PROVE  Order'
<1>1. ASSUME NEW i \in DOMAIN heard, NEW j \in DOMAIN heard, i < j
      PROVE  Precedes(heard[i], heard[j])'
  <2>1. /\ heard[i] \in Calls /\ heard[j] \in Calls
        /\ heard[i] # heard[j] /\ Precedes(heard[i], heard[j])
    BY <1>1, HeardFacts DEF Order
  <2>2. i # Len(heard)
    BY <1>1, HeardFacts
  <2>3. stage[heard[i]] \notin InHand \cup {"unheard"}
    BY <2>1, <2>2 DEF Order
  <2>4. Precedes(heard[i], heard[j]) => \A c, d : c = heard[i] /\ d = heard[j] => Precedes(c, d)'
    BY <2>1, <2>3
  <2>5. \A c, d : c = heard[i] /\ d = heard[j] => Precedes(c, d)'
    BY <2>1, <2>4
  <2> QED
    BY <2>5 DEF Precedes
<1> QED
  BY <1>1, HeardFacts DEF Order

\* A step that leaves the queue alone and settles some recordings, or none.
LEMMA SettleStep ==
    ASSUME OrderInv, UNCHANGED <<heard, queue>>,
           \A c \in Calls : \/ stage'[c] = stage[c]
                            \/ stage[c] # "unheard" /\ stage'[c] \in Settled \ {"final"}
    PROVE  Order'
<1>1. TypeInv /\ Order
  BY DEF OrderInv, Inv
<1>2. ASSUME NEW c \in Calls, NEW d \in Calls, Precedes(c, d) PROVE Precedes(c, d)'
  BY <1>2 DEF Precedes, Settled, At, Pos
<1> QED
  BY <1>1, <1>2, SameLog DEF InHand, Settled

LEMMA InitOrder == Init => Order
<1> SUFFICES ASSUME Init PROVE Order
  OBVIOUS
<1>1. DOMAIN heard = {}
  BY EmptySeq DEF Init
<1> QED
  BY <1>1 DEF Init, Order

(***************************************************************************)
(* The steps that move a recording, or capture one.                        *)
(***************************************************************************)

\* The new call is the last that was heard, and the only one in the listener's hands.
LEMMA CaptureOrder ==
    ASSUME OrderInv, NEW c \in Calls, ConfirmTone(c)
    PROVE  Order'
<1>1. TypeInv /\ Order /\ (\A d \in Calls : Placed(d)) /\ cap = NoCall
  BY DEF OrderInv, Inv, TypeInv, ListenerBusy, ConfirmTone
<1>2. /\ heard' = Append(heard, c) /\ UNCHANGED queue /\ stage[c] = "unheard"
      /\ stage'[c] = "capturing" /\ \A d \in Calls \ {c} : stage'[d] = stage[d]
  BY <1>1, HeardFacts DEF ConfirmTone
<1>3. /\ DOMAIN heard' = 1..(Len(heard) + 1) /\ Len(heard') = Len(heard) + 1
      /\ \A i \in DOMAIN heard : heard'[i] = heard[i]
      /\ heard'[Len(heard) + 1] = c
      /\ \A i \in DOMAIN heard' : i \in DOMAIN heard \/ i = Len(heard) + 1
      /\ \A i \in DOMAIN heard : i < Len(heard) + 1
  <2>1. heard \in Seq(Calls) /\ Len(heard) \in Nat /\ DOMAIN heard = 1..Len(heard)
    BY <1>1, HeardFacts
  <2> QED
    BY <1>2, <2>1, AppendProperties
<1>4. \A i \in DOMAIN heard : heard[i] \in Calls /\ heard[i] # c
  BY <1>1, <1>2, HeardFacts DEF Order
<1>5. \A d \in Calls : stage[d] \notin InHand
  BY <1>1, ConstantsOK DEF Placed, InHand
<1>6. \A t : At(t)' = At(t)
  BY <1>2 DEF At, Pos
<1>7. At(P2(c)) = {}
  BY <1>1, <1>2 DEF Placed
<1>8. ASSUME NEW i \in DOMAIN heard', NEW j \in DOMAIN heard', i < j
      PROVE  Precedes(heard[i], heard[j])'
  <2>1. i \in DOMAIN heard /\ heard'[i] = heard[i]
    BY <1>1, <1>3, <1>8, HeardFacts
  <2>2. CASE j \in DOMAIN heard
    BY <1>1, <1>2, <1>3, <1>4, <1>6, <1>8, <2>1, <2>2 DEF Order, Precedes
  <2>3. CASE j = Len(heard) + 1
    BY <1>2, <1>3, <1>6, <1>7, <2>1, <2>3 DEF Precedes
  <2> QED
    BY <1>3, <2>2, <2>3
<1>9. \A i, j \in DOMAIN heard' : heard'[i] = heard'[j] => i = j
  BY <1>1, <1>3, <1>4 DEF Order
<1>10. \A d \in Calls : stage'[d] # "unheard" <=> \E i \in DOMAIN heard' : heard'[i] = d
  <2>1. Len(heard) + 1 \in DOMAIN heard' /\ DOMAIN heard \subseteq DOMAIN heard'
    BY <1>1, <1>3, HeardFacts
  <2> QED
    BY <1>1, <1>2, <1>3, <1>4, <2>1 DEF Order
<1>11. \A i \in DOMAIN heard' : stage'[heard'[i]] \in InHand => i = Len(heard')
  BY <1>2, <1>3, <1>4, <1>5
<1> QED
  BY <1>8, <1>9, <1>10, <1>11 DEF Order

\* The recording handed to the queue was heard after all that are in it.
LEMMA AcceptOrder ==
    ASSUME OrderInv, cap \in Calls, HandedOff("queued"), queue' = Put(P2(cap)), UNCHANGED heard
    PROVE  Order'
<1>1. TypeInv /\ Order /\ (\A d \in Calls : Placed(d)) /\ stage \in [Calls -> Stages]
  BY HeardFacts DEF OrderInv, Inv
<1>2. stage'[cap] = "queued" /\ stage[cap] \in InHand /\ \A d \in Calls \ {cap} : stage'[d] = stage[d]
  BY <1>1 DEF HandedOff, Placed, InHand
<1>3. /\ \A u : At(u)' = At(u) \cup (IF u = P2(cap) THEN {Len(queue) + 1} ELSE {})
      /\ \A u : \A i \in At(u) : i \in 1..Len(queue)
  <2>1. P2(cap) \in Tasks \cup {Pill} /\ queue' = Append(queue, P2(cap))
    BY TaskCases DEF Put
  <2> QED
    BY <1>1, <2>1, AppendStep
<1>4. Len(queue) \in Nat /\ At(P2(cap)) = {}
  BY <1>1, <1>2, LenProperties DEF Placed, InHand, TypeInv, TypeOK
<1>5. ASSUME NEW c \in Calls, NEW d \in Calls, c # d, Precedes(c, d),
             stage[c] \notin InHand \cup {"unheard"}
      PROVE  Precedes(c, d)'
  <2>1. c # cap /\ stage'[c] = stage[c] /\ At(P2(c))' = At(P2(c))
    BY <1>2, <1>3, <1>5, TaskFacts
  <2>2. CASE d = cap
    <3>1. stage[c] \in Settled \cup {"working", "queued"}
      BY <1>1, <1>5 DEF Stages, InHand
    <3>2. \A i \in At(P2(c))', j \in At(P2(d))' : i < j
      BY <1>3, <1>4, <2>1, <2>2
    <3> QED
      BY <1>2, <2>1, <2>2, <3>1, <3>2 DEF Precedes
  <2>3. CASE d # cap
    <3>1. At(P2(d))' = At(P2(d)) /\ stage'[d] = stage[d]
      BY <1>2, <1>3, <2>3, TaskFacts
    <3> QED
      BY <1>5, <2>1, <3>1 DEF Precedes
  <2> QED
    BY <2>2, <2>3
<1> QED
  BY <1>1, <1>2, <1>5, SameLog DEF InHand

\* A task that is no recording is put behind those that wait.
LEMMA PutOrder ==
    ASSUME OrderInv, NEW t \in Tasks \cup {Pill}, \A c \in Calls : t # P2(c),
           queue' = Append(queue, t), UNCHANGED <<heard, stage>>
    PROVE  Order'
<1>1. TypeInv /\ Order
  BY DEF OrderInv, Inv
<1>2. \A u : At(u)' = At(u) \cup (IF u = t THEN {Len(queue) + 1} ELSE {})
  BY <1>1, AppendStep
<1>3. \A c \in Calls : At(P2(c))' = At(P2(c))
  BY <1>2
<1> QED
  BY <1>1, <1>3, SameLog DEF Precedes

\* The head of the queue is displaced, or taken by a worker that is on nothing.
LEMMA HeadOrder ==
    ASSUME OrderInv, queue # <<>>, queue' = Tail(queue), UNCHANGED heard,
           NEW s \in {"displaced", "working"}, s = "working" => cur = Nothing,
           stage' = IF Head(queue).type = "phase2" THEN [stage EXCEPT ![Head(queue).call] = s]
                    ELSE stage
    PROVE  Order'
<1>1. TypeInv /\ Order /\ (\A d \in Calls : Placed(d)) /\ stage \in [Calls -> Stages]
  BY HeardFacts DEF OrderInv, Inv
<1>2. /\ Head(queue) \in Tasks \cup {Pill}
      /\ \A u : At(u)' = {i \in Nat \ {0} : i + 1 \in At(u)}
      /\ \A u : 1 \in At(u) <=> u = Head(queue)
      /\ \A u : \A i \in At(u) : i \in Nat \ {0}
  BY <1>1, TailStep
<1>3. \A c, d \in Calls : Precedes(c, d) => \A i \in At(P2(c))', j \in At(P2(d))' : i < j
  BY <1>2 DEF Precedes
<1>4. CASE Head(queue).type # "phase2"
  BY <1>1, <1>3, <1>4, SameLog DEF Precedes
<1>5. CASE Head(queue).type = "phase2"
  <2> DEFINE h == Head(queue).call
  <2>1. h \in Calls /\ Head(queue) = P2(h)
    BY <1>2, <1>5, TaskCases, TaskFacts
  <2>2. 1 \in At(P2(h)) /\ stage[h] = "queued"
    BY <1>1, <1>2, <2>1 DEF Placed
  <2>3. stage'[h] = s /\ \A d \in Calls \ {h} : stage'[d] = stage[d]
    BY <1>1, <1>5, <2>1
  <2> HIDE DEF h
  <2>4. ASSUME NEW c \in Calls, NEW d \in Calls, c # d, Precedes(c, d)
        PROVE  Precedes(c, d)'
    <3>1. CASE d = h /\ s = "working"
      <4>1. stage[c] # "working"
        BY <1>1, <3>1, TaskFacts DEF Placed
      <4>2. stage[c] # "queued"
        <5>1. \A i \in At(P2(c)) : i < 1
          BY <2>2, <2>4, <3>1 DEF Precedes
        <5> QED
          BY <1>1, <1>2, <5>1 DEF Placed
      <4>3. stage[c] \in Settled /\ stage'[c] = stage[c]
        BY <2>2, <2>3, <2>4, <3>1, <4>1, <4>2 DEF Precedes
      <4> QED
        BY <1>3, <2>3, <2>4, <3>1, <4>3 DEF Precedes
    <3>2. CASE d = h /\ s = "displaced"
      BY <1>3, <2>3, <2>4, <3>2 DEF Precedes
    <3>3. CASE d # h
      <4>1. stage'[d] = stage[d] /\ (c # h => stage'[c] = stage[c])
        BY <2>3, <3>3
      <4>2. c = h => stage[d] \notin {"working", "final"} /\ stage'[c] \in Settled \cup {"working"}
        BY <2>2, <2>3, <2>4 DEF Precedes, Settled
      <4> QED
        BY <1>3, <2>4, <4>1, <4>2 DEF Precedes
    <3> QED
      BY <3>1, <3>2, <3>3
  <2> QED
    BY <1>1, <2>2, <2>3, <2>4, SameLog DEF InHand
<1> QED
  BY <1>4, <1>5

LEMMA FinishOrder ==
    ASSUME OrderInv, WorkerFinishes
    PROVE  Order'
<1>1. TypeInv /\ Order /\ (\A d \in Calls : Placed(d)) /\ stage \in [Calls -> Stages]
  BY HeardFacts DEF OrderInv, Inv
<1>2. cur \in Tasks \cup {Nothing} /\ UNCHANGED <<heard, queue>>
  BY <1>1 DEF TypeInv, TypeOK, WorkerFinishes
<1>3. CASE cur.type # "phase2"
  BY <1>2, <1>3, SettleStep DEF WorkerFinishes
<1>4. CASE cur.type = "phase2"
  <2> DEFINE h == cur.call
  <2>1. h \in Calls /\ cur = P2(h)
    BY <1>2, <1>4, TaskCases, TaskFacts
  <2>2. /\ stage[h] = "working" /\ stage'[h] = "final"
        /\ \A d \in Calls \ {h} : stage'[d] = stage[d]
    BY <1>1, <1>4, <2>1 DEF Placed, WorkerFinishes
  <2> HIDE DEF h
  <2>3. ASSUME NEW c \in Calls, NEW d \in Calls, c # d, Precedes(c, d)
        PROVE  Precedes(c, d)'
    BY <1>2, <2>1, <2>2, <2>3 DEF Precedes, Settled, At, Pos
  <2> QED
    BY <1>1, <1>2, <2>1, <2>2, <2>3, SameLog DEF InHand
<1> QED
  BY <1>3, <1>4

LEMMA NextOrder == OrderInv /\ [Next]_vars => OrderInv'
<1> SUFFICES ASSUME OrderInv, [Next]_vars PROVE Order'
  BY NextInv DEF OrderInv
<1> USE DEF listener, worker, supervisor, shutdown, history, HasRoom, Put, WithPill
<1>a. /\ TypeInv /\ Bookkeeping /\ Order /\ \A d \in Calls : Placed(d)
      /\ stage \in [Calls -> Stages] /\ cap \in Calls \cup {NoCall} /\ cur \in Tasks \cup {Nothing}
      /\ ListenerBusy => cap \in Calls
  BY HeardFacts DEF OrderInv, Inv, TypeInv, TypeOK
\* The listener drops what it has in hand, or nothing.
<1>b. ASSUME cap \in Calls, NEW s \in {"refused", "cut"}, stage' = [stage EXCEPT ![cap] = s],
             UNCHANGED <<heard, queue>>
      PROVE  Order'
  <2>1. stage[cap] # "unheard"
    BY <1>a, <1>b DEF Placed
  <2> QED
    BY <1>a, <1>b, <2>1, SettleStep DEF Settled
<1>c. ASSUME WorkerDies, UNCHANGED <<heard, queue>> PROVE Order'
  <2>1. cur.type = "phase2" => cur.call \in Calls /\ stage[cur.call] = "working"
    BY <1>a, TaskCases, TaskFacts DEF Placed
  <2> QED
    BY <1>a, <1>c, <2>1, SettleStep DEF WorkerDies, Settled
<1>1. ASSUME NEW c \in Calls, ConfirmTone(c) PROVE Order'
  BY <1>1, CaptureOrder
<1>2. CASE OfferPhase1
  <2>1. cap \in Calls /\ UNCHANGED <<heard, stage>>
    BY <1>2, <1>a DEF OfferPhase1, ListenerBusy
  <2>2. CASE queue' = queue
    BY <2>1, <2>2, SettleStep
  <2>3. CASE queue' = Append(queue, P1(cap))
    BY <2>1, <2>3, TaskCases, TaskFacts, PutOrder
  <2> QED
    BY <1>2, <2>2, <2>3 DEF OfferPhase1
<1>3. CASE EndCapture
  <2>1. cap \in Calls /\ UNCHANGED <<heard, queue>> /\ stage' = [stage EXCEPT ![cap] = "offered"]
    BY <1>3, <1>a DEF EndCapture, ListenerBusy
  <2>2. stage[cap] \in InHand
    BY <1>a, <2>1 DEF Placed, InHand
  <2>3. ASSUME NEW c \in Calls, NEW d \in Calls, Precedes(c, d), stage[c] \notin InHand
        PROVE  Precedes(c, d)'
    BY <1>a, <2>1, <2>2, <2>3 DEF Precedes, At, Pos
  <2> QED
    BY <1>a, <2>1, <2>2, <2>3, SameLog DEF InHand
<1>4. CASE OfferPhase2 \/ RetryPhase2
  <2>1. cap \in Calls /\ UNCHANGED heard
    BY <1>4, <1>a DEF OfferPhase2, RetryPhase2, ListenerBusy
  <2>2. CASE HandedOff("queued") /\ queue' = Put(P2(cap))
    BY <2>1, <2>2, AcceptOrder
  <2>3. CASE HandedOff("refused") /\ UNCHANGED queue
    BY <1>b, <2>1, <2>3 DEF HandedOff
  <2>4. CASE UNCHANGED <<queue, stage>>
    BY <2>1, <2>4, SettleStep
  <2> QED
    BY <1>4, <2>2, <2>3, <2>4 DEF OfferPhase2, RetryPhase2
<1>5. CASE MakeRoom
  <2>1. CASE queue # <<>> /\ queue' = Tail(queue) /\ stage' # stage
    BY <1>5, <2>1, HeadOrder DEF MakeRoom
  <2> QED
    BY <1>5, HeadOrder, SettleStep DEF MakeRoom
<1>6. CASE ListenerRaises
  <2>1. UNCHANGED <<heard, queue>>
    BY <1>6 DEF ListenerRaises
  <2>2. CASE cap = NoCall
    BY <1>6, <2>1, <2>2, SettleStep DEF ListenerRaises
  <2>3. CASE cap # NoCall
    BY <1>6, <1>a, <1>b, <2>1, <2>3 DEF ListenerRaises
  <2> QED
    BY <2>2, <2>3
<1>7. CASE WorkerTakes
  <2>1. queue # <<>> /\ queue' = Tail(queue) /\ UNCHANGED heard /\ cur = Nothing
    BY <1>7, <1>a DEF WorkerTakes, Bookkeeping
  <2>2. stage' = IF Head(queue).type = "phase2" THEN [stage EXCEPT ![Head(queue).call] = "working"]
                 ELSE stage
    BY <1>7, TaskFacts DEF WorkerTakes
  <2> QED
    BY <2>1, <2>2, HeadOrder
<1>8. CASE WorkerFinishes
  BY <1>8, FinishOrder
<1>9. CASE WorkerCrashes
  BY <1>9, <1>c DEF WorkerCrashes
<1>10. CASE Sigterm \/ TerminateChildren
  <2>1. UNCHANGED <<heard, queue>> /\ (UNCHANGED stage \/ WorkerDies)
    BY <1>10 DEF Sigterm, TerminateChildren
  <2> QED
    BY <1>c, <2>1, SettleStep
<1>11. CASE PutPill
  <2>1. queue' = Append(queue, Pill) /\ UNCHANGED <<heard, stage>>
    BY <1>11 DEF PutPill
  <2> QED
    BY <2>1, TaskFacts, PutOrder
<1>12. CASE Killed
  <2>1. UNCHANGED heard /\ queue' = <<>>
        /\ \A c \in Calls : stage'[c] = IF stage[c] \in Settled \cup {"unheard"} THEN stage[c]
                                       ELSE "abandoned"
    BY <1>12 DEF Killed
  <2>2. \A t : At(t)' = {}
    BY <2>1, EmptySeq DEF At, Pos
  <2>3. ASSUME NEW c \in Calls, NEW d \in Calls, Precedes(c, d) PROVE Precedes(c, d)'
    BY <2>1, <2>2, <2>3 DEF Precedes, Settled
  <2> QED
    BY <1>a, <2>1, <2>3, SameLog DEF InHand, Settled
<1>13. CASE \/ HearSound \/ RejectTone \/ StopListening
            \/ WorkerBoots \/ WorkerWaits
            \/ SupervisorStep
            \/ StopSupervisor \/ CheckWorker \/ JoinReturns \/ Exit
            \/ UNCHANGED vars
  <2>1. UNCHANGED <<heard, queue, stage>>
    BY <1>13 DEF HearSound, RejectTone, StopListening, WorkerBoots, WorkerWaits,
       SupervisorStep, SupervisorWakes, SupervisorLeaves, SupervisorGivesUp,
       SupervisorRespawns, SpawnFails, RestartAges, StopSupervisor, CheckWorker,
       JoinReturns, Exit, vars
  <2> QED
    BY <2>1, SettleStep
<1> QED
  BY <1>1, <1>2, <1>3, <1>4, <1>5, <1>6, <1>7, <1>8, <1>9, <1>10, <1>11, <1>12, <1>13
  DEF Next, ListenerStep, WorkerStep, MainStep

(***************************************************************************)
(* Every step is one of CallLog, or none.                                  *)
(***************************************************************************)

LEMMA OutcomeCases ==
    /\ \A s \in Stages : Outcome(s) \in {"unheard", "pending", "final", "lost"}
    /\ \A s \in Stages : /\ Outcome(s) = "unheard" <=> s = "unheard"
                         /\ Outcome(s) = "final" <=> s = "final"
                         /\ Outcome(s) = "pending" <=> s \in Stages \ (Settled \cup {"unheard"})
                         /\ Outcome(s) = "lost" <=> s \in Settled \ {"final"}
  BY DEF Outcome, Stages, Settled

\* Recordings move on, or are lost: CallLog's Lose, or nothing.
LEMMA LoseStep ==
    ASSUME UNCHANGED heard, stage \in [Calls -> Stages], stage' \in [Calls -> Stages],
           \A c \in Calls : \/ Outcome(stage'[c]) = Outcome(stage[c])
                            \/ Outcome(stage[c]) = "pending" /\ Outcome(stage'[c]) = "lost"
    PROVE  [Promise!Next]_(Promise!vars)
<1> DEFINE lost == {c \in Calls : Outcome(stage'[c]) # Outcome(stage[c])}
<1>1. \A c \in lost : Outcome(stage[c]) = "pending"
  OBVIOUS
<1>2. [c \in Calls |-> Outcome(stage'[c])] =
      [c \in Calls |-> IF c \in lost THEN "lost" ELSE [d \in Calls |-> Outcome(stage[d])][c]]
  OBVIOUS
<1>3. CASE lost = {}
  <2>1. [c \in Calls |-> Outcome(stage'[c])] = [c \in Calls |-> Outcome(stage[c])]
    BY <1>3
  <2> QED
    BY <2>1 DEF Promise!vars
<1>4. CASE lost # {}
  <2>1. Promise!Lose(lost)
    BY <1>1, <1>2, <1>4 DEF Promise!Lose
  <2>2. lost \in SUBSET Calls
    OBVIOUS
  <2> QED
    BY <2>1, <2>2 DEF Promise!Next
<1> QED
  BY <1>3, <1>4

LEMMA InitPromise == Init => Promise!Init
  BY DEF Init, Promise!Init, Outcome

LEMMA MoveStep ==
    ASSUME UNCHANGED heard, stage \in [Calls -> Stages], stage' \in [Calls -> Stages],
           NEW h \in Calls, NEW s, stage' = [stage EXCEPT ![h] = s],
           Outcome(stage[h]) = "pending", Outcome(s) \in {"pending", "lost"}
    PROVE  [Promise!Next]_(Promise!vars)
<1>1. ASSUME NEW c \in Calls
      PROVE  \/ Outcome(stage'[c]) = Outcome(stage[c])
             \/ Outcome(stage[c]) = "pending" /\ Outcome(stage'[c]) = "lost"
  <2>1. CASE c = h
    BY <2>1
  <2>2. CASE c # h
    <3>1. stage'[c] = stage[c]
      BY <2>2
    <3> QED
      BY <3>1
  <2> QED
    BY <2>1, <2>2
<1> QED
  BY <1>1, LoseStep

\* The worker is on the recording of a call: none captured later has been finalised.
LEMMA FinalStep ==
    ASSUME OrderInv, WorkerFinishes, cur.type = "phase2"
    PROVE  Promise!Next
<1> DEFINE h == cur.call
<1>1. /\ TypeInv /\ Order /\ \A d \in Calls : Placed(d)
      /\ stage \in [Calls -> Stages] /\ cur \in Tasks \cup {Nothing}
  BY HeardFacts DEF OrderInv, Inv, TypeInv, TypeOK
<1>2. h \in Calls /\ cur = P2(h)
  BY <1>1, TaskCases, TaskFacts
<1>3. stage[h] = "working" /\ stage' = [stage EXCEPT ![h] = "final"] /\ UNCHANGED heard
  BY <1>1, <1>2 DEF Placed, WorkerFinishes, listener
<1> HIDE DEF h
<1>4. PICK i \in DOMAIN heard : heard[i] = h
  BY <1>1, <1>2, <1>3 DEF Order
<1>5. ASSUME NEW j \in DOMAIN heard, j > i PROVE Outcome(stage[heard[j]]) # "final"
  <2>1. heard[j] \in Calls /\ Precedes(h, heard[j])
    BY <1>1, <1>4, <1>5, HeardFacts DEF Order
  <2>2. stage[heard[j]] # "final"
    BY <1>3, <2>1 DEF Precedes, Settled
  <2> QED
    BY <1>1, <2>1, <2>2, OutcomeCases
<1>6. Outcome(stage[h]) = "pending"
  BY <1>3 DEF Outcome, Settled
<1>7. [c \in Calls |-> Outcome(stage'[c])] =
      [[c \in Calls |-> Outcome(stage[c])] EXCEPT ![h] = "final"]
  BY <1>1, <1>2, <1>3 DEF Outcome
<1>8. \A j \in DOMAIN heard : heard[j] \in Calls
  BY <1>1, HeardFacts
<1>9. Promise!Finalise(i)
  BY <1>2, <1>3, <1>4, <1>5, <1>6, <1>7, <1>8 DEF Promise!Finalise
<1> QED
  BY <1>9 DEF Promise!Next

LEMMA NextPromise == OrderInv /\ OrderInv' /\ [Next]_vars => [Promise!Next]_(Promise!vars)
<1> SUFFICES ASSUME OrderInv, OrderInv', [Next]_vars PROVE [Promise!Next]_(Promise!vars)
  OBVIOUS
<1>a. /\ stage \in [Calls -> Stages] /\ stage' \in [Calls -> Stages]
      /\ TypeInv /\ Bookkeeping /\ Order /\ \A d \in Calls : Placed(d)
      /\ cap \in Calls \cup {NoCall} /\ cur \in Tasks \cup {Nothing}
      /\ ListenerBusy => cap \in Calls
  BY DEF OrderInv, Inv, TypeInv, TypeOK
<1> USE DEF listener, worker, supervisor, shutdown, history
<1>b. /\ \A s \in InHand \cup {"queued", "working"} : Outcome(s) = "pending"
      /\ \A s \in Settled \ {"final"} : Outcome(s) = "lost"
  BY DEF Outcome, InHand, Settled
<1>c. /\ cap \in Calls => Outcome(stage[cap]) = "pending"
      /\ cur.type = "phase2" => cur.call \in Calls /\ Outcome(stage[cur.call]) = "pending"
  BY <1>a, <1>b, TaskCases, TaskFacts DEF Placed, InHand
<1>d. queue # <<>> /\ queue' = Tail(queue) /\ Head(queue).type = "phase2"
      => Head(queue).call \in Calls /\ Outcome(stage[Head(queue).call]) = "pending"
  <2> SUFFICES ASSUME queue # <<>>, queue' = Tail(queue), Head(queue).type = "phase2"
               PROVE  Head(queue).call \in Calls /\ stage[Head(queue).call] = "queued"
    BY <1>b
  <2>1. Head(queue) \in Tasks \cup {Pill} /\ 1 \in At(Head(queue))
    BY <1>a, TailStep
  <2>2. Head(queue).call \in Calls /\ Head(queue) = P2(Head(queue).call)
    BY <2>1, TaskCases, TaskFacts
  <2> QED
    BY <1>a, <2>1, <2>2 DEF Placed
<1>e. UNCHANGED <<heard, stage>> => [Promise!Next]_(Promise!vars)
  BY <1>a, LoseStep
<1>f. WorkerDies /\ UNCHANGED heard => [Promise!Next]_(Promise!vars)
  <2> SUFFICES ASSUME WorkerDies, UNCHANGED heard PROVE [Promise!Next]_(Promise!vars)
    OBVIOUS
  <2>1. "crashed" \in Settled \ {"final"}
    BY DEF Settled
  <2>2. CASE cur.type = "phase2"
    BY <1>a, <1>b, <1>c, <2>1, <2>2, MoveStep DEF WorkerDies
  <2>3. CASE cur.type # "phase2"
    BY <1>e, <2>3 DEF WorkerDies
  <2> QED
    BY <2>2, <2>3
<1>1. ASSUME NEW c \in Calls, ConfirmTone(c) PROVE Promise!Next
  <2>1. [d \in Calls |-> Outcome(stage'[d])] =
        [[d \in Calls |-> Outcome(stage[d])] EXCEPT ![c] = "pending"]
    BY <1>1, <1>a DEF ConfirmTone, Outcome, Settled
  <2>2. Outcome(stage[c]) = "unheard" /\ heard' = Append(heard, c)
    BY <1>1 DEF ConfirmTone, Outcome
  <2>3. Promise!Capture(c)
    BY <2>1, <2>2 DEF Promise!Capture
  <2> QED
    BY <2>3 DEF Promise!Next
<1>2. CASE EndCapture
  BY <1>2, <1>a, <1>b, <1>c, MoveStep DEF EndCapture, ListenerBusy, InHand
<1>3. CASE OfferPhase2 \/ RetryPhase2
  <2>1. cap \in Calls /\ UNCHANGED heard
    BY <1>3, <1>a DEF OfferPhase2, RetryPhase2, ListenerBusy
  <2>2. ASSUME NEW s \in {"queued", "refused"}, HandedOff(s) PROVE [Promise!Next]_(Promise!vars)
    <3>1. Outcome(s) \in {"pending", "lost"}
      BY <1>b DEF Settled
    <3> QED
      BY <1>a, <1>c, <2>1, <2>2, <3>1, MoveStep DEF HandedOff
  <2> QED
    BY <1>3, <1>e, <2>1, <2>2 DEF OfferPhase2, RetryPhase2
<1>4. CASE MakeRoom
  <2>1. "displaced" \in Settled \ {"final"} /\ UNCHANGED heard
    BY <1>4 DEF Settled, MakeRoom
  <2>2. CASE stage' = stage
    BY <1>e, <2>1, <2>2
  <2>3. CASE stage' # stage
    BY <1>4, <1>a, <1>b, <1>d, <2>1, <2>3, MoveStep DEF MakeRoom
  <2> QED
    BY <2>2, <2>3
<1>5. CASE ListenerRaises
  <2>1. "cut" \in Settled \ {"final"} /\ UNCHANGED heard
    BY <1>5 DEF Settled, ListenerRaises
  <2>2. CASE cap = NoCall
    BY <1>5, <1>e, <2>1, <2>2 DEF ListenerRaises
  <2>3. CASE cap # NoCall
    BY <1>5, <1>a, <1>b, <1>c, <2>1, <2>3, MoveStep DEF ListenerRaises
  <2> QED
    BY <2>2, <2>3
<1>6. CASE WorkerTakes
  <2>1. UNCHANGED heard /\ queue # <<>> /\ queue' = Tail(queue)
    BY <1>6 DEF WorkerTakes
  <2>2. CASE stage' = stage
    BY <1>e, <2>1, <2>2
  <2>3. CASE stage' # stage
    BY <1>6, <1>a, <1>b, <1>d, <2>1, <2>3, MoveStep DEF WorkerTakes
  <2> QED
    BY <2>2, <2>3
<1>7. CASE WorkerFinishes
  <2>1. CASE cur.type = "phase2"
    BY <1>7, <2>1, FinalStep
  <2>2. CASE cur.type # "phase2"
    BY <1>7, <1>e, <2>2 DEF WorkerFinishes
  <2> QED
    BY <2>1, <2>2
<1>8. CASE WorkerCrashes
  BY <1>8, <1>f DEF WorkerCrashes
<1>9. CASE Sigterm \/ TerminateChildren
  BY <1>9, <1>e, <1>f DEF Sigterm, TerminateChildren
<1>10. CASE Killed
  <2>1. UNCHANGED heard
        /\ \A c \in Calls : stage'[c] = IF stage[c] \in Settled \cup {"unheard"} THEN stage[c]
                                       ELSE "abandoned"
    BY <1>10 DEF Killed
  <2>2. "abandoned" \in Settled \ {"final"}
    BY DEF Settled
  <2>3. ASSUME NEW c \in Calls
        PROVE  \/ Outcome(stage'[c]) = Outcome(stage[c])
               \/ Outcome(stage[c]) = "pending" /\ Outcome(stage'[c]) = "lost"
    <3>1. CASE stage[c] \in Settled \cup {"unheard"}
      BY <2>1, <3>1
    <3>2. CASE stage[c] \notin Settled \cup {"unheard"}
      BY <1>a, <1>b, <2>1, <2>2, <3>2, OutcomeCases
    <3> QED
      BY <3>1, <3>2
  <2> QED
    BY <1>a, <2>1, <2>3, LoseStep
<1>11. CASE \/ HearSound \/ RejectTone \/ OfferPhase1 \/ StopListening
            \/ WorkerBoots \/ WorkerWaits
            \/ SupervisorStep
            \/ StopSupervisor \/ PutPill \/ CheckWorker \/ JoinReturns \/ Exit
            \/ UNCHANGED vars
  <2>1. UNCHANGED <<heard, stage>>
    BY <1>11 DEF HearSound, RejectTone, OfferPhase1, StopListening, WorkerBoots, WorkerWaits,
       SupervisorStep, SupervisorWakes, SupervisorLeaves, SupervisorGivesUp,
       SupervisorRespawns, SpawnFails, RestartAges, StopSupervisor, PutPill, CheckWorker,
       JoinReturns, Exit, vars
  <2> QED
    BY <1>e, <2>1
<1> QED
  BY <1>1, <1>2, <1>3, <1>4, <1>5, <1>6, <1>7, <1>8, <1>9, <1>10, <1>11
  DEF Next, ListenerStep, WorkerStep, MainStep

\* The agent implements CallLog: a call is settled once, and calls are finalised in the order in
\* which they were captured, whatever is displaced, refused, lost to a crash or cut off.
THEOREM RefinesCallLogCorrect == Spec => RefinesCallLog
<1>1. Init => OrderInv
  BY InitInv, InitOrder DEF OrderInv
<1> QED
  BY <1>1, NextOrder, InitPromise, NextPromise, PTL DEF Spec, RefinesCallLog, Promise!Spec
=============================================================================
