-------------------------- MODULE DispatchPipelineProofs --------------------------
(***************************************************************************)
(* Proofs about DispatchPipeline and the endpoints it calls, for every set *)
(* of calls and of gateway threads, and every number of checks, faults and *)
(* requests of the operator.                                               *)
(***************************************************************************)
EXTENDS DispatchPipeline, TLAPS

(***************************************************************************)
(* Types.  The worker awaits an answer exactly while it waits, and the     *)
(* thread it awaits is on its request.                                     *)
(***************************************************************************)

Requests == [st : {"free", "read", "write", "refresh", "publish", "ok", "error"},
             from : {"worker", "operator", "nobody"},
             kind : {"none", "INSERT", "POST", "PATCH", "DELETE"},
             call : Calls \cup {NoCall}, body : Bodies, seen : Rows]
Copies == [call : Calls \cup {NoCall}, place : Places, test : Flags]

GatewayType ==
    /\ row \in [Calls -> Rows]
    /\ serial \in Nat
    /\ req \in [Threads -> Requests]
    /\ \A t \in Threads : req[t].st # "free" => req[t].call \in Calls
    /\ shown \in [Calls -> Places]
    /\ desk \in Copies
    /\ desk # NoCopy => desk.call \in Calls
    /\ edits \in 0..MaxEdits
    /\ contended \subseteq Calls
    /\ unsent \subseteq Calls

TaskType ==
    /\ pc \in {"idle"} \cup Phase1Steps \cup Phase2Steps
    /\ IF pc = "idle" THEN call = NoCall ELSE call \in Calls
    /\ IF pc \in {"wait1", "wait2"}
       THEN awaited \in Threads /\ req[awaited].st # "free" /\ req[awaited].from = "worker"
            /\ req[awaited].call = call
       ELSE awaited = NoThread
    /\ form \in Forms

LocalType ==
    /\ checks \in [Calls -> 0..MaxChecks]
    /\ stage \in [Calls -> {"fresh", "open", "final", "failed", "dropped"}]
    /\ sessions \subseteq Calls
    /\ stale \subseteq sessions
    /\ inserted \in [Calls -> Nat]
    /\ pushed \in [Calls -> Nat]
    /\ faults \in 0..MaxFaults
    /\ blind \subseteq Calls
    /\ missed \subseteq Calls \X {1, 2}
    /\ unclean \subseteq Calls
    /\ crossed \subseteq Calls

Type == GatewayType /\ TaskType /\ LocalType

LEMMA BasicTypes ==
    /\ NoBody \in Bodies /\ NoRow \in Rows /\ Free \in Requests /\ NoCopy \in Copies
    /\ \A c \in Calls : c # NoCall
    /\ \A t \in Threads : t # NoThread
    /\ NoCopy.call = NoCall
  BY GatewayConstantsOK, PipelineConstantsOK
  DEF NoBody, Bodies, NoRow, Rows, Free, Requests, NoCopy, Copies, Places, Flags, Named

\* What is left of a request that was answered.
LEMMA AnsweredFacts ==
    ASSUME NEW t \in Threads, req[t] \in Requests, NEW st \in {"ok", "error"}
    PROVE  /\ Answered(t, st) \in Requests
           /\ Answered(t, st).st = st
           /\ Answered(t, st).from = req[t].from
           /\ Answered(t, st).call = req[t].call
           /\ Answered(t, st).kind = "none"
           /\ Answered(t, st).body = NoBody
           /\ Answered(t, st).seen = NoRow
<1>1. Free \in Requests /\ Free.kind = "none" /\ Free.body = NoBody /\ Free.seen = NoRow
  BY BasicTypes DEF Free
<1>2. req[t].from \in {"worker", "operator", "nobody"} /\ req[t].call \in Calls \cup {NoCall}
  BY DEF Requests
<1> QED
  BY <1>1, <1>2 DEF Answered, Requests

LEMMA InitType == Init => Type
<1> SUFFICES ASSUME Init PROVE Type
  OBVIOUS
<1>1. GatewayType
  BY BasicTypes, GatewayConstantsOK DEF Init, GatewayInit, GatewayType, Places, Free
<1>2. TaskType
  BY DEF Init, TaskType, Forms
<1>3. LocalType
  BY PipelineConstantsOK DEF Init, LocalType
<1> QED
  BY <1>1, <1>2, <1>3 DEF Type

\* What a write leaves is a row.
LEMMA WriteTypes ==
    /\ \A now \in Rows, seen \in Rows, b \in Bodies :
         /\ Settle(b, seen) \in [place : Places, test : Flags]
         /\ Merge(now, seen, b) \in Rows /\ Merge(now, seen, b).id = now.id
    /\ \A id \in Nat, b \in Bodies : Created(id, b) \in Rows /\ Created(id, b).id = id
<1>1. ASSUME NEW seen \in Rows, NEW b \in Bodies
      PROVE  Settle(b, seen) \in [place : Places, test : Flags]
  <2>1. Target(seen) \in [place : Places, test : Flags]
    BY DEF Target, Rows
  <2>2. b.place # "keep" => [place |-> b.place, test |-> b.test] \in [place : Places, test : Flags]
    BY DEF Bodies
  <2>3. b.flag \in Flags /\ seen.test \in Flags
    BY DEF Bodies, Rows
  <2> QED
    BY <2>1, <2>2, <2>3 DEF Settle
<1>2. ASSUME NEW now \in Rows, NEW seen \in Rows, NEW b \in Bodies
      PROVE  Merge(now, seen, b) \in Rows /\ Merge(now, seen, b).id = now.id
  <2> DEFINE target == IF Settle(b, seen) = Target(seen) THEN Target(now) ELSE Settle(b, seen)
  <2>1. target.place \in Places /\ target.test \in Flags
    <3>1. Target(now) \in [place : Places, test : Flags]
      BY DEF Target, Rows
    <3> QED
      BY <1>1, <3>1
  <2>2. Merge(now, seen, b) = [now EXCEPT !.place = target.place, !.test = target.test,
                                         !.audio = @ \/ b.audio, !.reviewed = @ \/ b.review]
    BY DEF Merge
  <2> HIDE DEF target
  <2> QED
    BY <2>1, <2>2 DEF Rows, Bodies
<1>3. ASSUME NEW id \in Nat, NEW b \in Bodies PROVE Created(id, b) \in Rows /\ Created(id, b).id = id
  <2>1. Settle(b, NoRow).test \in Flags
    BY <1>1, BasicTypes
  <2> QED
    BY <2>1 DEF Created, Rows, Bodies, Places
<1> QED
  BY <1>1, <1>2, <1>3

\* A request that arrives, and one that a thread goes on with or is done with.
LEMMA ArrivesType ==
    ASSUME Type, NEW t \in Threads, NEW from \in {"worker", "operator"},
           NEW kind \in {"POST", "PATCH", "DELETE"}, NEW c \in Calls, NEW body \in Bodies,
           Arrives(t, from, kind, c, body)
    PROVE  /\ req' \in [Threads -> Requests]
           /\ \A u \in Threads : req'[u].st # "free" => req'[u].call \in Calls
           /\ contended' \subseteq Calls
           /\ req'[t].st # "free" /\ req'[t].from = from /\ req'[t].call = c
           /\ \A u \in Threads \ {t} : req'[u] = req[u]
           /\ req[t].st = "free"
<1> DEFINE r == [st |-> "read", from |-> from, kind |-> kind, call |-> c, body |-> body, seen |-> NoRow]
<1>1. r \in Requests /\ r.st # "free" /\ r.from = from /\ r.call = c
  BY BasicTypes DEF Requests
<1>2. req' = [req EXCEPT ![t] = r] /\ req[t].st = "free"
  BY DEF Arrives
<1>3. contended' \subseteq Calls
  BY DEF Arrives, Type, GatewayType
<1> HIDE DEF r
<1> QED
  BY <1>1, <1>2, <1>3 DEF Type, GatewayType

LEMMA GatewayStepType ==
    ASSUME Type, Gateway
    PROVE  Type' /\ UNCHANGED Local
<1>a. LocalType' /\ UNCHANGED Local
  <2>1. UNCHANGED Local
    BY DEF Gateway
  <2>2. faults' \in 0..MaxFaults
    BY PipelineConstantsOK DEF Gateway, Fault, Type, LocalType
  <2> QED
    BY <2>1, <2>2 DEF Local, Type, LocalType, task, tally, store, told, history
<1>b. /\ row \in [Calls -> Rows] /\ req \in [Threads -> Requests] /\ serial \in Nat
      /\ \A t \in Threads : req[t] \in Requests /\ (req[t].st # "free" => req[t].call \in Calls)
      /\ UNCHANGED <<pc, call, awaited, form>>
  BY <1>a DEF Type, GatewayType, Local, task
\* The thread of a request the worker awaits stays its own until the worker reads the answer.
<1>c. ASSUME NEW t \in Threads, NEW r \in Requests, req' = [req EXCEPT ![t] = r],
             r.st # "free" => r.call \in Calls,
             \/ r.st # "free" /\ r.from = req[t].from /\ r.call = req[t].call
             \/ req[t].from # "worker"
      PROVE  /\ req' \in [Threads -> Requests]
             /\ \A u \in Threads : req'[u].st # "free" => req'[u].call \in Calls
             /\ TaskType'
  BY <1>b, <1>c DEF Type, TaskType
<1>1. ASSUME NEW t \in Threads, ReadRecord(t) PROVE Type'
  <2>1. row[req[t].call] \in Rows
    BY <1>1, <1>b DEF ReadRecord
  <2> DEFINE r == IF row[req[t].call] = NoRow /\ req[t].kind # "POST"
                  THEN Answered(t, "error")
                  ELSE [req[t] EXCEPT !.seen = row[req[t].call], !.st = "write"]
  <2>2. r \in Requests /\ r.st # "free" /\ r.from = req[t].from /\ r.call = req[t].call
    BY <1>b, <2>1, AnsweredFacts DEF Requests
  <2>3. req' = [req EXCEPT ![t] = r] /\ req[t].st # "free"
    BY <1>1, <1>b DEF ReadRecord
  <2> HIDE DEF r
  <2> QED
    BY <1>1, <1>a, <1>b, <1>c, <2>2, <2>3 DEF ReadRecord, Type, GatewayType
<1>2. ASSUME NEW t \in Threads, CommitInsert(t) PROVE Type'
  <2> DEFINE made == Created(serial + 1, req[t].body)
  <2>1. made \in Rows
    BY <1>b, WriteTypes DEF Requests
  <2> HIDE DEF made
  <2> DEFINE r == IF row[req[t].call] = NoRow
                  THEN [req[t] EXCEPT !.kind = "INSERT", !.st = "refresh", !.seen = made]
                  ELSE Answered(t, "error")
  <2>2. r \in Requests /\ r.st # "free" /\ r.from = req[t].from /\ r.call = req[t].call
    BY <1>b, <2>1, AnsweredFacts DEF Requests
  <2>3. req' = [req EXCEPT ![t] = r] /\ req[t].st # "free"
    BY <1>2, <1>b DEF CommitInsert, made
  <2>4. row' \in [Calls -> Rows] /\ serial' \in Nat
    BY <1>2, <1>b, <2>1 DEF CommitInsert, made
  <2> HIDE DEF r
  <2> QED
    BY <1>2, <1>a, <1>b, <1>c, <2>2, <2>3, <2>4 DEF CommitInsert, Type, GatewayType
<1>3. ASSUME NEW t \in Threads, CommitUpdate(t) PROVE Type'
  <2>1. req[t].st = "write" /\ row[req[t].call] \in Rows /\ req[t].seen \in Rows /\ req[t].body \in Bodies
    BY <1>3, <1>b DEF CommitUpdate, Requests
  <2> DEFINE r == IF row[req[t].call].id = req[t].seen.id THEN [req[t] EXCEPT !.st = "refresh"]
                  ELSE Answered(t, "error")
  <2>2. r \in Requests /\ r.st # "free" /\ r.from = req[t].from /\ r.call = req[t].call
    BY <1>b, AnsweredFacts DEF Requests
  <2>3. req' = [req EXCEPT ![t] = r]
    BY <1>3, <1>b DEF CommitUpdate
  <2> DEFINE merged == Merge(row[req[t].call], req[t].seen, req[t].body)
  <2>5. merged \in Rows
    BY <2>1, WriteTypes
  <2>6. row' = row \/ row' = [row EXCEPT ![req[t].call] = merged]
    BY <1>3 DEF CommitUpdate
  <2> HIDE DEF merged
  <2>4. row' \in [Calls -> Rows]
    BY <1>b, <2>5, <2>6
  <2> HIDE DEF r
  <2> QED
    BY <1>3, <1>a, <1>b, <1>c, <2>1, <2>2, <2>3, <2>4 DEF CommitUpdate, Type, GatewayType
<1>4. ASSUME NEW t \in Threads, CommitDelete(t) PROVE Type'
  <2> DEFINE r == [req[t] EXCEPT !.st = "publish"]
  <2>2. r \in Requests /\ r.st # "free" /\ r.from = req[t].from /\ r.call = req[t].call
    BY <1>b, AnsweredFacts DEF Requests
  <2>3. req' = [req EXCEPT ![t] = r] /\ req[t].st # "free"
    BY <1>4, <1>b DEF CommitDelete
  <2>4. row' \in [Calls -> Rows]
    BY <1>4, <1>b, BasicTypes DEF CommitDelete
  <2> HIDE DEF r
  <2> QED
    BY <1>4, <1>a, <1>b, <1>c, <2>2, <2>3, <2>4 DEF CommitDelete, Type, GatewayType
<1>5. ASSUME NEW t \in Threads, RefreshRecord(t) PROVE Type'
  <2>1. row[req[t].call] \in Rows
    BY <1>5, <1>b DEF RefreshRecord
  <2> DEFINE r == IF row[req[t].call].id = req[t].seen.id
                  THEN [req[t] EXCEPT !.st = "publish", !.seen = row[req[t].call]]
                  ELSE Answered(t, "error")
  <2>2. r \in Requests /\ r.st # "free" /\ r.from = req[t].from /\ r.call = req[t].call
    BY <1>b, <2>1, AnsweredFacts DEF Requests
  <2>3. req' = [req EXCEPT ![t] = r] /\ req[t].st # "free"
    BY <1>5, <1>b DEF RefreshRecord, Reread
  <2> HIDE DEF r
  <2> QED
    BY <1>5, <1>a, <1>b, <1>c, <2>2, <2>3 DEF RefreshRecord, Type, GatewayType
<1>6. ASSUME NEW t \in Threads, PublishEvent(t) \/ EventLost(t) PROVE Type'
  <2> DEFINE r == Answered(t, "ok")
  <2>2. r \in Requests /\ r.st # "free" /\ r.from = req[t].from /\ r.call = req[t].call
    BY <1>b, AnsweredFacts DEF Requests
  <2>3. req' = [req EXCEPT ![t] = r] /\ req[t].st # "free"
    BY <1>6, <1>b DEF PublishEvent, EventLost
  <2>4. shown' \in [Calls -> Places] /\ unsent' \subseteq Calls
    BY <1>6, <1>b, <2>3 DEF PublishEvent, EventLost, Type, GatewayType, Requests, Rows
  <2> HIDE DEF r
  <2> QED
    BY <1>6, <1>a, <1>b, <1>c, <2>2, <2>3, <2>4 DEF PublishEvent, EventLost, Type, GatewayType
<1>7. ASSUME NEW t \in Threads, AnswerRead(t) PROVE Type'
  <2>1. Free.st = "free" /\ Free \in Requests
    BY BasicTypes DEF Free
  <2> QED
    BY <1>7, <1>a, <1>b, <1>c, <2>1 DEF AnswerRead, Type, GatewayType
<1> QED
  BY <1>a, <1>1, <1>2, <1>3, <1>4, <1>5, <1>6, <1>7 DEF Gateway

\* Of a step of the worker that keeps to itself, what is left to show.
LEMMA LocalStepType ==
    ASSUME Type, UNCHANGED gateway, TaskType', LocalType'
    PROVE  Type'
  BY DEF Type, GatewayType, gateway

\* The steps of a handler, told apart.
LEMMA StepFacts ==
    /\ Phase1Steps \cap Phase2Steps = {}
    /\ "idle" \notin Phase1Steps \cup Phase2Steps
    /\ {"wait1", "publish1", "push1"} \subseteq Phase1Steps
    /\ {"wait2", "publish2", "push2", "cleanup2"} \subseteq Phase2Steps
  BY DEF Phase1Steps, Phase2Steps

LEMMA WorkerStepType ==
    ASSUME Type, Worker
    PROVE  Type'
<1> USE DEF Phase1Steps, Phase2Steps, Forms
<1>a. TaskType /\ LocalType /\ GatewayType
  BY DEF Type
<1>b. MaxFaults \in Nat /\ MaxChecks \in Nat
  BY PipelineConstantsOK
<1>1. ASSUME NEW c \in Calls, CheckPhase1(c) \/ CheckPhase1Blind(c) PROVE Type'
  <2>1. UNCHANGED gateway
    BY <1>1 DEF CheckPhase1, CheckPhase1Blind
  <2>2. TaskType'
    BY <1>1, <1>a DEF CheckPhase1, CheckPhase1Blind, NextInLine, TaskType, task, gateway
  <2>3. checks' \in [Calls -> 0..MaxChecks] /\ faults' \in 0..MaxFaults
    BY <1>1, <1>a, <1>b DEF CheckPhase1, CheckPhase1Blind, LocalType, Fault
  <2>4. stage' \in [Calls -> {"fresh", "open", "final", "failed", "dropped"}]
    BY <1>1, <1>a DEF CheckPhase1, CheckPhase1Blind, LocalType
  <2>5. sessions' \subseteq Calls /\ stale' \subseteq sessions' /\ blind' \subseteq Calls
    BY <1>1, <1>a DEF CheckPhase1, CheckPhase1Blind, LocalType, Kept, Swept
  <2>6. LocalType'
    BY <1>1, <1>a, <2>3, <2>4, <2>5 DEF CheckPhase1, CheckPhase1Blind, LocalType, told
  <2> QED
    BY <2>1, <2>2, <2>6, LocalStepType
<1>2. ASSUME NEW c \in Calls, StartPhase2(c) PROVE Type'
  <2>1. TaskType' /\ UNCHANGED gateway
    BY <1>2, <1>a DEF StartPhase2, NextInLine, TaskType, gateway
  <2>2. LocalType'
    BY <1>2, <1>a DEF StartPhase2, LocalType, store, told, history
  <2> QED
    BY <2>1, <2>2, LocalStepType
<1>3. ASSUME Phase1NotYet \/ Phase1Complete PROVE Type'
  <2>1. TaskType' /\ UNCHANGED gateway
    BY <1>3, <1>a DEF Phase1NotYet, Phase1Complete, Idle, Goto, TaskType, gateway
  <2>2. LocalType'
    BY <1>3, <1>a DEF Phase1NotYet, Phase1Complete, LocalType, store, told, history, tally
  <2> QED
    BY <2>1, <2>2, LocalStepType
<1>4. ASSUME RecordPhase1 \/ RecordPhase1Fails PROVE Type'
  <2>1. TaskType' /\ UNCHANGED gateway /\ call \in Calls
    BY <1>4, <1>a DEF RecordPhase1, RecordPhase1Fails, Goto, TaskType, gateway
  <2>2. sessions' \subseteq Calls /\ stale' \subseteq sessions' /\ blind' \subseteq Calls
    BY <1>4, <1>a, <2>1 DEF RecordPhase1, RecordPhase1Fails, LocalType, Kept, Swept
  <2>3. LocalType'
    BY <1>4, <1>a, <1>b, <2>2 DEF RecordPhase1, RecordPhase1Fails, LocalType, told, tally, Fault
  <2> QED
    BY <2>1, <2>2, <2>3, LocalStepType
<1>5. ASSUME NEW t \in Threads, SendRequest(t) PROVE Type'
  <2>1. call \in Calls /\ Method \in {"POST", "PATCH", "DELETE"} /\ Payload \in Bodies
    BY <1>5, <1>a DEF SendRequest, Saving, Method, Payload, Bodies, Flags, Places, Named, TaskType
  <2>2. Arrives(t, "worker", Method, call, Payload)
    BY <1>5 DEF SendRequest
  <2>3. /\ req' \in [Threads -> Requests]
        /\ \A u \in Threads : req'[u].st # "free" => req'[u].call \in Calls
        /\ contended' \subseteq Calls
        /\ req'[t].st # "free" /\ req'[t].from = "worker" /\ req'[t].call = call
    BY <2>1, <2>2, ArrivesType
  <2>4. GatewayType'
    BY <1>5, <1>a, <2>3 DEF SendRequest, GatewayType
  <2>5. TaskType'
    BY <1>5, <1>a, <2>1, <2>3 DEF SendRequest, TaskType, Saving
  <2>6. LocalType'
    BY <1>5, <1>a DEF SendRequest, LocalType, store, told, history, tally
  <2> QED
    BY <2>4, <2>5, <2>6 DEF Type
<1>6. ASSUME RequestFails PROVE Type'
  <2>1. TaskType' /\ UNCHANGED gateway /\ call \in Calls
    BY <1>6, <1>a DEF RequestFails, Goto, TaskType, gateway, Saving, AfterSaving
  <2>2. missed' \subseteq Calls \X {1, 2} /\ faults' \in 0..MaxFaults
    BY <1>6, <1>a, <1>b, <2>1 DEF RequestFails, Misses, LocalType, Fault
  <2>3. LocalType'
    BY <1>6, <1>a, <2>2 DEF RequestFails, LocalType, store, told, tally
  <2> QED
    BY <2>1, <2>3, LocalStepType
<1>7. ASSUME AnswerArrives PROVE Type'
  <2>1. awaited \in Threads /\ call \in Calls
    BY <1>7, <1>a DEF AnswerArrives, Waiting, TaskType
  <2>2. GatewayType'
    BY <1>7, <1>a, <2>1, BasicTypes DEF AnswerArrives, GatewayType, Free
  <2>3. TaskType'
    BY <1>7, <1>a, <2>1 DEF AnswerArrives, TaskType, AfterSaving
  <2>4. LocalType'
    BY <1>7, <1>a DEF AnswerArrives, LocalType, store, told, history, tally
  <2> QED
    BY <2>2, <2>3, <2>4 DEF Type
<1>8. ASSUME RequestTimesOut PROVE Type'
  <2>1. awaited \in Threads /\ call \in Calls
    BY <1>8, <1>a DEF RequestTimesOut, MayTimeOut, Waiting, TaskType
  <2>2. [req[awaited] EXCEPT !.from = "nobody"] \in Requests
    BY <1>a, <2>1 DEF GatewayType, Requests
  <2>3. GatewayType'
    BY <1>8, <1>a, <2>1, <2>2 DEF RequestTimesOut, GatewayType, Requests
  <2>4. TaskType'
    BY <1>8, <1>a, <2>1 DEF RequestTimesOut, TaskType, AfterSaving
  <2>5. missed' \subseteq Calls \X {1, 2}
    BY <1>8, <1>a, <2>1 DEF RequestTimesOut, Misses, LocalType
  <2>6. LocalType'
    BY <1>8, <1>a, <2>5 DEF RequestTimesOut, LocalType, store, told, tally
  <2> QED
    BY <2>3, <2>4, <2>6 DEF Type
<1>9. ASSUME PublishPhase1 \/ PublishPhase2 PROVE Type'
  <2>1. call \in Calls
    BY <1>9, <1>a DEF PublishPhase1, PublishPhase2, TaskType
  <2>2. shown' \in [Calls -> Places] /\ inserted' \in [Calls -> Nat]
    BY <1>9, <1>a, <2>1 DEF PublishPhase1, PublishPhase2, GatewayType, LocalType, Places
  <2>3. GatewayType'
    BY <1>9, <1>a, <2>2 DEF PublishPhase1, PublishPhase2, GatewayType
  <2>4. TaskType'
    BY <1>9, <1>a DEF PublishPhase1, PublishPhase2, Goto, TaskType
  <2>5. LocalType'
    BY <1>9, <1>a, <2>2 DEF PublishPhase1, PublishPhase2, LocalType, store, history, tally
  <2> QED
    BY <2>3, <2>4, <2>5 DEF Type
<1>10. ASSUME PublishFails \/ PushFails PROVE Type'
  <2>1. TaskType' /\ UNCHANGED gateway /\ call \in Calls
    <3>1. call \in Calls /\ awaited = NoThread
      BY <1>10, <1>a DEF PublishFails, PushFails, TaskType
    <3>2. UNCHANGED gateway
      BY <1>10 DEF PublishFails, PushFails
    <3>3. CASE PublishFails
      BY <3>1, <3>2, <3>3, <1>a DEF PublishFails, Goto, TaskType, gateway
    <3>4. CASE PushFails
      BY <3>1, <3>2, <3>4, <1>a DEF PushFails, Goto, Idle, TaskType, gateway
    <3> QED
      BY <1>10, <3>1, <3>2, <3>3, <3>4
  <2>2. missed' \subseteq Calls \X {1, 2} /\ faults' \in 0..MaxFaults
    BY <1>10, <1>a, <1>b, <2>1 DEF PublishFails, PushFails, Misses, LocalType, Fault
  <2>3. LocalType'
    BY <1>10, <1>a, <2>2 DEF PublishFails, PushFails, LocalType, store, told, tally
  <2> QED
    BY <2>1, <2>3, LocalStepType
<1>11. ASSUME PushPhase1 \/ PushPhase2 PROVE Type'
  <2>1. TaskType' /\ UNCHANGED gateway /\ call \in Calls
    BY <1>11, <1>a DEF PushPhase1, PushPhase2, Goto, Idle, TaskType, gateway
  <2>2. pushed' \in [Calls -> Nat]
    BY <1>11, <1>a, <2>1 DEF PushPhase1, PushPhase2, LocalType
  <2>3. LocalType'
    BY <1>11, <1>a, <2>2 DEF PushPhase1, PushPhase2, LocalType, store, history, tally
  <2> QED
    BY <2>1, <2>3, LocalStepType
<1>12. ASSUME ReadSession \/ ReadSessionFails \/ FinishListening PROVE Type'
  <2>1. TaskType' /\ UNCHANGED gateway /\ call \in Calls
    BY <1>12, <1>a DEF ReadSession, ReadSessionFails, FinishListening, TaskType, gateway
  <2>2. LocalType'
    BY <1>12, <1>a, <1>b, <2>1
    DEF ReadSession, ReadSessionFails, FinishListening, LocalType, store, told, history, tally, Fault
  <2> QED
    BY <2>1, <2>2, LocalStepType
<1>13. ASSUME Phase2Raises PROVE Type'
  <2>1. TaskType' /\ UNCHANGED gateway /\ call \in Calls
    BY <1>13, <1>a DEF Phase2Raises, AfterException, TaskType, gateway
  <2>2. LocalType'
    BY <1>13, <1>a, <2>1 DEF Phase2Raises, LocalType, store, told, history
  <2> QED
    BY <2>1, <2>2, LocalStepType
<1>14. ASSUME CleanUp \/ CleanUpFails PROVE Type'
  <2>1. TaskType' /\ UNCHANGED gateway /\ call \in Calls
    BY <1>14, <1>a DEF CleanUp, CleanUpFails, Idle, TaskType, gateway
  <2>2. stage' \in [Calls -> {"fresh", "open", "final", "failed", "dropped"}]
    BY <1>14, <1>a DEF CleanUp, CleanUpFails, Ended, LocalType
  <2>3. LocalType'
    BY <1>14, <1>a, <1>b, <2>1, <2>2
    DEF CleanUp, CleanUpFails, LocalType, store, told, history, Fault
  <2> QED
    BY <2>1, <2>3, LocalStepType
<1> QED
  BY <1>1, <1>2, <1>3, <1>4, <1>5, <1>6, <1>7, <1>8, <1>9, <1>10, <1>11, <1>12, <1>13, <1>14
  DEF Worker

LEMMA OperatorStepType ==
    ASSUME Type, Operator
    PROVE  Type'
<1>a. TaskType /\ LocalType /\ GatewayType
  BY DEF Type
<1>1. ASSUME NEW c \in Calls, OperatorLoads(c), UNCHANGED <<Local, faults>> PROVE Type'
  <2>1. desk' \in Copies /\ desk'.call \in Calls
    BY <1>1, <1>a DEF OperatorLoads, Copies, GatewayType, Rows
  <2>2. GatewayType'
    BY <1>1, <1>a, <2>1 DEF OperatorLoads, GatewayType
  <2> QED
    BY <1>1, <1>a, <2>2 DEF OperatorLoads, Type, TaskType, LocalType, Local, task, tally, store, told, history
<1>2. ASSUME NEW t \in Threads, OperatorSaves(t) \/ OperatorDeletes(t), Meanwhile PROVE Type'
  <2>1. desk # NoCopy /\ desk \in Copies /\ desk.call \in Calls /\ edits < MaxEdits /\ edits' = edits + 1
    BY <1>2, <1>a DEF OperatorSaves, OperatorDeletes, GatewayType
  <2> DEFINE review == [place |-> desk.place, test |-> desk.test, flag |-> "absent",
                        audio |-> FALSE, review |-> TRUE]
  <2>2. review \in Bodies /\ NoBody \in Bodies
    BY <2>1, BasicTypes DEF Copies, Bodies, Flags
  <2>3. \/ Arrives(t, "operator", "PATCH", desk.call, review)
        \/ Arrives(t, "operator", "DELETE", desk.call, NoBody)
    BY <1>2 DEF OperatorSaves, OperatorDeletes
  <2> HIDE DEF review
  <2>4. /\ req' \in [Threads -> Requests]
        /\ \A u \in Threads : req'[u].st # "free" => req'[u].call \in Calls
        /\ contended' \subseteq Calls
        /\ \A u \in Threads \ {t} : req'[u] = req[u]
        /\ req[t].st = "free"
    BY <2>1, <2>2, <2>3, ArrivesType
  <2>5. GatewayType'
    BY <1>2, <1>a, <2>1, <2>4, BasicTypes, GatewayConstantsOK
    DEF OperatorSaves, OperatorDeletes, GatewayType
  <2>6. TaskType'
    BY <1>2, <1>a, <2>4 DEF Meanwhile, TaskType, task
  <2>7. LocalType'
    BY <1>2, <1>a, <2>1 DEF Meanwhile, Crosses, LocalType, tally, store, told
  <2> QED
    BY <2>5, <2>6, <2>7 DEF Type
<1> QED
  BY <1>1, <1>2 DEF Operator

LEMMA SurroundingsStepType ==
    ASSUME Type, Surroundings
    PROVE  Type'
<1>a. TaskType /\ LocalType /\ GatewayType
  BY DEF Type
<1>1. ASSUME NEW c \in Calls, SessionAges(c) \/ Phase2Lost(c) PROVE Type'
  <2>1. TaskType' /\ UNCHANGED gateway
    BY <1>1, <1>a DEF SessionAges, Phase2Lost, TaskType, task, gateway
  <2>2. LocalType'
    BY <1>1, <1>a DEF SessionAges, Phase2Lost, LocalType, store, told, history, tally
  <2> QED
    BY <2>1, <2>2, LocalStepType
<1>2. ASSUME WorkerCrashes PROVE Type'
  <2>1. pc # "idle" /\ call \in Calls
    BY <1>2, <1>a DEF WorkerCrashes, TaskType
  <2>2. awaited # NoThread => awaited \in Threads /\ [req[awaited] EXCEPT !.from = "nobody"] \in Requests
    BY <1>a DEF TaskType, GatewayType, Requests
  <2>3. GatewayType'
    BY <1>2, <1>a, <2>2 DEF WorkerCrashes, GatewayType, Requests
  <2>4. TaskType'
    BY <1>2 DEF WorkerCrashes, Idle, TaskType, Forms
  <2>5. missed' \subseteq Calls \X {1, 2} /\ unclean' \subseteq Calls
    BY <1>2, <1>a, <2>1 DEF WorkerCrashes, Misses, LocalType
  <2>6. stage' \in [Calls -> {"fresh", "open", "final", "failed", "dropped"}]
    BY <1>2, <1>a DEF WorkerCrashes, LocalType
  <2>7. LocalType'
    BY <1>2, <1>a, <2>5, <2>6, PipelineConstantsOK DEF WorkerCrashes, LocalType, Fault, store, told
  <2> QED
    BY <2>3, <2>4, <2>7 DEF Type
<1> QED
  BY <1>1, <1>2 DEF Surroundings

LEMMA StepType == Type /\ [Next]_vars => Type'
<1> SUFFICES ASSUME Type, [Next]_vars PROVE Type'
  OBVIOUS
<1>1. CASE UNCHANGED vars
  <2>1. TaskType' /\ LocalType' /\ UNCHANGED gateway
    BY <1>1 DEF vars, gateway, task, tally, store, told, history, Type, TaskType, LocalType
  <2> QED
    BY <2>1, LocalStepType
<1> QED
  BY <1>1, WorkerStepType, GatewayStepType, OperatorStepType, SurroundingsStepType DEF Next

\* The worker awaits a thread only while that thread is on its request, and every
\* variable keeps its type, whatever crashes, times out or is deleted meanwhile.
THEOREM PipelineTypeCorrect == Spec => []PipelineTypeOK
<1>1. Type => PipelineTypeOK
  <2> SUFFICES ASSUME Type PROVE PipelineTypeOK
    OBVIOUS
  <2>1. GatewayTypeOK
    BY DEF Type, GatewayType, GatewayTypeOK, Requests, Copies
  <2>2. /\ pc \in {"idle"} \cup Phase1Steps \cup Phase2Steps
        /\ call \in Calls \cup {NoCall}
        /\ pc = "idle" <=> call = NoCall
        /\ awaited \in Threads \cup {NoThread}
        /\ awaited # NoThread => req[awaited].from = "worker" /\ req[awaited].call = call
        /\ form \in Forms
    BY BasicTypes DEF Type, TaskType
  <2> QED
    BY <2>1, <2>2 DEF Type, LocalType, PipelineTypeOK
<1> QED
  BY <1>1, InitType, StepType, PTL DEF Spec

(***************************************************************************)
(* Sessions.  A call whose task is on its way to a session is still open;  *)
(* what ended left none, unless the cleanup failed.                        *)
(***************************************************************************)

OnItsWay == pc \in Phase1Steps \cup {"read2"} => stage[call] = "open"

SessionInv == Type /\ OnItsWay /\ SessionClosed

LEMMA SessionStep ==
    ASSUME SessionInv, Next
    PROVE  OnItsWay' /\ SessionClosed'
<1> USE DEF Phase1Steps, Phase2Steps
<1>a. /\ TaskType /\ LocalType
      /\ OnItsWay /\ SessionClosed
      /\ \A c \in Calls : c # NoCall
  BY BasicTypes DEF SessionInv, Type
<1>1. ASSUME UNCHANGED <<task, tally, store, unclean>> PROVE OnItsWay' /\ SessionClosed'
  BY <1>1, <1>a DEF task, tally, store, OnItsWay, SessionClosed
<1>2. ASSUME NEW c \in Calls, CheckPhase1(c) \/ CheckPhase1Blind(c) PROVE OnItsWay' /\ SessionClosed'
  BY <1>2, <1>a DEF CheckPhase1, CheckPhase1Blind, NextInLine, Kept, Swept, task,
     TaskType, LocalType, OnItsWay, SessionClosed
<1>3. ASSUME NEW c \in Calls, StartPhase2(c) PROVE OnItsWay' /\ SessionClosed'
  BY <1>3, <1>a DEF StartPhase2, NextInLine, store, history, TaskType, LocalType, OnItsWay, SessionClosed
\* The steps that neither open nor end a call nor touch its session.
<1>4. ASSUME UNCHANGED <<tally, store, unclean>>, call' = call, pc # "idle",
             pc' \in Phase1Steps => pc \in Phase1Steps, pc' # "read2"
      PROVE OnItsWay' /\ SessionClosed'
  BY <1>4, <1>a DEF tally, store, TaskType, OnItsWay, SessionClosed
<1>5. ASSUME UNCHANGED <<tally, store, unclean>>, Idle, pc \in Phase1Steps
      PROVE OnItsWay' /\ SessionClosed'
  BY <1>5, <1>a DEF Idle, tally, store, TaskType, OnItsWay, SessionClosed
<1>6. ASSUME Phase1NotYet \/ Phase1Complete PROVE OnItsWay' /\ SessionClosed'
  BY <1>6, <1>4, <1>5 DEF Phase1NotYet, Phase1Complete, Goto, tally, store, history
<1>7. ASSUME RecordPhase1 \/ RecordPhase1Fails PROVE OnItsWay' /\ SessionClosed'
  BY <1>7, <1>a DEF RecordPhase1, RecordPhase1Fails, Goto, Kept, Swept, tally,
     TaskType, LocalType, OnItsWay, SessionClosed
<1>8. ASSUME NEW t \in Threads, SendRequest(t) PROVE OnItsWay' /\ SessionClosed'
  BY <1>8, <1>4 DEF SendRequest, Saving, tally, store, history
<1>9. ASSUME RequestFails \/ AnswerArrives \/ RequestTimesOut PROVE OnItsWay' /\ SessionClosed'
  BY <1>9, <1>4 DEF RequestFails, AnswerArrives, RequestTimesOut, MayTimeOut, Saving, Waiting,
     AfterSaving, Goto, tally, store, history
<1>10. ASSUME PublishPhase1 \/ PublishPhase2 PROVE OnItsWay' /\ SessionClosed'
  BY <1>10, <1>4 DEF PublishPhase1, PublishPhase2, Goto, tally, store, history
<1>11. ASSUME PublishFails PROVE OnItsWay' /\ SessionClosed'
  BY <1>11, <1>4 DEF PublishFails, Goto, tally, store
<1>12. ASSUME PushPhase1 \/ PushPhase2 PROVE OnItsWay' /\ SessionClosed'
  BY <1>12, <1>4, <1>5 DEF PushPhase1, PushPhase2, Goto, tally, store, history
<1>13. ASSUME PushFails PROVE OnItsWay' /\ SessionClosed'
  BY <1>13, <1>4, <1>5 DEF PushFails, Goto, tally, store
<1>14. ASSUME ReadSession \/ ReadSessionFails \/ FinishListening PROVE OnItsWay' /\ SessionClosed'
  BY <1>14, <1>4 DEF ReadSession, ReadSessionFails, FinishListening, tally, store, history
<1>15. ASSUME Phase2Raises PROVE OnItsWay' /\ SessionClosed'
  BY <1>15, <1>a DEF Phase2Raises, AfterException, store, history, TaskType, LocalType, OnItsWay, SessionClosed
<1>16. ASSUME CleanUp \/ CleanUpFails PROVE OnItsWay' /\ SessionClosed'
  BY <1>16, <1>a DEF CleanUp, CleanUpFails, Idle, Ended, store, history, TaskType, LocalType,
     OnItsWay, SessionClosed
<1>17. ASSUME NEW c \in Calls, SessionAges(c) \/ Phase2Lost(c) PROVE OnItsWay' /\ SessionClosed'
  BY <1>17, <1>a DEF SessionAges, Phase2Lost, task, tally, store, history, TaskType, LocalType,
     OnItsWay, SessionClosed
<1>18. ASSUME WorkerCrashes PROVE OnItsWay' /\ SessionClosed'
  BY <1>18, <1>a DEF WorkerCrashes, Idle, store, TaskType, LocalType, OnItsWay, SessionClosed
<1>19. ASSUME Gateway PROVE OnItsWay' /\ SessionClosed'
  <2>1. UNCHANGED Local
    BY <1>19, GatewayStepType DEF SessionInv
  <2> QED
    BY <2>1, <1>1 DEF Local, history
<1>20. ASSUME Operator PROVE OnItsWay' /\ SessionClosed'
  <2>1. UNCHANGED <<task, tally, store, unclean>>
    BY <1>20 DEF Operator, Meanwhile, Local, history
  <2> QED
    BY <2>1, <1>1
<1> QED
  BY <1>2, <1>3, <1>6, <1>7, <1>8, <1>9, <1>10, <1>11, <1>12, <1>13, <1>14, <1>15, <1>16, <1>17,
     <1>18, <1>19, <1>20 DEF Next, Worker, Surroundings

LEMMA SessionInvariant ==
    /\ Init => SessionInv
    /\ SessionInv /\ [Next]_vars => SessionInv'
<1>1. Init => SessionInv
  BY InitType DEF Init, SessionInv, OnItsWay, SessionClosed, Phase1Steps
<1>2. SessionInv /\ [Next]_vars => SessionInv'
  <2> SUFFICES ASSUME SessionInv, [Next]_vars PROVE SessionInv'
    OBVIOUS
  <2>1. Type'
    BY StepType DEF SessionInv
  <2>2. CASE UNCHANGED vars
    BY <2>1, <2>2 DEF SessionInv, OnItsWay, SessionClosed, vars, task, tally, store, history
  <2> QED
    BY <2>1, <2>2, SessionStep DEF SessionInv
<1> QED
  BY <1>1, <1>2

\* Phase 2 leaves no session behind on any of its ways out, the exceptional ones
\* included, unless the cleanup itself failed or the worker died before it.
THEOREM SessionClosedCorrect == Spec => []SessionClosed
<1>1. SessionInv => SessionClosed
  BY DEF SessionInv
<1> QED
  BY <1>1, SessionInvariant, PTL DEF Spec

(***************************************************************************)
(* Announcements.  A call that was announced has a session, has ended, or  *)
(* is in its phase 2 past the point where the session is read; before a    *)
(* branch announces, nothing was announced.                                *)
(***************************************************************************)

Ends == {"final", "failed", "dropped"}
Unannounced ==
    \/ pc \in {"listen1", "record1", "save1", "wait1", "publish1"}
    \/ pc \in {"listen2", "save2", "wait2", "publish2"} /\ form = "single"
Unpushed == Unannounced \/ pc = "push1" \/ (pc = "push2" /\ form = "single")
Recorded == pc \in {"save1", "wait1", "publish1", "push1"}

Once(c) ==
    /\ inserted[c] <= 1 /\ pushed[c] <= 1
    /\ inserted[c] > 0 \/ pushed[c] > 0 =>
          \/ c \in sessions
          \/ stage[c] \in Ends
          \/ c = call /\ pc \in Phase2Steps \ {"read2"}
    /\ c = call /\ Unannounced => inserted[c] = 0
    /\ c = call /\ Unpushed => pushed[c] = 0
    /\ c = call /\ Recorded => c \in sessions

OnceInv == SessionInv /\ \A c \in Calls \ blind : Once(c)

LEMMA OnceStep ==
    ASSUME OnceInv, Type', Next, NEW c \in Calls \ blind'
    PROVE  Once(c)'
<1> USE DEF Phase1Steps, Phase2Steps
<1>a. /\ TaskType /\ LocalType /\ TaskType' /\ LocalType' /\ OnItsWay
      /\ c \in Calls /\ c # NoCall
      /\ c \notin blind => Once(c)
      /\ inserted[c] \in Nat /\ pushed[c] \in Nat
  BY BasicTypes DEF OnceInv, SessionInv, Type, LocalType
<1> USE DEF Once, Unannounced, Unpushed, Recorded, Ends
<1>1. ASSUME UNCHANGED <<task, tally, store, told, blind>> PROVE Once(c)'
  BY <1>1, <1>a DEF task, tally, store, told
<1>2. ASSUME NEW d \in Calls, CheckPhase1(d) \/ CheckPhase1Blind(d) PROVE Once(c)'
  <2>1. /\ pc = "idle" /\ call = NoCall /\ stage[d] \in {"fresh", "open"} /\ UNCHANGED told
        /\ stage' = [stage EXCEPT ![d] = "open"]
    BY <1>2, <1>a DEF CheckPhase1, CheckPhase1Blind, NextInLine, TaskType
  <2>2. c \notin blind /\ (c \in sessions => c \in sessions') /\ (c \in sessions' => c \in sessions)
    BY <1>2, <1>a DEF CheckPhase1, CheckPhase1Blind, Kept, Swept, LocalType
  <2>3. \/ call' = call /\ pc' = pc
        \/ call' = d /\ pc' = "listen1" /\ (c = d => c \notin sessions')
    BY <1>2, <1>a DEF CheckPhase1, CheckPhase1Blind, task
  <2> QED
    BY <1>a, <2>1, <2>2, <2>3 DEF told, LocalType
<1>3. ASSUME NEW d \in Calls, StartPhase2(d) PROVE Once(c)'
  BY <1>3, <1>a DEF StartPhase2, NextInLine, store, told, history, TaskType, LocalType
<1>4. ASSUME Phase1NotYet \/ Phase1Complete PROVE Once(c)'
  BY <1>4, <1>a DEF Phase1NotYet, Phase1Complete, Idle, Goto, tally, store, told, history, TaskType, OnItsWay
<1>5. ASSUME RecordPhase1 \/ RecordPhase1Fails PROVE Once(c)'
  <2>1. pc = "record1" /\ pc' = "save1" /\ call' = call /\ UNCHANGED <<told, tally>>
    BY <1>5 DEF RecordPhase1, RecordPhase1Fails, Goto
  <2>2. /\ c \notin blind /\ (c \in sessions => c \in sessions')
        /\ c \in sessions' => c \in sessions \/ c = call
        /\ c = call => c \in sessions'
    BY <1>5, <1>a DEF RecordPhase1, RecordPhase1Fails, Kept, Swept, LocalType
  <2> QED
    BY <1>a, <2>1, <2>2 DEF told, tally
<1>6. ASSUME NEW t \in Threads, SendRequest(t) PROVE Once(c)'
  BY <1>6, <1>a DEF SendRequest, Saving, tally, store, told, history
<1>7. ASSUME RequestFails \/ AnswerArrives \/ RequestTimesOut PROVE Once(c)'
  <2>1. \/ pc \in {"save1", "wait1"} /\ pc' = "publish1"
        \/ pc \in {"save2", "wait2"} /\ pc' = "publish2"
    BY <1>7 DEF RequestFails, AnswerArrives, RequestTimesOut, MayTimeOut, Saving, Waiting,
       AfterSaving, Goto
  <2>2. UNCHANGED <<call, form, tally, store, told, blind>>
    BY <1>7 DEF RequestFails, AnswerArrives, RequestTimesOut, Goto, history
  <2> QED
    BY <1>a, <2>1, <2>2 DEF tally, store, told
<1>8. ASSUME PublishPhase1 \/ PublishPhase2 PROVE Once(c)'
  <2>1. UNCHANGED <<call, form, tally, store, pushed, blind>>
    BY <1>8 DEF PublishPhase1, PublishPhase2, Goto, history
  <2>2. CASE PublishPhase1
    <3>1. pc = "publish1" /\ pc' = "push1" /\ inserted' = [inserted EXCEPT ![call] = @ + 1]
      BY <2>2 DEF PublishPhase1, Goto
    <3> QED
      BY <1>a, <2>1, <3>1 DEF tally, store, LocalType
  <2>3. CASE PublishPhase2 /\ form = "single"
    <3>1. pc = "publish2" /\ pc' = "push2" /\ inserted' = [inserted EXCEPT ![call] = @ + 1]
      BY <2>3 DEF PublishPhase2, Goto
    <3> QED
      BY <1>a, <2>1, <2>3, <3>1 DEF tally, store, LocalType
  <2>4. CASE PublishPhase2 /\ form # "single"
    <3>1. pc = "publish2" /\ pc' \in {"push2", "cleanup2"} /\ inserted' = inserted
      BY <2>4 DEF PublishPhase2, Goto
    <3> QED
      BY <1>a, <2>1, <2>4, <3>1 DEF tally, store
  <2> QED
    BY <1>8, <2>2, <2>3, <2>4
<1>9. ASSUME PublishFails PROVE Once(c)'
  <2>1. \/ pc = "publish1" /\ pc' = "push1"
        \/ pc = "publish2" /\ pc' \in {"push2", "cleanup2"}
    BY <1>9 DEF PublishFails, Goto
  <2>2. UNCHANGED <<call, form, tally, store, told, blind>>
    BY <1>9 DEF PublishFails, Goto
  <2> QED
    BY <1>a, <2>1, <2>2 DEF tally, store, told
<1>10. ASSUME PushPhase1 \/ PushPhase2 PROVE Once(c)'
  BY <1>10, <1>a DEF PushPhase1, PushPhase2, Idle, Goto, tally, store, history, LocalType
<1>11. ASSUME PushFails PROVE Once(c)'
  BY <1>11, <1>a DEF PushFails, Idle, Goto, tally, store, told
<1>12. ASSUME ReadSession \/ ReadSessionFails \/ FinishListening PROVE Once(c)'
  <2>1. CASE ReadSession
    BY <1>a, <2>1 DEF ReadSession, tally, store, told, history, OnItsWay
  <2>2. CASE ReadSessionFails
    BY <1>a, <2>2 DEF ReadSessionFails, tally, store, told, OnItsWay
  <2>3. CASE FinishListening
    BY <1>a, <2>3 DEF FinishListening, tally, store, told, history
  <2> QED
    BY <1>12, <2>1, <2>2, <2>3
<1>13. ASSUME Phase2Raises PROVE Once(c)'
  BY <1>13, <1>a DEF Phase2Raises, AfterException, store, told, history, LocalType
<1>14. ASSUME CleanUp \/ CleanUpFails PROVE Once(c)'
  BY <1>14, <1>a DEF CleanUp, CleanUpFails, Idle, Ended, store, told, history, LocalType
<1>15. ASSUME NEW d \in Calls, SessionAges(d) \/ Phase2Lost(d) PROVE Once(c)'
  BY <1>15, <1>a DEF SessionAges, Phase2Lost, task, tally, store, told, history, LocalType
<1>16. ASSUME WorkerCrashes PROVE Once(c)'
  BY <1>16, <1>a DEF WorkerCrashes, Idle, store, told, LocalType, TaskType
<1>17. ASSUME Gateway \/ Operator PROVE Once(c)'
  <2>1. Gateway => UNCHANGED Local
    BY GatewayStepType DEF OnceInv, SessionInv
  <2>2. UNCHANGED <<task, tally, store, told, blind>>
    BY <1>17, <2>1 DEF Operator, Meanwhile, Local, history
  <2> QED
    BY <2>2, <1>1
<1> QED
  BY <1>2, <1>3, <1>4, <1>5, <1>6, <1>7, <1>8, <1>9, <1>10, <1>11, <1>12, <1>13, <1>14, <1>15, <1>16,
     <1>17 DEF Next, Worker, Surroundings

\* A call is broadcast and pushed at most once, over every order of checks, TTL
\* sweeps, crashes and timeouts, unless its session could not be written, read or
\* kept.
THEOREM AnnouncedOnceCorrect == Spec => []AnnouncedOnce
<1>1. Init => OnceInv
  BY SessionInvariant DEF Init, OnceInv, Once, Unannounced, Unpushed, Recorded
<1>2. OnceInv /\ [Next]_vars => OnceInv'
  <2> SUFFICES ASSUME OnceInv, [Next]_vars PROVE OnceInv'
    OBVIOUS
  <2>1. SessionInv' /\ Type'
    BY SessionInvariant DEF OnceInv, SessionInv
  <2>2. CASE UNCHANGED vars
    BY <2>1, <2>2 DEF OnceInv, Once, Unannounced, Unpushed, Recorded, vars, task, tally,
       store, told, history
  <2>3. CASE Next
    BY <2>1, <2>3, OnceStep DEF OnceInv
  <2> QED
    BY <2>2, <2>3
<1>3. OnceInv => AnnouncedOnce
  BY DEF OnceInv, Once, AnnouncedOnce
<1> QED
  BY <1>1, <1>2, <1>3, PTL DEF Spec

(***************************************************************************)
(* Writes.  Every record that is stored, read or on the desk says it is no *)
(* test; what is sent says the same or nothing, and what may create a      *)
(* record says it at the top level.                                        *)
(***************************************************************************)

Says(r) == r = NoRow \/ (r.id # 0 /\ r.test = "false")
Sends(r) ==
    /\ Says(r.seen)
    /\ r.body.flag # "true"
    /\ r.body.test # "true"
    /\ r.kind = "POST" => r.body.flag = "false"

FlagsInv ==
    /\ \A c \in Calls : Says(row[c])
    /\ \A t \in Threads : Sends(req[t])
    /\ desk = NoCopy \/ desk.test = "false"

EraseInv == Type /\ FlagsInv

NothingErasedStep ==
    \A c \in Calls :
        row[c].id # 0 /\ row'[c].id = row[c].id =>
            /\ row[c].audio => row'[c].audio
            /\ row[c].reviewed => row'[c].reviewed
            /\ row[c].test \in Named => row'[c].test = row[c].test

\* A write keeps the recording and the review, and a flag that says no test.
LEMMA MergeKeeps ==
    ASSUME NEW now \in Rows, NEW seen \in Rows, NEW b \in Bodies,
           now.test = "false", seen.test = "false", b.flag # "true", b.test # "true"
    PROVE  /\ Merge(now, seen, b).test = "false"
           /\ now.audio => Merge(now, seen, b).audio
           /\ now.reviewed => Merge(now, seen, b).reviewed
<1>1. Settle(b, seen) \in [place : Places, test : Flags]
  BY WriteTypes
<1>2. Settle(b, seen).test = "false"
  BY DEF Settle, Target, Named, Bodies, Flags
<1> DEFINE target == IF Settle(b, seen) = Target(seen) THEN Target(now) ELSE Settle(b, seen)
<1>3. target.test = "false"
  BY <1>2 DEF Target
<1>4. Merge(now, seen, b) = [now EXCEPT !.place = target.place, !.test = target.test,
                                       !.audio = @ \/ b.audio, !.reviewed = @ \/ b.review]
  BY DEF Merge
<1> HIDE DEF target
<1>5. /\ Merge(now, seen, b).test = target.test
      /\ Merge(now, seen, b).audio = (now.audio \/ b.audio)
      /\ Merge(now, seen, b).reviewed = (now.reviewed \/ b.review)
  BY <1>4 DEF Rows
<1> QED
  BY <1>3, <1>5

LEMMA CreatedSays ==
    ASSUME NEW id \in Nat \ {0}, NEW b \in Bodies, b.flag = "false"
    PROVE  Says(Created(id, b))
  BY DEF Says, Created, Settle, Named, Target

LEMMA BlankSays == Says(NoRow) /\ Sends(Free)
  BY DEF Says, Sends, Free, NoBody

\* A request that arrives says nothing of a test, whoever sends it.
LEMMA ArrivesSends ==
    ASSUME EraseInv, NEW t \in Threads, NEW from \in {"worker", "operator"},
           NEW kind \in {"POST", "PATCH", "DELETE"}, NEW c \in Calls, NEW body \in Bodies,
           Arrives(t, from, kind, c, body),
           body.flag # "true", body.test # "true", kind = "POST" => body.flag = "false"
    PROVE  \A u \in Threads : Sends(req'[u])
<1> DEFINE r == [st |-> "read", from |-> from, kind |-> kind, call |-> c, body |-> body, seen |-> NoRow]
<1>1. Sends(r)
  BY BlankSays DEF Sends
<1>2. req' = [req EXCEPT ![t] = r]
  BY DEF Arrives
<1> HIDE DEF r
<1> QED
  BY <1>1, <1>2 DEF EraseInv, Type, GatewayType, FlagsInv

LEMMA GatewayStepFlags ==
    ASSUME EraseInv, Gateway
    PROVE  FlagsInv' /\ NothingErasedStep
<1>a. /\ row \in [Calls -> Rows] /\ req \in [Threads -> Requests] /\ serial \in Nat
      /\ \A t \in Threads : req[t] \in Requests /\ (req[t].st # "free" => req[t].call \in Calls)
      /\ FlagsInv
  BY DEF EraseInv, Type, GatewayType
\* An answer says nothing.
<1>c. ASSUME NEW t \in Threads, NEW st \in {"ok", "error"} PROVE Sends(Answered(t, st))
  BY <1>a, AnsweredFacts, BlankSays DEF Sends, NoBody
\* The steps that write no row.
<1>b. ASSUME NEW t \in Threads, NEW r, req' = [req EXCEPT ![t] = r], Sends(r), UNCHANGED <<row, desk>>
      PROVE  FlagsInv' /\ NothingErasedStep
  BY <1>a, <1>b DEF FlagsInv, NothingErasedStep
<1>1. ASSUME NEW t \in Threads, ReadRecord(t) PROVE FlagsInv' /\ NothingErasedStep
  <2>1. Says(row[req[t].call]) /\ req[t] \in Requests
    BY <1>1, <1>a DEF ReadRecord, FlagsInv
  <2> DEFINE r == IF row[req[t].call] = NoRow /\ req[t].kind # "POST"
                  THEN Answered(t, "error")
                  ELSE [req[t] EXCEPT !.seen = row[req[t].call], !.st = "write"]
  <2>2. \/ r = Answered(t, "error")
        \/ r.seen = row[req[t].call] /\ r.body = req[t].body /\ r.kind = req[t].kind
    BY <2>1 DEF Requests
  <2>3. req' = [req EXCEPT ![t] = r]
    BY <1>1, <1>a DEF ReadRecord
  <2> HIDE DEF r
  <2>4. Sends(r)
    BY <1>a, <1>c, <2>1, <2>2 DEF FlagsInv, Sends
  <2> QED
    BY <1>1, <1>b, <2>3, <2>4 DEF ReadRecord
<1>2. ASSUME NEW t \in Threads, CommitInsert(t) PROVE FlagsInv' /\ NothingErasedStep
  <2>1. req[t] \in Requests /\ req[t].body \in Bodies /\ req[t].call \in Calls /\ Sends(req[t])
    BY <1>2, <1>a DEF CommitInsert, Requests, FlagsInv
  <2> DEFINE made == Created(serial + 1, req[t].body)
  <2>2. Says(made)
    <3>1. req[t].body.flag = "false" /\ serial + 1 \in Nat \ {0}
      BY <1>2, <1>a, <2>1 DEF CommitInsert, Sends
    <3> QED
      BY <2>1, <3>1, CreatedSays
  <2>3. CASE row[req[t].call] = NoRow
    <3> DEFINE r == [req[t] EXCEPT !.kind = "INSERT", !.st = "refresh", !.seen = made]
    <3>1. r.seen = made /\ r.body = req[t].body /\ r.kind = "INSERT"
      BY <2>1 DEF Requests
    <3>2. req' = [req EXCEPT ![t] = r] /\ row' = [row EXCEPT ![req[t].call] = made] /\ desk' = desk
      BY <1>2, <1>a, <2>3 DEF CommitInsert
    <3> HIDE DEF r, made
    <3>3. Sends(r)
      BY <2>1, <2>2, <3>1 DEF Sends
    <3>4. NothingErasedStep
      BY <1>a, <2>1, <2>3, <3>2 DEF NothingErasedStep, NoRow
    <3> QED
      BY <1>a, <2>1, <2>2, <3>2, <3>3, <3>4 DEF FlagsInv
  <2>4. CASE row[req[t].call] # NoRow
    <3>1. req' = [req EXCEPT ![t] = Answered(t, "error")] /\ UNCHANGED <<row, desk>>
      BY <1>2, <1>a, <2>4 DEF CommitInsert
    <3> QED
      BY <1>b, <1>c, <3>1
  <2> QED
    BY <2>3, <2>4
<1>3. ASSUME NEW t \in Threads, CommitUpdate(t) PROVE FlagsInv' /\ NothingErasedStep
  <2>1. /\ req[t] \in Requests /\ req[t].body \in Bodies /\ req[t].call \in Calls /\ Sends(req[t])
        /\ row[req[t].call] \in Rows /\ req[t].seen \in Rows
        /\ req[t].seen.id # 0 /\ req[t].seen.test = "false"
    BY <1>3, <1>a DEF CommitUpdate, Requests, FlagsInv, Sends, Says
  <2> DEFINE r == IF row[req[t].call].id = req[t].seen.id
                  THEN [req[t] EXCEPT !.st = "refresh"]
                  ELSE Answered(t, "error")
  <2>2. \/ r = Answered(t, "error")
        \/ r.seen = req[t].seen /\ r.body = req[t].body /\ r.kind = req[t].kind
    BY <2>1 DEF Requests
  <2>3. req' = [req EXCEPT ![t] = r] /\ desk' = desk
    BY <1>3, <1>a DEF CommitUpdate
  <2> HIDE DEF r
  <2>4. Sends(r)
    BY <1>c, <2>1, <2>2 DEF Sends
  <2> DEFINE merged == Merge(row[req[t].call], req[t].seen, req[t].body)
  <2>5. CASE row[req[t].call].id = req[t].seen.id
    <3>1. row[req[t].call].id # 0 /\ row[req[t].call].test = "false"
      BY <1>a, <2>1, <2>5 DEF FlagsInv, Says, NoRow
    <3>2. /\ merged.test = "false" /\ merged.id # 0
          /\ row[req[t].call].audio => merged.audio
          /\ row[req[t].call].reviewed => merged.reviewed
      <4>1. req[t].body.flag # "true" /\ req[t].body.test # "true"
        BY <2>1 DEF Sends
      <4>2. /\ merged.test = "false"
            /\ row[req[t].call].audio => merged.audio
            /\ row[req[t].call].reviewed => merged.reviewed
        BY <2>1, <3>1, <4>1, MergeKeeps
      <4>3. merged.id = row[req[t].call].id
        BY <2>1, WriteTypes
      <4> QED
        BY <3>1, <4>2, <4>3
    <3>3. row' = [row EXCEPT ![req[t].call] = merged]
      BY <1>3, <2>5 DEF CommitUpdate
    <3> HIDE DEF merged
    <3>4. NothingErasedStep
      BY <1>a, <2>1, <3>1, <3>2, <3>3 DEF NothingErasedStep
    <3> QED
      BY <1>a, <2>1, <2>3, <2>4, <3>2, <3>3, <3>4 DEF FlagsInv, Says
  <2>6. CASE row[req[t].call].id # req[t].seen.id
    BY <1>3, <1>b, <2>3, <2>4, <2>6 DEF CommitUpdate
  <2> QED
    BY <2>5, <2>6
<1>4. ASSUME NEW t \in Threads, CommitDelete(t) PROVE FlagsInv' /\ NothingErasedStep
  <2>1. req[t] \in Requests /\ req[t].call \in Calls /\ Sends(req[t])
    BY <1>4, <1>a DEF CommitDelete, FlagsInv
  <2> DEFINE r == [req[t] EXCEPT !.st = "publish"]
  <2>2. r.seen = req[t].seen /\ r.body = req[t].body /\ r.kind = req[t].kind
    BY <2>1 DEF Requests
  <2>3. req' = [req EXCEPT ![t] = r] /\ desk' = desk
    BY <1>4, <1>a DEF CommitDelete
  <2> HIDE DEF r
  <2>4. Sends(r)
    BY <2>1, <2>2 DEF Sends
  <2>5. row' = row \/ row' = [row EXCEPT ![req[t].call] = NoRow]
    BY <1>4 DEF CommitDelete
  <2>6. NothingErasedStep
    BY <1>a, <2>1, <2>5 DEF NothingErasedStep, NoRow
  <2> QED
    BY <1>a, <2>1, <2>3, <2>4, <2>5, <2>6, BlankSays DEF FlagsInv
<1>5. ASSUME NEW t \in Threads, RefreshRecord(t) PROVE FlagsInv' /\ NothingErasedStep
  <2>1. req[t] \in Requests /\ Sends(req[t]) /\ Says(row[req[t].call])
    BY <1>5, <1>a DEF RefreshRecord, FlagsInv
  <2> DEFINE r == IF row[req[t].call].id = req[t].seen.id
                  THEN [req[t] EXCEPT !.st = "publish", !.seen = row[req[t].call]]
                  ELSE Answered(t, "error")
  <2>2. \/ r = Answered(t, "error")
        \/ r.seen = row[req[t].call] /\ r.body = req[t].body /\ r.kind = req[t].kind
    BY <2>1 DEF Requests
  <2>3. req' = [req EXCEPT ![t] = r]
    BY <1>5, <1>a DEF RefreshRecord, Reread
  <2> HIDE DEF r
  <2>4. Sends(r)
    BY <1>c, <2>1, <2>2 DEF Sends
  <2> QED
    BY <1>5, <1>b, <2>3, <2>4 DEF RefreshRecord
<1>6. ASSUME NEW t \in Threads, PublishEvent(t) \/ EventLost(t) PROVE FlagsInv' /\ NothingErasedStep
  <2>1. req' = [req EXCEPT ![t] = Answered(t, "ok")]
    BY <1>6 DEF PublishEvent, EventLost
  <2> QED
    BY <1>6, <1>b, <1>c, <2>1 DEF PublishEvent, EventLost
<1>7. ASSUME NEW t \in Threads, AnswerRead(t) PROVE FlagsInv' /\ NothingErasedStep
  BY <1>7, <1>b, BlankSays DEF AnswerRead
<1> QED
  BY <1>1, <1>2, <1>3, <1>4, <1>5, <1>6, <1>7 DEF Gateway

LEMMA FlagsStep ==
    ASSUME EraseInv, Next
    PROVE  FlagsInv' /\ (UNCHANGED row \/ NothingErasedStep)
<1>a. TaskType /\ GatewayType /\ FlagsInv
  BY DEF EraseInv, Type
<1>1. ASSUME UNCHANGED <<row, desk>>, \A u \in Threads : Sends(req'[u]) PROVE FlagsInv'
  BY <1>1, <1>a DEF FlagsInv
<1>2. ASSUME NEW t \in Threads, SendRequest(t) PROVE FlagsInv' /\ UNCHANGED row
  <2>1. /\ call \in Calls /\ Method \in {"POST", "PATCH", "DELETE"} /\ Payload \in Bodies
        /\ Payload.flag # "true" /\ Payload.test # "true"
    BY <1>2, <1>a DEF SendRequest, Saving, Method, Payload, Bodies, Flags, Places, Named, TaskType,
       Phase1Steps, Phase2Steps
  <2>2. Method = "POST" => Payload.flag = "false"
    BY <1>2 DEF SendRequest, Saving, Method, Payload
  <2>3. Arrives(t, "worker", Method, call, Payload) /\ UNCHANGED <<row, desk>>
    BY <1>2 DEF SendRequest
  <2>4. \A u \in Threads : Sends(req'[u])
    BY <2>1, <2>2, <2>3, ArrivesSends
  <2> QED
    BY <1>1, <2>3, <2>4
\* What the worker does to a request it waited for leaves its contents alone.
<1>3. ASSUME AnswerArrives \/ RequestTimesOut \/ WorkerCrashes PROVE FlagsInv' /\ UNCHANGED row
  <2>1. UNCHANGED <<row, desk>>
    BY <1>3 DEF AnswerArrives, RequestTimesOut, WorkerCrashes
  <2>2. \/ req' = req
        \/ awaited \in Threads /\ req' = [req EXCEPT ![awaited] = Free]
        \/ awaited \in Threads /\ req' = [req EXCEPT ![awaited] = [req[awaited] EXCEPT !.from = "nobody"]]
    BY <1>3, <1>a DEF AnswerArrives, RequestTimesOut, WorkerCrashes, MayTimeOut, Waiting, TaskType, GatewayType
  <2>3. ASSUME awaited \in Threads PROVE Sends([req[awaited] EXCEPT !.from = "nobody"])
    BY <2>3, <1>a DEF GatewayType, Requests, FlagsInv, Sends
  <2>4. \A u \in Threads : Sends(req'[u])
    BY <1>a, <2>2, <2>3, BlankSays DEF GatewayType, FlagsInv
  <2> QED
    BY <1>1, <2>1, <2>4
<1>4. ASSUME Worker, ~(\E t \in Threads : SendRequest(t)), ~AnswerArrives, ~RequestTimesOut
      PROVE UNCHANGED <<row, desk, req>>
  BY <1>4 DEF Worker, gateway, CheckPhase1, CheckPhase1Blind, StartPhase2, Phase1NotYet, Phase1Complete,
     RecordPhase1, RecordPhase1Fails, RequestFails, PublishPhase1, PublishPhase2, PublishFails,
     PushPhase1, PushPhase2, PushFails, ReadSession, ReadSessionFails, FinishListening, Phase2Raises,
     CleanUp, CleanUpFails
<1>5. ASSUME NEW c \in Calls, SessionAges(c) \/ Phase2Lost(c) PROVE UNCHANGED <<row, desk, req>>
  BY <1>5 DEF SessionAges, Phase2Lost, gateway
<1>6. ASSUME NEW c \in Calls, OperatorLoads(c) PROVE FlagsInv' /\ UNCHANGED row
  <2>1. row[c].test = "false" /\ UNCHANGED <<row, req>> /\ desk'.test = row[c].test
    BY <1>6, <1>a DEF OperatorLoads, FlagsInv, Says
  <2> QED
    BY <1>a, <2>1 DEF FlagsInv
<1>7. ASSUME NEW t \in Threads, OperatorSaves(t) \/ OperatorDeletes(t) PROVE FlagsInv' /\ UNCHANGED row
  <2>1. desk # NoCopy /\ desk \in Copies /\ desk.call \in Calls /\ desk.test = "false"
    BY <1>7, <1>a DEF OperatorSaves, OperatorDeletes, GatewayType, FlagsInv
  <2> DEFINE review == [place |-> desk.place, test |-> desk.test, flag |-> "absent",
                        audio |-> FALSE, review |-> TRUE]
  <2>2. /\ review \in Bodies /\ review.flag # "true" /\ review.test # "true"
        /\ NoBody \in Bodies /\ NoBody.flag # "true" /\ NoBody.test # "true"
    BY <2>1, BasicTypes DEF Copies, Bodies, Flags, NoBody
  <2>3. \/ Arrives(t, "operator", "PATCH", desk.call, review)
        \/ Arrives(t, "operator", "DELETE", desk.call, NoBody)
    BY <1>7 DEF OperatorSaves, OperatorDeletes
  <2> HIDE DEF review
  <2>4. \A u \in Threads : Sends(req'[u])
    BY <2>1, <2>2, <2>3, ArrivesSends
  <2>5. row' = row /\ desk' = NoCopy
    BY <1>7 DEF OperatorSaves, OperatorDeletes
  <2> QED
    BY <1>a, <2>4, <2>5 DEF FlagsInv
<1>8. UNCHANGED <<row, desk, req>> => FlagsInv'
  BY <1>a DEF FlagsInv
<1>9. CASE Worker
  BY <1>2, <1>3, <1>4, <1>8, <1>9
<1>10. CASE Gateway
  BY <1>10, GatewayStepFlags
<1>11. CASE Operator
  BY <1>6, <1>7, <1>11 DEF Operator
<1>12. CASE Surroundings
  BY <1>3, <1>5, <1>8, <1>12 DEF Surroundings
<1> QED
  BY <1>9, <1>10, <1>11, <1>12 DEF Next

LEMMA EraseInvariant ==
    /\ Init => EraseInv
    /\ EraseInv /\ [Next]_vars => EraseInv'
<1>1. Init => EraseInv
  BY InitType, BlankSays DEF Init, GatewayInit, EraseInv, FlagsInv
<1>2. EraseInv /\ UNCHANGED vars => FlagsInv'
  BY DEF EraseInv, FlagsInv, vars, gateway
<1>3. EraseInv /\ [Next]_vars => EraseInv'
  BY <1>2, StepType, FlagsStep DEF EraseInv
<1> QED
  BY <1>1, <1>3

\* However the requests of worker and operator interleave in the gateway's threads,
\* a write that is not about it erases neither the recording's name, nor a review,
\* nor the test flag of a record: the handlers read a row, and write it later.
THEOREM NothingErasedCorrect == Spec => NothingErased
<1>1. EraseInv /\ [Next]_vars =>
        [\A c \in Calls :
            row[c].id # 0 /\ row'[c].id = row[c].id =>
                /\ row[c].audio => row'[c].audio
                /\ row[c].reviewed => row'[c].reviewed
                /\ row[c].test \in Named => row'[c].test = row[c].test]_gateway
  <2>1. UNCHANGED row => NothingErasedStep
    BY DEF NothingErasedStep
  <2>2. UNCHANGED vars => UNCHANGED gateway
    BY DEF vars
  <2> QED
    BY <2>1, <2>2, FlagsStep DEF NothingErasedStep
<1> QED
  BY <1>1, EraseInvariant, PTL DEF Spec, NothingErased
=============================================================================
