--------------------------- MODULE DispatchRecordProofs ---------------------------
(***************************************************************************)
(* Proofs about the record of a call, for every set of calls and of        *)
(* gateway threads, and every number of checks, faults and requests of the *)
(* operator: a call whose phase 2 ended normally is stored with its        *)
(* recording and was announced, and a kiosk shows what is stored.          *)
(***************************************************************************)
EXTENDS DispatchPipelineProofs

(***************************************************************************)
(* Who has a request at the gateway: the worker only the one it awaits; a  *)
(* request of nobody's is one the worker gave up on.                       *)
(***************************************************************************)

Clients ==
    \A t \in Threads : req[t].st # "free" =>
        /\ req[t].from = "worker" => t = awaited
        /\ req[t].from = "nobody" => ~Complete(req[t].call)
        /\ req[t].from = "operator" => edits > 0 /\ req[t].kind \in {"none", "PATCH", "DELETE"}
        /\ req[t].kind = "DELETE" => req[t].from = "operator"

\* What the worker's request for c has read is still there, unless it was deleted.
Read(c) ==
    LET r == req[awaited] IN
    /\ r.seen.id # 0 => row[c].id = r.seen.id \/ (row[c] = NoRow /\ edits > 0)
    /\ r.st = "write" /\ r.seen = NoRow => row[c] = NoRow /\ r.kind = "POST"
    /\ r.st = "refresh" => r.seen.id # 0

\* What the worker's request for c is, and what its end means for the record.
Written(c) == /\ pc = "wait2" => row[c] = NoRow \/ row[c].audio
              /\ edits = 0 => row[c] # NoRow
Request(c) ==
    LET r == req[awaited] IN
    /\ Busy(awaited) =>
          /\ pc = "wait1" \/ form = "single" => r.kind = "POST" \/ (r.kind = "INSERT" /\ r.st # "read")
          /\ pc = "wait2" /\ form # "single" => r.kind = "PATCH"
          /\ pc = "wait2" => r.body.audio
    /\ r.st \in {"refresh", "publish", "ok"} => Written(c)
    /\ r.st = "error" => row[c] = NoRow /\ edits > 0

\* A session of a call means that its phase 1 stored and announced it, once it is past it.
Opened(c) ==
    c \in sessions =>
        /\ ~(c = call /\ pc \in {"save1", "wait1"}) /\ edits = 0 => row[c] # NoRow
        /\ ~(c = call /\ pc \in {"save1", "wait1", "publish1"}) => inserted[c] >= 1
        /\ ~(c = call /\ pc \in {"save1", "wait1", "publish1", "push1"}) => pushed[c] >= 1

\* How far phase 2 has come.
Progress(c) ==
    /\ stage[c] \in {"open", "failed"}
    /\ stage[c] = "failed" => pc = "cleanup2"
    /\ stage[c] # "failed" /\ pc \in Phase2Steps \ {"read2"} =>
        /\ form # "single" => /\ edits = 0 => row[c] # NoRow
                              /\ inserted[c] >= 1
                              /\ pushed[c] >= 1
        /\ pc \in {"publish2", "push2", "cleanup2"} =>
              /\ row[c] = NoRow \/ row[c].audio
              /\ edits = 0 => row[c] # NoRow
        /\ form = "single" /\ pc \in {"push2", "cleanup2"} => inserted[c] >= 1
        /\ form = "single" /\ pc = "cleanup2" => pushed[c] >= 1

Stored(c) ==
    stage[c] = "final" =>
        /\ row[c] = NoRow \/ row[c].audio
        /\ edits = 0 => row[c] # NoRow
        /\ inserted[c] >= 1
        /\ pushed[c] >= 1

Way(c) ==
    /\ c = call /\ awaited # NoThread => Read(c) /\ Request(c)
    /\ c = call => Progress(c)
    /\ Opened(c)
    /\ Stored(c)

RecordInv == EraseInv /\ SessionInv /\ Clients /\ \A c \in Calls : Complete(c) => Way(c)

LEMMA RecordFacts ==
    ASSUME RecordInv
    PROVE  /\ TaskType /\ LocalType /\ GatewayType /\ OnItsWay /\ Clients
           /\ \A c \in Calls : /\ row[c] \in Rows
                               /\ row[c] = NoRow <=> row[c].id = 0
                               /\ c # NoCall
           /\ \A t \in Threads : /\ req[t] \in Requests
                                 /\ req[t].seen = NoRow <=> req[t].seen.id = 0
                                 /\ req[t].st # "free" => req[t].call \in Calls
                                 /\ t # NoThread
<1>1. NoRow.id = 0
  BY DEF NoRow
<1> QED
  BY <1>1, BasicTypes DEF RecordInv, SessionInv, EraseInv, Type, GatewayType, FlagsInv, Says, Sends

(***************************************************************************)
(* What a step of the gateway does to the record of a call.                *)
(***************************************************************************)

KeepsRow(c) ==
    \/ row'[c] = row[c]
    \/ row[c].id # 0 /\ row'[c].id = row[c].id /\ (row[c].audio => row'[c].audio)
    \/ row'[c] = NoRow /\ edits > 0
InsertsRow(c) == row[c] = NoRow /\ row'[c].id # 0 /\ c = call /\ awaited # NoThread

\* A step that keeps the record, or the insert that the worker awaits, keeps the way of the
\* call, if it keeps what is said of the request awaited.
LEMMA GatewayWay ==
    ASSUME RecordInv, EraseInv', UNCHANGED <<Local, edits>>, NEW c \in Calls, Complete(c),
           KeepsRow(c) \/ InsertsRow(c),
           c = call /\ awaited # NoThread => (Read(c) /\ Request(c))'
    PROVE  Way(c)'
<1>a. /\ TaskType /\ Way(c)
      /\ row[c] = NoRow <=> row[c].id = 0
      /\ row'[c] = NoRow <=> row'[c].id = 0
  <2>1. NoRow.id = 0
    BY DEF NoRow
  <2> QED
    BY <2>1, RecordFacts DEF RecordInv, EraseInv, FlagsInv, Says
<1>b. UNCHANGED <<pc, call, awaited, form, stage, sessions, inserted, pushed, edits>>
  BY DEF Local, task, tally, store, told
<1>1. /\ edits = 0 /\ row[c] # NoRow => row'[c] # NoRow
      /\ ~InsertsRow(c) /\ (row[c] = NoRow \/ row[c].audio) => row'[c] = NoRow \/ row'[c].audio
  BY <1>a DEF KeepsRow, InsertsRow
<1>2. InsertsRow(c) => c = call /\ pc \in {"wait1", "wait2"}
  BY <1>a DEF InsertsRow, TaskType
<1>3. (c = call => Progress(c))'
  BY <1>a, <1>b, <1>1, <1>2 DEF Way, Progress
<1>4. Opened(c)'
  BY <1>a, <1>b, <1>1, <1>2 DEF Way, Opened
<1>5. Stored(c)'
  BY <1>a, <1>b, <1>1, <1>2 DEF Way, Stored, Progress
<1> QED
  BY <1>b, <1>3, <1>4, <1>5 DEF Way

\* A request that goes on keeps its client, and no other client's request is the worker's.
LEMMA GoesOn ==
    ASSUME RecordInv, UNCHANGED <<Local, edits>>, NEW t \in Threads, NEW r \in Requests,
           req[t].st # "free", req' = [req EXCEPT ![t] = r],
           r.from = req[t].from, r.call = req[t].call,
           r.kind \in {req[t].kind, "none"} \/ (req[t].kind = "POST" /\ r.kind = "INSERT")
    PROVE  Clients'
<1>a. Clients /\ req \in [Threads -> Requests]
  BY DEF RecordInv, EraseInv, Type, GatewayType
<1>b. UNCHANGED <<awaited, missed, edits>>
  BY DEF Local, task, history
<1>1. \A u \in Threads : req'[u] = IF u = t THEN r ELSE req[u]
  BY <1>a
<1> QED
  BY <1>a, <1>b, <1>1 DEF Clients, Complete

\* A thread other than the one awaited keeps what is said of that one, if it keeps records.
LEMMA OtherThread ==
    ASSUME RecordInv, EraseInv', UNCHANGED <<Local, edits>>, NEW c \in Calls, Complete(c),
           KeepsRow(c), awaited # NoThread => req'[awaited] = req[awaited]
    PROVE  Way(c)'
<1>a. /\ Way(c)
      /\ row[c] = NoRow <=> row[c].id = 0
      /\ row'[c] = NoRow <=> row'[c].id = 0
  <2>1. NoRow.id = 0
    BY DEF NoRow
  <2> QED
    BY <2>1, RecordFacts DEF RecordInv, EraseInv, FlagsInv, Says
<1>b. UNCHANGED <<pc, call, awaited, form, edits>>
  BY DEF Local, task
<1>1. ASSUME c = call, awaited # NoThread PROVE Read(c)' /\ Request(c)'
  <2>1. Read(c) /\ Request(c) /\ req'[awaited'] = req[awaited]
    BY <1>1, <1>a, <1>b DEF Way
  <2>2. Read(c)'
    BY <1>a, <1>b, <2>1 DEF Read, KeepsRow
  <2>3. (req[awaited].st \in {"refresh", "publish", "ok"} => Written(c)) =>
        (req[awaited].st \in {"refresh", "publish", "ok"} => Written(c)')
    BY <1>a, <1>b DEF Written, KeepsRow
  <2>4. req[awaited].st = "error" => row'[c] = NoRow /\ edits > 0
    BY <1>a, <2>1 DEF Request, Busy, KeepsRow
  <2>5. Request(c)'
    BY <1>b, <2>1, <2>3, <2>4 DEF Request, Busy
  <2> QED
    BY <2>2, <2>5
<1> QED
  BY <1>1, GatewayWay

\* A write that names a recording leaves one.
LEMMA MergeAudio ==
    ASSUME NEW now \in Rows, NEW seen \in Rows, NEW b \in Bodies
    PROVE  Merge(now, seen, b).audio = (now.audio \/ b.audio)
<1> DEFINE target == IF Settle(b, seen) = Target(seen) THEN Target(now) ELSE Settle(b, seen)
<1>1. Merge(now, seen, b) = [now EXCEPT !.place = target.place, !.test = target.test,
                                       !.audio = @ \/ b.audio, !.reviewed = @ \/ b.review]
  BY DEF Merge
<1> HIDE DEF target
<1> QED
  BY <1>1 DEF Rows

\* The thread awaited, when it is the one that goes on.
LEMMA OwnThread ==
    ASSUME RecordInv, EraseInv', UNCHANGED <<Local, edits>>, NEW t \in Threads, NEW r \in Requests,
           Busy(t), req' = [req EXCEPT ![t] = r],
           r.from = req[t].from, r.call = req[t].call, r.st # "read",
           \/ r.st \in {"ok", "error"} /\ r.kind = "none"
           \/ /\ r.body = req[t].body
              /\ r.kind = req[t].kind \/ (req[t].kind = "POST" /\ r.kind = "INSERT"),
           \A c \in Calls : Complete(c) => KeepsRow(c) \/ (c = req[t].call /\ t = awaited /\ InsertsRow(c)),
           t = awaited /\ Complete(call) =>
              /\ r.seen.id # 0 => row'[call].id = r.seen.id \/ (row'[call] = NoRow /\ edits > 0)
              /\ r.st = "write" /\ r.seen = NoRow => row'[call] = NoRow /\ r.kind = "POST"
              /\ r.st = "refresh" => r.seen.id # 0
              /\ r.st \in {"refresh", "publish", "ok"} => Written(call)'
              /\ r.st = "error" => row'[call] = NoRow /\ edits > 0
    PROVE  Clients' /\ \A c \in Calls : Complete(c) => Way(c)'
<1>a. TaskType /\ req \in [Threads -> Requests] /\ \A c \in Calls : c # NoCall
  BY RecordFacts DEF GatewayType
<1>b. UNCHANGED <<pc, call, awaited, form, edits>>
  BY DEF Local, task
<1>1. Clients'
  <2>1. req[t].st # "free"
    BY DEF Busy
  <2>2. r.kind \in {req[t].kind, "none"} \/ (req[t].kind = "POST" /\ r.kind = "INSERT")
    OBVIOUS
  <2> QED
    BY <2>1, <2>2, GoesOn
<1>2. ASSUME NEW c \in Calls, Complete(c) PROVE Way(c)'
  <2>0. KeepsRow(c) \/ (c = req[t].call /\ t = awaited /\ InsertsRow(c))
    BY <1>2
  <2>1. CASE awaited # t \/ awaited = NoThread
    <3>1. KeepsRow(c) /\ (awaited # NoThread => req'[awaited] = req[awaited])
      BY <1>a, <2>0, <2>1 DEF InsertsRow, TaskType
    <3> QED
      BY <1>2, <3>1, OtherThread
  <2>2. CASE awaited = t /\ awaited # NoThread
    <3>1. c = call => Read(c)'
      BY <1>a, <1>b, <1>2, <2>2 DEF Read
    <3>2. c = call => Request(c)
      BY <1>2, <2>2 DEF RecordInv, Way
    <3>3. c = call => Request(c)'
      BY <1>a, <1>b, <1>2, <2>2, <3>2 DEF Request, Busy
    <3> QED
      BY <1>2, <2>0, <3>1, <3>3, GatewayWay
  <2> QED
    BY <2>1, <2>2
<1> QED
  BY <1>1, <1>2

LEMMA GatewayRecord ==
    ASSUME RecordInv, Gateway
    PROVE  Clients' /\ \A c \in Calls : Complete(c) => Way(c)'
<1>a. /\ TaskType /\ GatewayType /\ OnItsWay /\ Clients
      /\ \A c \in Calls : row[c] \in Rows /\ c # NoCall
      /\ \A c \in Calls : row[c] = NoRow <=> row[c].id = 0
      /\ \A t \in Threads : req[t] \in Requests /\ (req[t].st # "free" => req[t].call \in Calls)
      /\ \A t \in Threads : req[t].seen = NoRow <=> req[t].seen.id = 0
      /\ row \in [Calls -> Rows] /\ req \in [Threads -> Requests] /\ serial \in Nat
      /\ NoRow.id = 0
  BY RecordFacts DEF GatewayType, NoRow
<1>b. UNCHANGED Local /\ UNCHANGED edits /\ EraseInv'
  <2>1. UNCHANGED Local /\ Type'
    BY GatewayStepType DEF RecordInv, EraseInv
  <2>2. FlagsInv'
    BY GatewayStepFlags DEF RecordInv
  <2>3. UNCHANGED edits
    BY DEF Gateway, ReadRecord, CommitInsert, CommitUpdate, CommitDelete, RefreshRecord, PublishEvent,
       EventLost, AnswerRead
  <2> QED
    BY <2>1, <2>2, <2>3 DEF EraseInv
<1>c. UNCHANGED <<pc, call, awaited, form, stage>>
  BY <1>b DEF Local, task, tally
\* The worker's own request, as it stands.
<1>d. ASSUME awaited # NoThread
      PROVE  /\ call \in Calls /\ awaited \in Threads /\ req[awaited].call = call
             /\ req[awaited].from = "worker" /\ pc \in {"wait1", "wait2"}
             /\ req[awaited].kind # "DELETE"
             /\ Complete(call) => Read(call) /\ Request(call) /\ Progress(call)
  BY <1>a, <1>d DEF TaskType, RecordInv, Way, Clients
<1>e. \A t \in Threads : t = awaited => awaited # NoThread
  BY BasicTypes
<1>f. UNCHANGED row => (\A c \in Calls : KeepsRow(c)) /\ (Written(call) => Written(call)')
  BY <1>b, <1>c DEF KeepsRow, Written
<1>1. ASSUME NEW t \in Threads, ReadRecord(t) PROVE Clients' /\ \A c \in Calls : Complete(c) => Way(c)'
  <2>1. req[t].st = "read" /\ req[t].call \in Calls /\ row[req[t].call] \in Rows /\ UNCHANGED row
    BY <1>1, <1>a DEF ReadRecord
  <2> DEFINE r == IF row[req[t].call] = NoRow /\ req[t].kind # "POST"
                  THEN Answered(t, "error")
                  ELSE [req[t] EXCEPT !.seen = row[req[t].call], !.st = "write"]
  <2>2. /\ r \in Requests /\ r.from = req[t].from /\ r.call = req[t].call /\ r.seen = row[req[t].call]
        /\ IF row[req[t].call] = NoRow /\ req[t].kind # "POST"
           THEN r.st = "error" /\ r.kind = "none"
           ELSE r.st = "write" /\ r.kind = req[t].kind /\ r.body = req[t].body
    BY <1>a, <2>1, AnsweredFacts DEF Requests
  <2>3. req' = [req EXCEPT ![t] = r]
    BY <1>1, <1>a DEF ReadRecord
  <2> HIDE DEF r
  <2>4. ASSUME t = awaited, Complete(call)
        PROVE  /\ r.seen.id # 0 => row'[call].id = r.seen.id
               /\ r.st = "write" /\ r.seen = NoRow => row'[call] = NoRow /\ r.kind = "POST"
               /\ r.st \notin {"refresh", "publish", "ok"}
               /\ r.st = "error" => row'[call] = NoRow /\ edits > 0
    <3>1. r.seen = row[call] /\ pc \in {"wait1", "wait2"} /\ Request(call) /\ Progress(call)
      BY <1>d, <1>e, <2>2, <2>4
    <3>2. r.st = "error" => row[call] = NoRow /\ edits > 0
      <4>1. ASSUME r.st = "error" PROVE row[call] = NoRow /\ pc = "wait2" /\ form # "single"
        BY <1>d, <1>e, <2>1, <2>2, <2>4, <3>1, <4>1 DEF Request, Busy
      <4>2. r.st = "error" => edits # 0
        BY <3>1, <4>1 DEF Progress, Phase2Steps
      <4> QED
        BY <1>a, <4>1, <4>2 DEF GatewayType
    <3> QED
      BY <1>a, <1>d, <1>e, <2>1, <2>2, <2>4, <3>1, <3>2
  <2> QED
    BY <1>b, <1>f, <2>1, <2>2, <2>3, <2>4, OwnThread DEF Busy
<1>2. ASSUME NEW t \in Threads, CommitInsert(t) PROVE Clients' /\ \A c \in Calls : Complete(c) => Way(c)'
  <2>1. /\ req[t].st = "write" /\ req[t].kind = "POST" /\ req[t].call \in Calls /\ req[t].seen = NoRow
        /\ req[t].body \in Bodies
    BY <1>2, <1>a DEF CommitInsert, Requests
  <2>2. Complete(req[t].call) => t = awaited
    BY <1>a, <2>1 DEF Clients, Requests
  <2> DEFINE made == Created(serial + 1, req[t].body)
  <2>3. made \in Rows /\ made.id = serial + 1 /\ made.audio = req[t].body.audio
    BY <1>a, <2>1, WriteTypes DEF Created
  <2>4. CASE row[req[t].call] = NoRow
    <3> DEFINE r == [req[t] EXCEPT !.kind = "INSERT", !.st = "refresh", !.seen = made]
    <3>1. /\ req' = [req EXCEPT ![t] = r]
          /\ row' = [row EXCEPT ![req[t].call] = made]
      BY <1>2, <1>a, <2>4 DEF CommitInsert
    <3> HIDE DEF made
    <3>2. /\ r \in Requests /\ r.from = req[t].from /\ r.call = req[t].call /\ r.body = req[t].body
          /\ r.kind = "INSERT" /\ r.seen = made /\ r.st = "refresh"
      BY <1>a, <2>3 DEF Requests
    <3> HIDE DEF r
    <3>3. made.id # 0
      BY <1>a, <2>3
    <3>4. ASSUME NEW c \in Calls, Complete(c)
          PROVE  KeepsRow(c) \/ (c = req[t].call /\ t = awaited /\ InsertsRow(c))
      BY <1>a, <1>d, <1>e, <2>1, <2>2, <2>4, <3>1, <3>3, <3>4 DEF KeepsRow, InsertsRow
    <3>5. ASSUME t = awaited, Complete(call)
          PROVE  row'[call].id = made.id /\ Written(call)'
      <4>1. req[t].call = call /\ call \in Calls /\ Request(call) /\ row'[call] = made
        BY <1>a, <1>d, <1>e, <3>1, <3>5
      <4> QED
        BY <1>a, <1>c, <2>1, <2>3, <3>3, <3>5, <4>1 DEF Request, Busy, Written
    <3> QED
      BY <1>a, <1>b, <2>1, <3>1, <3>2, <3>3, <3>4, <3>5, OwnThread DEF Busy
  <2>5. CASE row[req[t].call] # NoRow
    <3> DEFINE r == Answered(t, "error")
    <3>1. req' = [req EXCEPT ![t] = r] /\ UNCHANGED row
      BY <1>2, <1>a, <2>5 DEF CommitInsert
    <3>2. /\ r \in Requests /\ r.from = req[t].from /\ r.call = req[t].call
          /\ r.kind = "none" /\ r.st = "error"
      BY <1>a, AnsweredFacts
    <3> HIDE DEF r
    <3>3. ~(t = awaited /\ Complete(call))
      BY <1>d, <1>e, <2>1, <2>5 DEF Read
    <3> QED
      BY <1>b, <1>f, <2>1, <3>1, <3>2, <3>3, OwnThread DEF Busy
  <2> QED
    BY <2>4, <2>5
<1>3. ASSUME NEW t \in Threads, CommitUpdate(t) PROVE Clients' /\ \A c \in Calls : Complete(c) => Way(c)'
  <2>1. /\ req[t].st = "write" /\ req[t].call \in Calls /\ req[t].seen # NoRow /\ req[t].seen.id # 0
        /\ req[t].body \in Bodies /\ req[t].seen \in Rows /\ row[req[t].call] \in Rows
    BY <1>3, <1>a DEF CommitUpdate, Requests
  <2> DEFINE merged == Merge(row[req[t].call], req[t].seen, req[t].body)
  <2>2. merged.id = row[req[t].call].id /\ merged.audio = (row[req[t].call].audio \/ req[t].body.audio)
    <3>1. merged.id = row[req[t].call].id
      BY <2>1, WriteTypes
    <3>2. merged.audio = (row[req[t].call].audio \/ req[t].body.audio)
      BY <2>1, MergeAudio
    <3> QED
      BY <3>1, <3>2
  <2> DEFINE r == IF row[req[t].call].id = req[t].seen.id
                  THEN [req[t] EXCEPT !.st = "refresh"]
                  ELSE Answered(t, "error")
  <2>3. /\ r \in Requests /\ r.from = req[t].from /\ r.call = req[t].call
        /\ IF row[req[t].call].id = req[t].seen.id
           THEN r.st = "refresh" /\ r.kind = req[t].kind /\ r.body = req[t].body /\ r.seen = req[t].seen
           ELSE r.st = "error" /\ r.kind = "none" /\ r.seen.id = 0
    BY <1>a, AnsweredFacts DEF Requests
  <2>4. req' = [req EXCEPT ![t] = r]
    BY <1>3, <1>a DEF CommitUpdate
  <2>5. row' = IF row[req[t].call].id = req[t].seen.id THEN [row EXCEPT ![req[t].call] = merged] ELSE row
    BY <1>3 DEF CommitUpdate
  <2> HIDE DEF r, merged
  <2>6. ASSUME NEW c \in Calls PROVE KeepsRow(c)
    BY <1>a, <2>1, <2>2, <2>5 DEF KeepsRow
  <2>7. ASSUME t = awaited, Complete(call)
        PROVE  /\ r.seen.id # 0 => row'[call].id = r.seen.id \/ (row'[call] = NoRow /\ edits > 0)
               /\ r.st \in {"refresh", "error"}
               /\ r.st = "refresh" => r.seen.id # 0 /\ Written(call)'
               /\ r.st = "error" => row'[call] = NoRow /\ edits > 0
    <3>1. req[t].call = call /\ call \in Calls /\ Read(call) /\ Request(call) /\ pc \in {"wait1", "wait2"}
      BY <1>d, <1>e, <2>7
    <3>2. CASE row[call].id = req[t].seen.id
      <4>1. row'[call] = merged /\ merged.id # 0 /\ (pc = "wait2" => merged.audio)
        BY <1>a, <2>1, <2>2, <2>5, <2>7, <3>1, <3>2 DEF Request, Busy
      <4>2. Written(call)'
        BY <1>a, <1>b, <1>c, <4>1 DEF Written
      <4> QED
        BY <2>2, <2>3, <3>1, <3>2, <4>1, <4>2
    <3>3. CASE row[call].id # req[t].seen.id
      BY <2>1, <2>3, <2>5, <2>7, <3>1, <3>3 DEF Read
    <3> QED
      BY <3>2, <3>3
  <2> QED
    BY <1>b, <2>1, <2>3, <2>4, <2>6, <2>7, OwnThread DEF Busy
<1>4. ASSUME NEW t \in Threads, CommitDelete(t) PROVE Clients' /\ \A c \in Calls : Complete(c) => Way(c)'
  <2>1. req[t].st = "write" /\ req[t].call \in Calls /\ req[t].kind = "DELETE" /\ edits > 0
    BY <1>4, <1>a DEF CommitDelete, Clients
  <2> DEFINE r == [req[t] EXCEPT !.st = "publish"]
  <2>2. /\ r \in Requests /\ r.from = req[t].from /\ r.call = req[t].call /\ r.body = req[t].body
        /\ r.kind = req[t].kind /\ r.st = "publish"
    BY <1>a DEF Requests
  <2>3. req' = [req EXCEPT ![t] = r] /\ t # awaited
    BY <1>4, <1>a, <1>d, <1>e, <2>1 DEF CommitDelete
  <2>4. row' = row \/ row' = [row EXCEPT ![req[t].call] = NoRow]
    BY <1>4 DEF CommitDelete
  <2> HIDE DEF r
  <2>5. \A c \in Calls : KeepsRow(c)
    BY <1>a, <2>1, <2>4 DEF KeepsRow
  <2> QED
    BY <1>b, <2>1, <2>2, <2>3, <2>5, OwnThread DEF Busy
<1>5. ASSUME NEW t \in Threads, RefreshRecord(t) PROVE Clients' /\ \A c \in Calls : Complete(c) => Way(c)'
  <2>1. req[t].st = "refresh" /\ req[t].call \in Calls /\ row[req[t].call] \in Rows /\ UNCHANGED row
    BY <1>5, <1>a DEF RefreshRecord
  <2> DEFINE r == IF row[req[t].call].id = req[t].seen.id
                  THEN [req[t] EXCEPT !.st = "publish", !.seen = row[req[t].call]]
                  ELSE Answered(t, "error")
  <2>2. /\ r \in Requests /\ r.from = req[t].from /\ r.call = req[t].call
        /\ IF row[req[t].call].id = req[t].seen.id
           THEN r.st = "publish" /\ r.seen = row[req[t].call] /\ r.kind = req[t].kind /\ r.body = req[t].body
           ELSE r.st = "error" /\ r.seen.id = 0 /\ r.kind = "none"
    BY <1>a, <2>1, AnsweredFacts DEF Requests
  <2>3. req' = [req EXCEPT ![t] = r]
    BY <1>5, <1>a DEF RefreshRecord, Reread
  <2> HIDE DEF r
  <2>4. ASSUME t = awaited, Complete(call)
        PROVE  /\ r.seen.id # 0 => row'[call].id = r.seen.id \/ (row'[call] = NoRow /\ edits > 0)
               /\ r.st \in {"publish", "error"}
               /\ r.st = "publish" => Written(call)'
               /\ r.st = "error" => row'[call] = NoRow /\ edits > 0
    BY <1>d, <1>e, <1>f, <2>1, <2>2, <2>4 DEF Read, Request, Busy
  <2> QED
    BY <1>b, <1>f, <2>1, <2>2, <2>3, <2>4, OwnThread DEF Busy
<1>6. ASSUME NEW t \in Threads, PublishEvent(t) \/ EventLost(t) PROVE Clients' /\ \A c \in Calls : Complete(c) => Way(c)'
  <2>1. req[t].st = "publish" /\ UNCHANGED row
    BY <1>6 DEF PublishEvent, EventLost
  <2> DEFINE r == Answered(t, "ok")
  <2>2. /\ r \in Requests /\ r.from = req[t].from /\ r.call = req[t].call
        /\ r.kind = "none" /\ r.seen.id = 0 /\ r.st = "ok"
    BY <1>a, AnsweredFacts
  <2>3. req' = [req EXCEPT ![t] = r]
    BY <1>6 DEF PublishEvent, EventLost
  <2> HIDE DEF r
  <2>4. ASSUME t = awaited, Complete(call)
        PROVE  /\ r.seen.id # 0 => row'[call].id = r.seen.id \/ (row'[call] = NoRow /\ edits > 0)
               /\ Written(call)'
    BY <1>d, <1>e, <1>f, <2>1, <2>2, <2>4 DEF Read, Request, Busy
  <2> QED
    BY <1>b, <1>f, <2>1, <2>2, <2>3, <2>4, OwnThread DEF Busy
<1>7. ASSUME NEW t \in Threads, AnswerRead(t) PROVE Clients' /\ \A c \in Calls : Complete(c) => Way(c)'
  <2>1. t # awaited /\ req' = [req EXCEPT ![t] = Free] /\ UNCHANGED row
    BY <1>7, <1>d, <1>e DEF AnswerRead
  <2>2. Clients'
    BY <1>a, <1>b, <2>1 DEF Clients, Complete, Free, Local, task, history
  <2>3. ASSUME NEW c \in Calls, Complete(c) PROVE Way(c)'
    <3>1. awaited # NoThread => req'[awaited] = req[awaited]
      BY <1>a, <1>d, <2>1
    <3> QED
      BY <1>b, <1>f, <2>1, <2>3, <3>1, OtherThread
  <2> QED
    BY <2>2, <2>3
<1> QED
  BY <1>1, <1>2, <1>3, <1>4, <1>5, <1>6, <1>7 DEF Gateway

(***************************************************************************)
(* What the worker does.                                                   *)
(***************************************************************************)

\* A step of the worker that leaves requests alone.
LEMMA ClientsKeep ==
    ASSUME RecordInv, UNCHANGED <<req, awaited, edits>>, missed \subseteq missed'
    PROVE  Clients'
<1>1. \A c \in Calls : Complete(c)' => Complete(c)
  BY DEF Complete
<1>2. /\ \A t \in Threads : req[t].st # "free" => req[t].call \in Calls
      /\ Clients
  BY RecordFacts
<1> QED
  BY <1>1, <1>2 DEF Clients

\* A step of the worker that is on another call, or on none.
LEMMA WayApart ==
    ASSUME RecordInv, NEW c \in Calls, Way(c), c # call, c # call',
           UNCHANGED row, edits' = edits, stage'[c] = stage[c],
           c \in sessions' => c \in sessions, inserted'[c] = inserted[c], pushed'[c] = pushed[c]
    PROVE  Way(c)'
  BY DEF Way, Opened, Stored

\* A request that the worker gives up on is nobody's, of a call with a step that missed.
LEMMA GivenUp ==
    ASSUME RecordInv, awaited \in Threads, req[awaited].call = call, call \in Calls, Misses,
           req' = [req EXCEPT ![awaited].from = "nobody"], edits' = edits, awaited' = NoThread
    PROVE  Clients'
<1>1. /\ Clients /\ req \in [Threads -> Requests]
      /\ \A c \in Calls : Complete(c)' => Complete(c) /\ c # call
  BY RecordFacts DEF GatewayType, Misses, Complete
<1> DEFINE r == [req[awaited] EXCEPT !.from = "nobody"]
<1>2. r.st = req[awaited].st /\ r.from = "nobody" /\ r.call = call /\ r.kind = req[awaited].kind
  BY <1>1 DEF Requests
<1>3. req' = [req EXCEPT ![awaited] = r]
  BY <1>1
<1> HIDE DEF r
<1>4. \A u \in Threads : req'[u] = IF u = awaited THEN r ELSE req[u]
  BY <1>1, <1>3
<1>5. ASSUME NEW u \in Threads, req'[u].st # "free"
      PROVE  /\ req'[u].from = "worker" => u = awaited'
             /\ req'[u].from = "nobody" => ~Complete(req[u].call)'
             /\ req'[u].from = "operator" => edits' > 0 /\ req'[u].kind \in {"none", "PATCH", "DELETE"}
             /\ req'[u].kind = "DELETE" => req'[u].from = "operator"
  <2>1. CASE u = awaited
    <3>1. req'[u] = r /\ req[awaited].from = "worker" /\ req[awaited].st # "free"
      BY <1>2, <1>4, <1>5, <2>1, RecordFacts DEF TaskType, OnItsWay
    <3> QED
      BY <1>1, <1>2, <1>5, <2>1, <3>1 DEF Clients
  <2>2. CASE u # awaited
    <3>1. req'[u] = req[u] /\ req[u].call \in Calls
      BY <1>4, <1>5, <2>2, RecordFacts
    <3> QED
      BY <1>1, <1>5, <2>2, <3>1 DEF Clients
  <2> QED
    BY <2>1, <2>2
<1> QED
  BY <1>5 DEF Clients

LEMMA WorkerClients ==
    ASSUME RecordInv, Worker \/ Operator \/ Surroundings
    PROVE  Clients'
<1>a. TaskType /\ GatewayType /\ Clients /\ edits \in Nat
  BY RecordFacts, GatewayConstantsOK DEF GatewayType
\* A thread that was free takes a request.
<1>b. ASSUME NEW t \in Threads, NEW from \in {"worker", "operator"}, NEW kind, NEW d, NEW body,
             Arrives(t, from, kind, d, body), missed' = missed, edits <= edits',
             edits' \in Nat,
             \/ from = "worker" /\ kind # "DELETE" /\ awaited = NoThread /\ awaited' = t
             \/ from = "operator" /\ kind \in {"PATCH", "DELETE"} /\ awaited' = awaited /\ edits' > 0
      PROVE  Clients'
  <2> DEFINE r == [st |-> "read", from |-> from, kind |-> kind, call |-> d, body |-> body, seen |-> NoRow]
  <2>1. r.from = from /\ r.kind = kind
    OBVIOUS
  <2>2. req' = [req EXCEPT ![t] = r] /\ req \in [Threads -> Requests] /\ \A u \in Threads : u # NoThread
    BY <1>a, <1>b, BasicTypes DEF Arrives, GatewayType
  <2> HIDE DEF r
  <2>3. \A u \in Threads : req'[u] = IF u = t THEN r ELSE req[u]
    BY <2>2
  <2>4. \A x : Complete(x)' <=> Complete(x)
    BY <1>b DEF Complete
  <2> QED
    BY <1>a, <1>b, <2>1, <2>2, <2>3, <2>4 DEF Clients
<1>1. ASSUME NEW t \in Threads, SendRequest(t) PROVE Clients'
  <2>1. /\ Arrives(t, "worker", Method, call, Payload) /\ missed' = missed /\ edits' = edits
        /\ Method # "DELETE" /\ awaited' = t
    BY <1>1 DEF SendRequest, Method, history
  <2>2. awaited = NoThread
    BY <1>1, <1>a DEF SendRequest, Saving, TaskType
  <2> QED
    BY <1>a, <1>b, <2>1, <2>2
<1>2. ASSUME AnswerArrives PROVE Clients'
  <2>1. /\ awaited \in Threads /\ awaited' = NoThread /\ req' = [req EXCEPT ![awaited] = Free]
        /\ UNCHANGED <<edits, missed>>
    BY <1>2, <1>a DEF AnswerArrives, Waiting, TaskType, history
  <2> QED
    BY <1>a, <2>1 DEF Clients, Complete, Free, GatewayType
<1>3. ASSUME RequestTimesOut \/ (WorkerCrashes /\ awaited # NoThread) PROVE Clients'
  <2>1. /\ awaited \in Threads /\ req[awaited].call = call /\ call \in Calls
        /\ pc \in {"wait1", "wait2"}
    BY <1>3, <1>a DEF RequestTimesOut, MayTimeOut, Waiting, TaskType
  <2>2. Misses /\ req' = [req EXCEPT ![awaited].from = "nobody"] /\ edits' = edits /\ awaited' = NoThread
    BY <1>3, <2>1 DEF RequestTimesOut, WorkerCrashes, Idle
  <2> QED
    BY <2>1, <2>2, GivenUp
<1>4. ASSUME Worker, ~(\E t \in Threads : SendRequest(t)), ~AnswerArrives, ~RequestTimesOut PROVE Clients'
  <2>1. UNCHANGED <<req, edits>>
    BY <1>4 DEF Worker, gateway, CheckPhase1, CheckPhase1Blind, StartPhase2, Phase1NotYet, Phase1Complete,
       RecordPhase1, RecordPhase1Fails, RequestFails, PublishPhase1, PublishPhase2, PublishFails,
       PushPhase1, PushPhase2, PushFails, ReadSession, ReadSessionFails, FinishListening, Phase2Raises,
       CleanUp, CleanUpFails
  <2>2. missed \subseteq missed'
    BY <1>4 DEF Worker, history, CheckPhase1, CheckPhase1Blind, StartPhase2, Phase1NotYet, Phase1Complete,
       RecordPhase1, RecordPhase1Fails, RequestFails, PublishPhase1, PublishPhase2, PublishFails,
       PushPhase1, PushPhase2, PushFails, ReadSession, ReadSessionFails, FinishListening, Phase2Raises,
       CleanUp, CleanUpFails, Misses
  <2>3. awaited' = awaited
    <3>1. pc \notin {"wait1", "wait2"} => awaited = NoThread
      BY <1>a DEF TaskType
    <3> QED
      BY <1>4, <3>1 DEF Worker, task, Goto, Idle, CheckPhase1, CheckPhase1Blind, StartPhase2, Phase1NotYet,
         Phase1Complete, RecordPhase1, RecordPhase1Fails, RequestFails, PublishPhase1, PublishPhase2,
         PublishFails, PushPhase1, PushPhase2, PushFails, ReadSession, ReadSessionFails, FinishListening,
         Phase2Raises, CleanUp, CleanUpFails
  <2> QED
    BY <2>1, <2>2, <2>3, ClientsKeep
<1>5. ASSUME NEW d \in Calls, SessionAges(d) \/ Phase2Lost(d) \/ (OperatorLoads(d) /\ UNCHANGED Local)
      PROVE  Clients'
  <2>1. UNCHANGED <<req, awaited, edits, missed>>
    BY <1>5 DEF SessionAges, Phase2Lost, OperatorLoads, Local, gateway, task, history
  <2> QED
    BY <2>1, ClientsKeep
<1>6. ASSUME WorkerCrashes, awaited = NoThread PROVE Clients'
  <2>1. UNCHANGED <<req, awaited, edits>> /\ missed \subseteq missed'
    BY <1>6 DEF WorkerCrashes, Idle, Misses
  <2> QED
    BY <2>1, ClientsKeep
<1>7. ASSUME NEW t \in Threads, OperatorSaves(t) \/ OperatorDeletes(t), Meanwhile PROVE Clients'
  <2>1. edits' = edits + 1 /\ UNCHANGED <<awaited, missed>>
    BY <1>7 DEF OperatorSaves, OperatorDeletes, Meanwhile, task
  <2>2. \E kind \in {"PATCH", "DELETE"} : \E body, d : Arrives(t, "operator", kind, d, body)
    BY <1>7 DEF OperatorSaves, OperatorDeletes
  <2> QED
    BY <1>a, <1>b, <2>1, <2>2
<1> QED
  BY <1>1, <1>2, <1>3, <1>4, <1>5, <1>6, <1>7 DEF Operator, Surroundings

LEMMA WorkerRecord ==
    ASSUME RecordInv, Worker, NEW c \in Calls, Complete(c)'
    PROVE  Way(c)'
<1> USE DEF Phase1Steps, Phase2Steps
<1>a. /\ TaskType /\ LocalType /\ GatewayType /\ OnItsWay /\ Clients
      /\ c # NoCall
      /\ edits \in Nat
  BY RecordFacts, GatewayConstantsOK DEF GatewayType
<1>b. missed \subseteq missed' => Complete(c) /\ Way(c)
  BY DEF Complete, RecordInv
<1>c. Misses => missed \subseteq missed' /\ c # call
  BY DEF Misses, Complete
\* A handler that begins, or does not.
<1>1. ASSUME NEW d \in Calls, CheckPhase1(d) \/ CheckPhase1Blind(d) \/ StartPhase2(d)
      PROVE  Way(c)'
  <2>1. /\ pc = "idle" /\ call = NoCall /\ awaited = NoThread /\ awaited' = awaited
        /\ UNCHANGED <<row, req, edits, inserted, pushed, missed>>
        /\ stage[d] \in {"fresh", "open"} /\ stage' = [stage EXCEPT ![d] = "open"]
    BY <1>1, <1>a DEF CheckPhase1, CheckPhase1Blind, StartPhase2, NextInLine, TaskType, gateway, told,
       history, task
  <2>2. sessions' \subseteq sessions
    BY <1>1 DEF CheckPhase1, CheckPhase1Blind, StartPhase2, Kept, Swept, store
  <2>3. call' = call \/ (call' = d /\ pc' \in {"listen1", "read2"})
    BY <1>1 DEF CheckPhase1, CheckPhase1Blind, StartPhase2, task
  <2>4. (c = call => Progress(c))'
    BY <1>a, <2>1, <2>3 DEF Progress, LocalType
  <2>5. Opened(c)'
    BY <1>a, <1>b, <2>1, <2>2, <2>3 DEF Way, Opened
  <2>6. Stored(c)'
    BY <1>a, <1>b, <2>1 DEF Way, Stored, LocalType
  <2> QED
    BY <1>a, <1>b, <2>1, <2>4, <2>5, <2>6 DEF Way
\* The others are steps of the call the worker is on.
<1>d. ASSUME c # call, UNCHANGED <<row, edits>>, call' \in {call, NoCall},
             \A d \in Calls \ {call} : /\ stage'[d] = stage[d]
                                       /\ d \in sessions' => d \in sessions
                                       /\ inserted'[d] = inserted[d]
                                       /\ pushed'[d] = pushed[d],
             missed \subseteq missed'
      PROVE  Way(c)'
  BY <1>a, <1>b, <1>d, WayApart
<1>2. ASSUME Phase1NotYet \/ Phase1Complete PROVE Way(c)'
  <2>1. /\ pc = "listen1" /\ awaited = NoThread /\ awaited' = NoThread
        /\ UNCHANGED <<row, req, edits, stage, sessions, inserted, pushed, missed>>
        /\ (call' = call /\ pc' = "record1") \/ (call' = NoCall /\ pc' = "idle")
    BY <1>2, <1>a DEF Phase1NotYet, Phase1Complete, Idle, Goto, TaskType, gateway, tally, store, told, history
  <2>2. Way(c)'
    BY <1>a, <1>b, <2>1 DEF Way, Opened, Stored, Progress
  <2> QED
    BY <2>2
<1>3. ASSUME RecordPhase1 \/ RecordPhase1Fails PROVE Way(c)'
  <2>1. /\ pc = "record1" /\ pc' = "save1" /\ awaited = NoThread /\ awaited' = NoThread
        /\ UNCHANGED <<row, req, edits, stage, inserted, pushed, missed, call>>
        /\ sessions' \subseteq sessions \cup {call}
    BY <1>3, <1>a DEF RecordPhase1, RecordPhase1Fails, Goto, TaskType, Kept, Swept, gateway, tally, told
  <2>2. Way(c)'
    BY <1>a, <1>b, <2>1 DEF Way, Opened, Stored, Progress
  <2> QED
    BY <2>2
<1>4. ASSUME NEW t \in Threads, SendRequest(t) PROVE Way(c)'
  <2> DEFINE r == [st |-> "read", from |-> "worker", kind |-> Method, call |-> call, body |-> Payload,
                   seen |-> NoRow]
  <2>1. /\ pc \in {"save1", "save2"} /\ pc' = (IF pc = "save1" THEN "wait1" ELSE "wait2")
        /\ awaited = NoThread /\ awaited' = t /\ req' = [req EXCEPT ![t] = r]
        /\ UNCHANGED <<row, edits, stage, sessions, inserted, pushed, missed, call, form>>
    BY <1>4, <1>a DEF SendRequest, Saving, Arrives, TaskType, tally, store, told, history
  <2>2. /\ r.st = "read" /\ r.from = "worker" /\ r.seen.id = 0
        /\ r.kind = IF pc = "save1" \/ form = "single" THEN "POST" ELSE "PATCH"
        /\ pc = "save2" => r.body.audio
    <3>1. pc = "save2" => Payload.audio
      BY DEF Payload
    <3> QED
      BY <3>1 DEF Method, NoRow
  <2> HIDE DEF r
  <2>3. req'[t] = r
    BY <1>a, <2>1 DEF GatewayType
  <2>5. c = call => Read(c)' /\ Request(c)'
    BY <2>1, <2>2, <2>3 DEF Read, Request, Busy
  <2>6. Way(c)'
    BY <1>a, <1>b, <2>1, <2>5 DEF Way, Opened, Stored, Progress
  <2> QED
    BY <2>6
<1>5. ASSUME RequestFails \/ PublishFails \/ PushFails PROVE Way(c)'
  <2>1. /\ c # call /\ missed \subseteq missed' /\ call' \in {call, NoCall} /\ awaited' = awaited
        /\ UNCHANGED <<row, req, edits, stage, sessions, inserted, pushed>>
    <3>1. c # call /\ missed \subseteq missed'
      BY <1>5, <1>c DEF RequestFails, PublishFails, PushFails
    <3>2. awaited = NoThread
      BY <1>5, <1>a DEF RequestFails, PublishFails, PushFails, Saving, TaskType
    <3>3. call' \in {call, NoCall} /\ awaited' = awaited
      BY <1>5, <3>2 DEF RequestFails, PublishFails, PushFails, Goto, Idle
    <3>4. UNCHANGED <<row, req, edits, stage, sessions, inserted, pushed>>
      BY <1>5 DEF RequestFails, PublishFails, PushFails, gateway, tally, store, told
    <3> QED
      BY <3>1, <3>3, <3>4
  <2> QED
    BY <1>d, <2>1
<1>6. ASSUME AnswerArrives PROVE Way(c)'
  <2>1. /\ pc \in {"wait1", "wait2"} /\ pc' = (IF pc = "wait1" THEN "publish1" ELSE "publish2")
        /\ awaited \in Threads /\ awaited' = NoThread /\ req' = [req EXCEPT ![awaited] = Free]
        /\ req[awaited].st \in {"ok", "error"}
        /\ UNCHANGED <<row, edits, stage, sessions, inserted, pushed, missed, call, form>>
    BY <1>6, <1>a DEF AnswerArrives, Waiting, AfterSaving, TaskType, tally, store, told, history
  <2>3. c = call => Written(c) \/ (row[c] = NoRow /\ edits > 0)
    BY <1>a, <1>b, <2>1, BasicTypes DEF Way, Request, Busy
  <2>4. Way(c)'
    BY <1>a, <1>b, <2>1, <2>3 DEF Way, Opened, Stored, Progress, Written
  <2> QED
    BY <2>4
<1>7. ASSUME RequestTimesOut PROVE Way(c)'
  <2>1. /\ c # call /\ missed \subseteq missed' /\ call' = call
        /\ UNCHANGED <<row, edits, stage, sessions, inserted, pushed>>
        /\ awaited \in Threads /\ req[awaited].call = call /\ awaited' = NoThread
        /\ req' = [req EXCEPT ![awaited].from = "nobody"]
    BY <1>7, <1>a, <1>c DEF RequestTimesOut, MayTimeOut, Waiting, TaskType, tally, store, told
  <2> QED
    BY <1>d, <2>1
<1>8. ASSUME PublishPhase1 \/ PublishPhase2 PROVE Way(c)'
  <2>1. /\ UNCHANGED <<row, req, edits, stage, sessions, pushed, missed, call, form, awaited>>
        /\ awaited = NoThread /\ call \in Calls
    BY <1>8, <1>a DEF PublishPhase1, PublishPhase2, Goto, TaskType, tally, store, history
  <2>2. CASE PublishPhase1
    <3>1. pc = "publish1" /\ pc' = "push1" /\ inserted' = [inserted EXCEPT ![call] = @ + 1]
      BY <2>2 DEF PublishPhase1, Goto
    <3>2. Way(c)'
      BY <1>a, <1>b, <2>1, <3>1 DEF Way, Opened, Stored, Progress, LocalType
    <3> QED
      BY <3>2
  <2>3. CASE PublishPhase2 /\ form = "single"
    <3>1. pc = "publish2" /\ pc' = "push2" /\ inserted' = [inserted EXCEPT ![call] = @ + 1]
      BY <2>3 DEF PublishPhase2, Goto
    <3>2. Way(c)'
      BY <1>a, <1>b, <2>1, <2>3, <3>1 DEF Way, Opened, Stored, Progress, LocalType
    <3> QED
      BY <3>2
  <2>4. CASE PublishPhase2 /\ form # "single"
    <3>1. pc = "publish2" /\ pc' \in {"push2", "cleanup2"} /\ inserted' = inserted
      BY <2>4 DEF PublishPhase2, Goto
    <3>2. Way(c)'
      BY <1>a, <1>b, <2>1, <2>4, <3>1 DEF Way, Opened, Stored, Progress
    <3> QED
      BY <3>2
  <2> QED
    BY <1>8, <2>2, <2>3, <2>4
<1>9. ASSUME PushPhase1 PROVE Way(c)'
  <2>1. /\ pc = "push1" /\ pc' = "idle" /\ call' = NoCall /\ awaited = NoThread /\ awaited' = NoThread
        /\ UNCHANGED <<row, req, edits, stage, sessions, inserted, missed>>
        /\ call \in Calls /\ pushed' = [pushed EXCEPT ![call] = @ + 1]
    BY <1>9, <1>a DEF PushPhase1, Idle, TaskType, gateway, tally, store, history
  <2>2. Way(c)'
    BY <1>a, <1>b, <2>1 DEF Way, Opened, Stored, Progress, LocalType
  <2> QED
    BY <2>2
<1>10. ASSUME PushPhase2 PROVE Way(c)'
  <2>1. /\ pc = "push2" /\ pc' = "cleanup2" /\ awaited = NoThread
        /\ UNCHANGED <<row, req, edits, stage, sessions, inserted, missed, call, form, awaited>>
        /\ call \in Calls
        /\ pushed' = IF form = "single" THEN [pushed EXCEPT ![call] = @ + 1] ELSE pushed
    BY <1>10, <1>a DEF PushPhase2, Goto, TaskType, gateway, tally, store, history
  <2>2. Way(c)'
    BY <1>a, <1>b, <2>1 DEF Way, Opened, Stored, Progress, LocalType
  <2> QED
    BY <2>2
<1>11. ASSUME ReadSession \/ ReadSessionFails \/ FinishListening PROVE Way(c)'
  <2>1. /\ UNCHANGED <<row, req, edits, stage, sessions, inserted, pushed, missed, call, awaited>>
        /\ awaited = NoThread /\ call \in Calls
    BY <1>11, <1>a DEF ReadSession, ReadSessionFails, FinishListening, TaskType, gateway, tally, store,
       told, history
  <2>2. \/ pc = "read2" /\ pc' = "listen2" /\ (call \in sessions \/ form' = "single")
        \/ pc = "listen2" /\ pc' = "save2" /\ (form = "single" <=> form' = "single")
    BY <1>11 DEF ReadSession, ReadSessionFails, FinishListening
  <2>3. Way(c)'
    BY <1>a, <1>b, <2>1, <2>2 DEF Way, Opened, Stored, Progress
  <2> QED
    BY <2>3
<1>12. ASSUME Phase2Raises PROVE Way(c)'
  <2>1. /\ UNCHANGED <<row, req, edits, sessions, inserted, pushed, missed, call, awaited>>
        /\ awaited = NoThread /\ call \in Calls /\ pc' = "cleanup2" /\ pc \in {"read2", "listen2"}
        /\ stage' = [stage EXCEPT ![call] = "failed"]
    BY <1>12, <1>a DEF Phase2Raises, AfterException, TaskType, gateway, store, told, history
  <2>2. Way(c)'
    BY <1>a, <1>b, <2>1 DEF Way, Opened, Stored, Progress, LocalType
  <2> QED
    BY <2>2
<1>13. ASSUME CleanUp \/ CleanUpFails PROVE Way(c)'
  <2>1. /\ UNCHANGED <<row, req, edits, inserted, pushed, missed>>
        /\ awaited = NoThread /\ awaited' = NoThread /\ call \in Calls /\ call' = NoCall
        /\ pc' = "idle" /\ pc = "cleanup2" /\ sessions' \subseteq sessions
        /\ stage' = [stage EXCEPT ![call] = IF @ = "failed" THEN @ ELSE "final"]
    BY <1>13, <1>a DEF CleanUp, CleanUpFails, Ended, Idle, TaskType, gateway, store, told, history
  <2>2. Way(c)'
    BY <1>a, <1>b, <2>1 DEF Way, Opened, Stored, Progress, LocalType
  <2> QED
    BY <2>2
<1> QED
  BY <1>1, <1>2, <1>3, <1>4, <1>5, <1>6, <1>7, <1>8, <1>9, <1>10, <1>11, <1>12, <1>13 DEF Worker

LEMMA SurroundingsRecord ==
    ASSUME RecordInv, Operator \/ Surroundings, NEW c \in Calls, Complete(c)'
    PROVE  Way(c)'
<1> USE DEF Phase1Steps, Phase2Steps
<1>a. /\ TaskType /\ LocalType /\ GatewayType /\ OnItsWay /\ Clients
      /\ c # NoCall
      /\ edits \in Nat
  BY RecordFacts, GatewayConstantsOK DEF GatewayType
<1>b. missed \subseteq missed' => Complete(c) /\ Way(c)
  BY DEF Complete, RecordInv
<1>1. ASSUME NEW d \in Calls, SessionAges(d) \/ Phase2Lost(d) PROVE Way(c)'
  <2>1. /\ UNCHANGED <<row, req, edits, sessions, inserted, pushed, missed, pc, call, form, awaited>>
        /\ stage' = stage \/ (pc = "idle" /\ stage' = [stage EXCEPT ![d] = "dropped"])
    BY <1>1 DEF SessionAges, Phase2Lost, gateway, task, tally, store, told, history
  <2>2. Way(c)'
    BY <1>a, <1>b, <2>1 DEF Way, Opened, Stored, Progress, Read, Request, Busy, Written, LocalType, TaskType
  <2> QED
    BY <2>2
<1>2. ASSUME WorkerCrashes PROVE Way(c)'
  <2>1. /\ UNCHANGED <<row, edits, sessions, inserted, pushed>>
        /\ call' = NoCall /\ pc' = "idle" /\ awaited' = NoThread /\ call \in Calls
        /\ missed \subseteq missed' /\ (pc = "listen1" \/ Misses)
    BY <1>2, <1>a DEF WorkerCrashes, Idle, TaskType, store, told, Misses
  <2>2. /\ stage' = stage \/ stage' = [stage EXCEPT ![call] = "failed"]
        /\ pc = "listen1" \/ c # call
    BY <1>2, <2>1 DEF WorkerCrashes, Misses, Complete
  <2>3. Way(c)'
    BY <1>a, <1>b, <2>1, <2>2 DEF Way, Opened, Stored, Progress, LocalType
  <2> QED
    BY <2>3
<1>3. ASSUME NEW d \in Calls, OperatorLoads(d), UNCHANGED Local PROVE Way(c)'
  <2>1. UNCHANGED <<row, req, edits, stage, sessions, inserted, pushed, missed, pc, call, form, awaited>>
    BY <1>3 DEF OperatorLoads, Local, task, tally, store, told, history
  <2>2. Way(c)'
    BY <1>b, <2>1 DEF Way, Opened, Stored, Progress, Read, Request, Busy, Written
  <2> QED
    BY <2>2
<1>4. ASSUME NEW t \in Threads, OperatorSaves(t) \/ OperatorDeletes(t), Meanwhile
      PROVE Way(c)'
  <2>1. /\ UNCHANGED <<row, stage, sessions, inserted, pushed, missed, pc, call, form, awaited>>
        /\ edits' = edits + 1 /\ req[t].st = "free"
        /\ \A u \in Threads \ {t} : req'[u] = req[u]
        /\ req'[t].from = "operator" /\ req'[t].kind \in {"PATCH", "DELETE"}
    <3>1. /\ edits' = edits + 1
          /\ \E body, d : Arrives(t, "operator", "PATCH", d, body) \/ Arrives(t, "operator", "DELETE", d, body)
      BY <1>4 DEF OperatorSaves, OperatorDeletes
    <3>2. PICK body, d : Arrives(t, "operator", "PATCH", d, body) \/ Arrives(t, "operator", "DELETE", d, body)
      BY <3>1
    <3>3. UNCHANGED <<row, stage, sessions, inserted, pushed, missed, pc, call, form, awaited>>
      BY <1>4 DEF OperatorSaves, OperatorDeletes, Meanwhile, task, tally, store, told
    <3> QED
      BY <1>a, <3>1, <3>2, <3>3 DEF Arrives, GatewayType
  <2>3. awaited # NoThread => req'[awaited] = req[awaited]
    BY <1>a, <2>1 DEF TaskType
  <2>4. c = call /\ awaited # NoThread => Read(c)' /\ Request(c)'
    BY <1>a, <1>b, <2>1, <2>3 DEF Way, Read, Request, Busy, Written
  <2>5. Way(c)'
    BY <1>a, <1>b, <2>1, <2>4 DEF Way, Opened, Stored, Progress
  <2> QED
    BY <2>5
<1> QED
  BY <1>1, <1>2, <1>3, <1>4 DEF Operator, Surroundings

\* A call whose phase 2 ended normally is stored with its recording and was announced by both
\* ways, whichever of its two phases created the record and whatever the operator's requests
\* did in between, unless a step was cut short or never answered, or the operator deleted it.
THEOREM FinalMeansCompleteCorrect == Spec => []FinalMeansComplete
<1>1. Init => RecordInv
  <2> SUFFICES ASSUME Init PROVE RecordInv
    OBVIOUS
  <2>1. EraseInv /\ SessionInv
    BY EraseInvariant, SessionInvariant
  <2>2. Clients
    BY DEF Init, GatewayInit, Clients, Free
  <2>3. \A c \in Calls : Way(c)
    BY BasicTypes DEF Init, Way, Opened, Stored
  <2> QED
    BY <2>1, <2>2, <2>3 DEF RecordInv
<1>2. RecordInv /\ [Next]_vars => RecordInv'
  <2> SUFFICES ASSUME RecordInv, [Next]_vars PROVE RecordInv'
    OBVIOUS
  <2>1. (EraseInv /\ SessionInv)'
    BY EraseInvariant, SessionInvariant DEF RecordInv
  <2>2. CASE Gateway
    <3>1. UNCHANGED missed
      BY <2>2, GatewayStepType DEF RecordInv, EraseInv, Local, history
    <3> QED
      BY <2>1, <2>2, <3>1, GatewayRecord DEF RecordInv, Complete
  <2>3. CASE Worker
    BY <2>1, <2>3, WorkerClients, WorkerRecord DEF RecordInv
  <2>4. CASE Operator \/ Surroundings
    BY <2>1, <2>4, WorkerClients, SurroundingsRecord DEF RecordInv
  <2>5. CASE UNCHANGED vars
    <3>1. UNCHANGED <<row, req, edits, stage, sessions, inserted, pushed, missed, pc, call, form, awaited>>
      BY <2>5 DEF vars, gateway, task, tally, store, told, history
    <3>2. Clients' /\ \A c \in Calls : Complete(c)' <=> Complete(c)
      BY <3>1, ClientsKeep DEF Complete
    <3>3. \A c \in Calls : Way(c) => Way(c)'
      BY <3>1 DEF Way, Read, Request, Busy, Written, Progress, Opened, Stored
    <3> QED
      BY <2>1, <3>2, <3>3 DEF RecordInv
  <2> QED
    BY <2>2, <2>3, <2>4, <2>5 DEF Next
<1>3. RecordInv => FinalMeansComplete
  BY DEF RecordInv, Way, Stored, FinalMeansComplete
<1> QED
  BY <1>1, <1>2, <1>3, PTL DEF Spec

(***************************************************************************)
(* A kiosk shows what the record holds.                                    *)
(***************************************************************************)

\* Whatever is stored, sent, read or copied has a place, and what may create a row sends one.
Placed(r) == r.id # 0 => r.place # "none"
Carries(r) ==
    /\ Placed(r.seen)
    /\ r.body.place # "none"
    /\ r.kind = "POST" => r.body.place # "keep"

PlaceInv ==
    /\ \A c \in Calls : Placed(row[c])
    /\ \A t \in Threads : Carries(req[t])
    /\ desk = NoCopy \/ desk.place # "none"

\* A call the property is about.
Plain(c) == c \notin contended \cup crossed /\ Complete(c)

\* A call whose latest event was not lost is shown where the record has it.
InStep(c) == c \notin unsent /\ row[c] # NoRow => shown[c] = row[c].place

\* How far the one request of a call is: what it has read is what is stored, what it commits
\* it publishes, and a kiosk that is sent an update has the call on its screen, unless an event
\* of the call was lost.
Turn(c, t) ==
    LET r == req[t]
        reaches == c \in unsent \/ r.kind = "INSERT" \/ shown[c] # "none"
    IN  /\ r.st \in {"read", "write"} => InStep(c)
        /\ r.st = "write" => r.seen = row[c]
        /\ r.st = "refresh" => r.kind # "DELETE" /\ row[c].id # 0 /\ row[c].id = r.seen.id /\ reaches
        /\ r.st = "publish" => IF r.kind = "DELETE" THEN row[c] = NoRow ELSE r.seen = row[c] /\ reaches

\* The worker's own INSERT will show, or shows, what its request leaves stored.
Broadcasts == pc \in {"wait1", "publish1"} \/ (pc \in {"wait2", "publish2"} /\ form = "single")
Announced == IF pc \in Phase1Steps THEN "chunk" ELSE "full"
Agrees(c) == row[c] # NoRow => row[c].place = Announced
Announces(c) ==
    IF awaited = NoThread
    THEN Agrees(c)
    ELSE /\ Busy(awaited) => req[awaited].body.place = Announced
         /\ req[awaited].st \in {"refresh", "publish", "ok", "error"} => Agrees(c)

Alone(c) == \A t, u \in Handled(c) : t = u
Mirror(c) ==
    /\ Alone(c)
    /\ Handled(c) = {} => InStep(c)
    /\ \A t \in Handled(c) : Turn(c, t)
    /\ c = call /\ pc \in {"wait1", "wait2", "publish1", "publish2"} => Handled(c) \subseteq {awaited}
    /\ c = call /\ Broadcasts => Announces(c)

ShownInv == EraseInv /\ PlaceInv /\ \A c \in Calls : Plain(c) => Mirror(c)

\* Where a write puts the call.
LEMMA MergePlaces ==
    ASSUME NEW now \in Rows, NEW seen \in Rows, NEW b \in Bodies
    PROVE  /\ now.place # "none" /\ seen.place # "none" /\ b.place # "none" =>
                Merge(now, seen, b).place # "none"
           /\ now = seen /\ b.place # "keep" => Merge(now, seen, b).place = b.place
<1> DEFINE target == IF Settle(b, seen) = Target(seen) THEN Target(now) ELSE Settle(b, seen)
<1>1. Settle(b, seen) \in [place : Places, test : Flags]
  BY WriteTypes
<1>2. Settle(b, seen).place = IF b.place = "keep" THEN seen.place ELSE b.place
  BY DEF Settle, Target
<1>3. target.place \in {now.place, Settle(b, seen).place} /\ (now = seen => target = Settle(b, seen))
  BY DEF Target
<1>4. Merge(now, seen, b) = [now EXCEPT !.place = target.place, !.test = target.test,
                                       !.audio = @ \/ b.audio, !.reviewed = @ \/ b.review]
  BY DEF Merge
<1> HIDE DEF target
<1>5. Merge(now, seen, b).place = target.place
  BY <1>4 DEF Rows
<1> QED
  BY <1>2, <1>3, <1>5

LEMMA BlankPlaces == Placed(NoRow) /\ Carries(Free)
  BY DEF Placed, Carries, Free, NoBody, NoRow

\* A request that arrives reads nothing before its thread does.
LEMMA ArrivesCarries ==
    ASSUME EraseInv, PlaceInv, NEW t \in Threads, NEW from, NEW kind, NEW c, NEW body,
           Arrives(t, from, kind, c, body),
           body.place # "none", kind = "POST" => body.place # "keep"
    PROVE  \A u \in Threads : Carries(req'[u])
<1> DEFINE r == [st |-> "read", from |-> from, kind |-> kind, call |-> c, body |-> body, seen |-> NoRow]
<1>1. Carries(r)
  BY BlankPlaces DEF Carries
<1>2. req' = [req EXCEPT ![t] = r]
  BY DEF Arrives
<1> HIDE DEF r
<1> QED
  BY <1>1, <1>2 DEF EraseInv, Type, GatewayType, PlaceInv

LEMMA GatewayStepPlaces ==
    ASSUME EraseInv, PlaceInv, Gateway
    PROVE  PlaceInv'
<1>a. /\ row \in [Calls -> Rows] /\ req \in [Threads -> Requests] /\ serial \in Nat
      /\ \A t \in Threads : req[t] \in Requests /\ (req[t].st # "free" => req[t].call \in Calls)
      /\ \A t \in Threads : Carries(req[t])
      /\ \A c \in Calls : Placed(row[c])
  BY DEF EraseInv, Type, GatewayType, PlaceInv
<1>c. ASSUME NEW t \in Threads, NEW st \in {"ok", "error"} PROVE Carries(Answered(t, st))
  BY <1>a, AnsweredFacts, BlankPlaces DEF Carries, NoBody
<1>b. ASSUME NEW t \in Threads, NEW r, req' = [req EXCEPT ![t] = r], Carries(r), desk' = desk,
             NEW d \in Calls, NEW new, Placed(new), row' = row \/ row' = [row EXCEPT ![d] = new]
      PROVE  PlaceInv'
  BY <1>a, <1>b DEF PlaceInv
<1>1. ASSUME NEW t \in Threads, ReadRecord(t) PROVE PlaceInv'
  <2>1. Placed(row[req[t].call]) /\ req[t] \in Requests /\ req[t].call \in Calls
    BY <1>1, <1>a DEF ReadRecord
  <2> DEFINE r == IF row[req[t].call] = NoRow /\ req[t].kind # "POST"
                  THEN Answered(t, "error")
                  ELSE [req[t] EXCEPT !.seen = row[req[t].call], !.st = "write"]
  <2>2. \/ r = Answered(t, "error")
        \/ r.seen = row[req[t].call] /\ r.body = req[t].body /\ r.kind = req[t].kind
    BY <2>1 DEF Requests
  <2>3. req' = [req EXCEPT ![t] = r] /\ UNCHANGED <<row, desk>>
    BY <1>1, <1>a DEF ReadRecord
  <2> HIDE DEF r
  <2>4. Carries(r)
    BY <1>a, <1>c, <2>1, <2>2 DEF Carries
  <2> QED
    BY <1>b, <2>1, <2>3, <2>4
<1>2. ASSUME NEW t \in Threads, CommitInsert(t) PROVE PlaceInv'
  <2>1. req[t] \in Requests /\ req[t].body \in Bodies /\ req[t].call \in Calls /\ Carries(req[t])
        /\ req[t].kind = "POST"
    BY <1>2, <1>a DEF CommitInsert, Requests
  <2> DEFINE made == Created(serial + 1, req[t].body)
  <2>2. Placed(made)
    BY <2>1 DEF Carries, Placed, Created
  <2> HIDE DEF made
  <2> DEFINE r == IF row[req[t].call] = NoRow
                  THEN [req[t] EXCEPT !.kind = "INSERT", !.st = "refresh", !.seen = made]
                  ELSE Answered(t, "error")
  <2>3. \/ r = Answered(t, "error")
        \/ r.seen = made /\ r.body = req[t].body /\ r.kind = "INSERT"
    BY <2>1 DEF Requests
  <2>4. /\ req' = [req EXCEPT ![t] = r] /\ desk' = desk
        /\ row' = row \/ row' = [row EXCEPT ![req[t].call] = made]
    BY <1>2, <1>a DEF CommitInsert, made
  <2> HIDE DEF r
  <2>5. Carries(r)
    BY <1>c, <2>1, <2>2, <2>3 DEF Carries
  <2> QED
    BY <1>b, <2>1, <2>2, <2>4, <2>5
<1>3. ASSUME NEW t \in Threads, CommitUpdate(t) PROVE PlaceInv'
  <2>1. /\ req[t] \in Requests /\ req[t].body \in Bodies /\ req[t].call \in Calls /\ Carries(req[t])
        /\ row[req[t].call] \in Rows /\ req[t].seen \in Rows
        /\ req[t].seen.id # 0 /\ Placed(row[req[t].call])
    BY <1>3, <1>a DEF CommitUpdate, Requests, EraseInv, FlagsInv, Sends, Says
  <2> DEFINE r == IF row[req[t].call].id = req[t].seen.id
                  THEN [req[t] EXCEPT !.st = "refresh"]
                  ELSE Answered(t, "error")
  <2>2. \/ r = Answered(t, "error")
        \/ r.seen = req[t].seen /\ r.body = req[t].body /\ r.kind = req[t].kind
    BY <2>1 DEF Requests
  <2>3. req' = [req EXCEPT ![t] = r] /\ desk' = desk
    BY <1>3, <1>a DEF CommitUpdate
  <2> HIDE DEF r
  <2>4. Carries(r)
    BY <1>c, <2>1, <2>2 DEF Carries
  <2> DEFINE merged == Merge(row[req[t].call], req[t].seen, req[t].body)
  <2>5. CASE row[req[t].call].id = req[t].seen.id
    <3>1. Placed(merged)
      <4>1. row[req[t].call].place # "none" /\ req[t].seen.place # "none" /\ req[t].body.place # "none"
        BY <2>1, <2>5 DEF Carries, Placed
      <4>2. merged.place # "none"
        BY <2>1, <4>1, MergePlaces
      <4> QED
        BY <4>2 DEF Placed
    <3>2. row' = [row EXCEPT ![req[t].call] = merged]
      BY <1>3, <2>5 DEF CommitUpdate
    <3> HIDE DEF merged
    <3> QED
      BY <1>b, <2>1, <2>3, <2>4, <3>1, <3>2
  <2>6. CASE row[req[t].call].id # req[t].seen.id
    <3>1. row' = row
      BY <1>3, <2>6 DEF CommitUpdate
    <3> QED
      BY <1>b, <2>1, <2>3, <2>4, <3>1
  <2> QED
    BY <2>5, <2>6
<1>4. ASSUME NEW t \in Threads, CommitDelete(t) \/ PublishEvent(t) \/ EventLost(t) PROVE PlaceInv'
  <2>1. req[t] \in Requests /\ req[t].call \in Calls /\ Carries(req[t])
    BY <1>4, <1>a DEF CommitDelete, PublishEvent, EventLost
  <2> DEFINE r == IF req[t].st = "write" THEN [req[t] EXCEPT !.st = "publish"] ELSE Answered(t, "ok")
  <2>2. \/ r = Answered(t, "ok")
        \/ r.seen = req[t].seen /\ r.body = req[t].body /\ r.kind = req[t].kind
    BY <2>1 DEF Requests
  <2>3. req' = [req EXCEPT ![t] = r] /\ desk' = desk
    BY <1>4, <1>a DEF CommitDelete, PublishEvent, EventLost
  <2> HIDE DEF r
  <2>4. Carries(r)
    BY <1>c, <2>1, <2>2 DEF Carries
  <2>5. row' = row \/ row' = [row EXCEPT ![req[t].call] = NoRow]
    BY <1>4 DEF CommitDelete, PublishEvent, EventLost
  <2> QED
    BY <1>b, <2>1, <2>3, <2>4, <2>5, BlankPlaces
<1>5. ASSUME NEW t \in Threads, RefreshRecord(t) PROVE PlaceInv'
  <2>1. req[t] \in Requests /\ Carries(req[t]) /\ req[t].call \in Calls /\ Placed(row[req[t].call])
    BY <1>5, <1>a DEF RefreshRecord
  <2> DEFINE r == IF row[req[t].call].id = req[t].seen.id
                  THEN [req[t] EXCEPT !.st = "publish", !.seen = row[req[t].call]]
                  ELSE Answered(t, "error")
  <2>2. \/ r = Answered(t, "error")
        \/ r.seen = row[req[t].call] /\ r.body = req[t].body /\ r.kind = req[t].kind
    BY <2>1 DEF Requests
  <2>3. req' = [req EXCEPT ![t] = r] /\ UNCHANGED <<row, desk>>
    BY <1>5, <1>a DEF RefreshRecord, Reread
  <2> HIDE DEF r
  <2>4. Carries(r)
    BY <1>c, <2>1, <2>2 DEF Carries
  <2> QED
    BY <1>b, <2>1, <2>3, <2>4
<1>6. ASSUME NEW t \in Threads, AnswerRead(t) PROVE PlaceInv'
  <2>1. req[t].call \in Calls
    BY <1>6, <1>a DEF AnswerRead
  <2> QED
    BY <1>6, <1>b, <2>1, BlankPlaces DEF AnswerRead
<1> QED
  BY <1>1, <1>2, <1>3, <1>4, <1>5, <1>6 DEF Gateway

LEMMA PlaceStep ==
    ASSUME EraseInv, PlaceInv, [Next]_vars
    PROVE  PlaceInv'
<1>a. TaskType /\ GatewayType /\ PlaceInv
  BY DEF EraseInv, Type
<1>1. ASSUME UNCHANGED <<row, desk>>, \A u \in Threads : Carries(req'[u]) PROVE PlaceInv'
  BY <1>1, <1>a DEF PlaceInv
<1>2. ASSUME NEW t \in Threads, SendRequest(t) PROVE PlaceInv'
  <2>1. Payload.place # "none" /\ (Method = "POST" => Payload.place # "keep")
    BY <1>2 DEF SendRequest, Saving, Method, Payload
  <2>2. Arrives(t, "worker", Method, call, Payload) /\ UNCHANGED <<row, desk>>
    BY <1>2 DEF SendRequest
  <2>3. \A u \in Threads : Carries(req'[u])
    BY <2>1, <2>2, ArrivesCarries
  <2> QED
    BY <1>1, <2>2, <2>3
\* What the worker does to a request it waited for leaves its contents alone.
<1>3. ASSUME AnswerArrives \/ RequestTimesOut \/ WorkerCrashes PROVE PlaceInv'
  <2>1. UNCHANGED <<row, desk>>
    BY <1>3 DEF AnswerArrives, RequestTimesOut, WorkerCrashes
  <2>2. \/ req' = req
        \/ awaited \in Threads /\ req' = [req EXCEPT ![awaited] = Free]
        \/ awaited \in Threads /\ req' = [req EXCEPT ![awaited] = [req[awaited] EXCEPT !.from = "nobody"]]
    BY <1>3, <1>a DEF AnswerArrives, RequestTimesOut, WorkerCrashes, MayTimeOut, Waiting, TaskType, GatewayType
  <2>3. ASSUME awaited \in Threads PROVE Carries([req[awaited] EXCEPT !.from = "nobody"])
    BY <2>3, <1>a DEF GatewayType, Requests, PlaceInv, Carries
  <2>4. \A u \in Threads : Carries(req'[u])
    BY <1>a, <2>2, <2>3, BlankPlaces DEF GatewayType, PlaceInv
  <2> QED
    BY <1>1, <2>1, <2>4
<1>4. ASSUME Worker, ~(\E t \in Threads : SendRequest(t)), ~AnswerArrives, ~RequestTimesOut
      PROVE UNCHANGED <<row, desk, req>>
  BY <1>4 DEF Worker, gateway, CheckPhase1, CheckPhase1Blind, StartPhase2, Phase1NotYet, Phase1Complete,
     RecordPhase1, RecordPhase1Fails, RequestFails, PublishPhase1, PublishPhase2, PublishFails,
     PushPhase1, PushPhase2, PushFails, ReadSession, ReadSessionFails, FinishListening, Phase2Raises,
     CleanUp, CleanUpFails
<1>5. ASSUME NEW c \in Calls, SessionAges(c) \/ Phase2Lost(c) PROVE UNCHANGED <<row, desk, req>>
  BY <1>5 DEF SessionAges, Phase2Lost, gateway
<1>6. ASSUME NEW c \in Calls, OperatorLoads(c) PROVE PlaceInv'
  <2>1. row[c].place # "none" /\ UNCHANGED <<row, req>> /\ desk'.place = row[c].place
    BY <1>6, <1>a DEF OperatorLoads, PlaceInv, Placed, EraseInv, FlagsInv, Says
  <2> QED
    BY <1>a, <2>1 DEF PlaceInv
<1>7. ASSUME NEW t \in Threads, OperatorSaves(t) \/ OperatorDeletes(t) PROVE PlaceInv'
  <2> DEFINE review == [place |-> desk.place, test |-> desk.test, flag |-> "absent",
                        audio |-> FALSE, review |-> TRUE]
  <2>1. review.place # "none" /\ NoBody.place # "none"
    BY <1>7, <1>a DEF OperatorSaves, OperatorDeletes, PlaceInv, NoBody
  <2>2. \/ Arrives(t, "operator", "PATCH", desk.call, review)
        \/ Arrives(t, "operator", "DELETE", desk.call, NoBody)
    BY <1>7 DEF OperatorSaves, OperatorDeletes
  <2> HIDE DEF review
  <2>3. \A u \in Threads : Carries(req'[u])
    BY <2>1, <2>2, ArrivesCarries
  <2>4. row' = row /\ desk' = NoCopy
    BY <1>7 DEF OperatorSaves, OperatorDeletes
  <2> QED
    BY <1>a, <2>3, <2>4 DEF PlaceInv
<1>8. UNCHANGED <<row, desk, req>> => PlaceInv'
  BY <1>a DEF PlaceInv
<1>9. CASE Worker
  BY <1>2, <1>3, <1>4, <1>8, <1>9
<1>10. CASE Gateway
  BY <1>10, GatewayStepPlaces
<1>11. CASE Operator
  BY <1>6, <1>7, <1>11 DEF Operator
<1>12. CASE Surroundings
  BY <1>3, <1>5, <1>8, <1>12 DEF Surroundings
<1>13. CASE UNCHANGED vars
  BY <1>8, <1>13 DEF vars, gateway
<1> QED
  BY <1>9, <1>10, <1>11, <1>12, <1>13 DEF Next

LEMMA ShownFacts ==
    ASSUME ShownInv
    PROVE  /\ TaskType /\ LocalType /\ GatewayType /\ PlaceInv
           /\ \A c \in Calls : /\ row[c] \in Rows
                               /\ row[c] = NoRow <=> row[c].id = 0
                               /\ row[c] # NoRow => row[c].place # "none"
                               /\ c # NoCall
           /\ \A t \in Threads : /\ req[t] \in Requests
                                 /\ req[t].seen = NoRow <=> req[t].seen.id = 0
                                 /\ req[t].st # "free" => req[t].call \in Calls
                                 /\ t # NoThread
<1>1. NoRow.id = 0
  BY DEF NoRow
<1> QED
  BY <1>1, BasicTypes
  DEF ShownInv, EraseInv, Type, GatewayType, FlagsInv, Says, Sends, PlaceInv, Placed

\* Where the worker is on a call decides what it will broadcast.
OnScreen(c) ==
    /\ c = call /\ pc \in {"wait1", "wait2", "publish1", "publish2"} => Handled(c) \subseteq {awaited}
    /\ c = call /\ Broadcasts => Announces(c)

\* A step that shows a kiosk nothing about a call, and loses nothing about it.
SameScreen(c) == shown'[c] = shown[c] /\ (c \in unsent' <=> c \in unsent)

\* A step that leaves a call's row, screen and requests alone.
LEMMA MirrorApart ==
    ASSUME NEW c, Mirror(c), row'[c] = row[c], SameScreen(c),
           Handled(c)' = Handled(c),
           \A t \in Handled(c) : /\ req'[t].st = req[t].st /\ req'[t].kind = req[t].kind
                                 /\ req'[t].seen = req[t].seen,
           OnScreen(c)'
    PROVE  Mirror(c)'
<1>1. InStep(c)' = InStep(c)
  BY DEF InStep, SameScreen
<1>2. \A t \in Handled(c) : Turn(c, t) => Turn(c, t)'
  BY <1>1 DEF Turn, SameScreen
<1> QED
  BY <1>1, <1>2 DEF Mirror, Alone, OnScreen

\* The one request of a call goes on, or is done.
LEMMA MirrorOwn ==
    ASSUME ShownInv, UNCHANGED Local, NEW t \in Threads, NEW r \in Requests, Busy(t),
           NEW c \in Calls, c = req[t].call, Mirror(c),
           req' = [req EXCEPT ![t] = r], r.call = c,
           r.st \in {"ok", "error"} \/ r.body = req[t].body,
           r.st # "read", r.st # "free",
           r.st \in {"write", "refresh", "publish"} => Turn(c, t)',
           r.st \in {"ok", "error"} => InStep(c)',
           t = awaited /\ Broadcasts /\ r.st \in {"refresh", "publish", "ok", "error"} =>
              Agrees(c)'
    PROVE  Mirror(c)'
<1>a. /\ TaskType /\ t # NoThread /\ req \in [Threads -> Requests]
      /\ req[t] \in Requests
  BY ShownFacts DEF Busy, GatewayType
<1>b. UNCHANGED <<pc, call, awaited, form>>
  BY DEF Local, task
<1>1. t \in Handled(c) /\ Handled(c) \subseteq {t}
  BY DEF Handled, Mirror, Alone
<1>2. Handled(c)' \subseteq {t} /\ (Handled(c)' = {} => r.st \in {"ok", "error"})
  <2>1. \A u \in Threads : req'[u] = IF u = t THEN r ELSE req[u]
    BY <1>a
  <2>2. r.st \in {"write", "refresh", "publish", "ok", "error"}
    BY DEF Requests
  <2>3. r.st \in {"ok", "error"} \/ t \in Handled(c)'
    BY <2>1, <2>2 DEF Handled, Busy
  <2> QED
    BY <1>1, <2>1, <2>3 DEF Handled, Busy
<1>3. \A u \in Handled(c)' : Turn(c, u)'
  <2>1. ASSUME t \in Handled(c)' PROVE r.st \in {"write", "refresh", "publish"}
    BY <1>a, <2>1 DEF Handled, Busy
  <2> QED
    BY <1>2, <2>1
<1>4. (Handled(c) = {} => InStep(c))'
  BY <1>2
<1>5. c = call /\ pc \in {"wait1", "wait2", "publish1", "publish2"} => t = awaited
  BY <1>1 DEF Mirror
<1>6. OnScreen(c)'
  <2>1. ASSUME c = call, Broadcasts PROVE Announces(c)'
    <3>1. t = awaited /\ Announces(c)
      BY <1>5, <2>1 DEF Mirror, Broadcasts
    <3>2. req'[t] = r /\ (r.st \notin {"ok", "error"} => r.body.place = Announced)
      BY <1>a, <3>1 DEF Announces
    <3>3. Announced' = Announced
      BY <1>b DEF Announced
    <3> QED
      BY <1>a, <1>b, <2>1, <3>1, <3>2, <3>3 DEF Announces, Busy
  <2>2. Broadcasts' = Broadcasts
    BY <1>b DEF Broadcasts
  <2> QED
    BY <1>2, <1>5, <1>b, <2>1, <2>2 DEF OnScreen
<1>7. Alone(c)'
  BY <1>2 DEF Alone
<1> QED
  BY <1>3, <1>4, <1>6, <1>7 DEF Mirror, OnScreen

\* A step of a thread leaves the other calls alone.
LEMMA MirrorOthers ==
    ASSUME ShownInv, UNCHANGED Local, NEW t \in Threads, NEW r \in Requests,
           req[t].st # "free", req' = [req EXCEPT ![t] = r],
           \/ r.call = req[t].call
           \/ r = Free /\ req[t].from # "worker" /\ ~Busy(t),
           \A d \in Calls \ {req[t].call} : row'[d] = row[d] /\ SameScreen(d),
           NEW c \in Calls, Mirror(c), c # req[t].call
    PROVE  Mirror(c)'
<1>a. /\ TaskType /\ t # NoThread /\ req \in [Threads -> Requests]
      /\ req[t] \in Requests /\ c # NoCall
  BY ShownFacts DEF GatewayType
<1>b. UNCHANGED <<pc, call, awaited, form>>
  BY DEF Local, task
<1>1. \A u \in Threads : req'[u] = IF u = t THEN r ELSE req[u]
  BY <1>a
<1>2. r.call # c
  BY <1>a DEF Free
<1>3. Handled(c)' = Handled(c) /\ t \notin Handled(c)
  BY <1>1, <1>2 DEF Handled, Busy
<1>4. c = call => awaited # t
  BY <1>a DEF TaskType
<1>5. c = call /\ Broadcasts => (awaited = NoThread \/ req'[awaited] = req[awaited])
  BY <1>1, <1>4 DEF TaskType, Broadcasts
<1>6. OnScreen(c)'
  <2>1. Broadcasts' = Broadcasts /\ Announced' = Announced /\ Agrees(c)' = Agrees(c)
    BY <1>b DEF Broadcasts, Announced, Agrees
  <2>2. c = call /\ Broadcasts => Announces(c)'
    BY <1>b, <1>5, <2>1 DEF Announces, Mirror, Busy
  <2> QED
    BY <1>b, <1>3, <2>1, <2>2 DEF OnScreen, Mirror
<1> QED
  BY <1>1, <1>3, <1>6, MirrorApart

LEMMA GatewayMirror ==
    ASSUME ShownInv, Gateway, NEW c \in Calls, Mirror(c)
    PROVE  Mirror(c)'
<1>a. /\ TaskType /\ GatewayType /\ PlaceInv
      /\ \A d \in Calls : row[d] \in Rows /\ d # NoCall /\ (row[d] # NoRow => row[d].place # "none")
      /\ \A d \in Calls : row[d] = NoRow <=> row[d].id = 0
      /\ \A t \in Threads : req[t] \in Requests /\ (req[t].st # "free" => req[t].call \in Calls)
      /\ \A t \in Threads : req[t].seen = NoRow <=> req[t].seen.id = 0
      /\ row \in [Calls -> Rows] /\ req \in [Threads -> Requests] /\ serial \in Nat
      /\ shown \in [Calls -> Places]
      /\ NoRow.id = 0 /\ Free \in Requests
  BY ShownFacts, BasicTypes DEF GatewayType, NoRow
<1>b. UNCHANGED Local
  BY GatewayStepType DEF ShownInv, EraseInv
<1>c. UNCHANGED <<pc, call, awaited, form>> /\ Announced' = Announced
  BY <1>b DEF Local, task, Announced
\* What the worker's broadcast will show is what its request asks for.
<1>d. ASSUME NEW t \in Threads, Mirror(req[t].call), Busy(t), t = awaited, Broadcasts
      PROVE  req[t].body.place = Announced /\ t # NoThread /\
             (req[t].st \in {"refresh", "publish"} => Agrees(req[t].call))
  <2>1. req[t].call = call /\ t # NoThread
    BY <1>a, <1>d, BasicTypes DEF TaskType
  <2> QED
    BY <1>d, <2>1 DEF Mirror, Announces
<1>e. \A d : row'[d] = row[d] => Agrees(d)' = Agrees(d)
  BY <1>c DEF Agrees
<1>1. ASSUME NEW t \in Threads, ReadRecord(t) PROVE Mirror(c)'
  <2>1. /\ req[t].st = "read" /\ req[t].call \in Calls /\ row[req[t].call] \in Rows /\ Busy(t)
        /\ UNCHANGED <<row, shown, unsent>>
    BY <1>1, <1>a DEF ReadRecord, Busy
  <2> DEFINE r == IF row[req[t].call] = NoRow /\ req[t].kind # "POST"
                  THEN Answered(t, "error")
                  ELSE [req[t] EXCEPT !.seen = row[req[t].call], !.st = "write"]
  <2>2. /\ r \in Requests /\ r.call = req[t].call /\ r.seen = row[req[t].call]
        /\ IF row[req[t].call] = NoRow /\ req[t].kind # "POST"
           THEN r.st = "error"
           ELSE r.st = "write" /\ r.body = req[t].body
    <3>1. CASE row[req[t].call] = NoRow /\ req[t].kind # "POST"
      BY <1>a, <2>1, <3>1, AnsweredFacts
    <3>2. CASE ~(row[req[t].call] = NoRow /\ req[t].kind # "POST")
      BY <1>a, <2>1, <3>2 DEF Requests
    <3> QED
      BY <3>1, <3>2
  <2>3. req' = [req EXCEPT ![t] = r] /\ req'[t] = r
    BY <1>1, <1>a DEF ReadRecord
  <2> HIDE DEF r
  <2>4. CASE c = req[t].call
    <3>1. InStep(c)' /\ InStep(c)
      BY <2>1, <2>4 DEF Mirror, Turn, Handled, InStep
    <3>2. r.st = "write" => Turn(c, t)'
      BY <2>1, <2>2, <2>3, <2>4, <3>1 DEF Turn
    <3>3. r.st = "error" => Agrees(c)'
      BY <2>1, <2>2, <2>4 DEF Agrees
    <3> QED
      BY <1>b, <2>1, <2>2, <2>3, <2>4, <3>1, <3>2, <3>3, MirrorOwn
  <2>5. CASE c # req[t].call
    BY <1>b, <2>1, <2>2, <2>3, <2>5, MirrorOthers DEF SameScreen
  <2> QED
    BY <2>4, <2>5
<1>2. ASSUME NEW t \in Threads, CommitInsert(t) PROVE Mirror(c)'
  <2>1. /\ req[t].st = "write" /\ req[t].kind = "POST" /\ req[t].call \in Calls /\ req[t].seen = NoRow
        /\ req[t].body \in Bodies /\ Busy(t) /\ UNCHANGED <<shown, unsent>>
    BY <1>2, <1>a DEF CommitInsert, Requests, Busy
  <2> DEFINE made == Created(serial + 1, req[t].body)
  <2>2. made \in Rows /\ made.id # 0 /\ made.place = req[t].body.place
    <3>1. req[t].body.place # "keep"
      BY <1>a, <2>1 DEF PlaceInv, Carries
    <3>2. made \in Rows /\ made.id = serial + 1
      <4>1. serial + 1 \in Nat /\ req[t].body \in Bodies
        BY <1>a, <2>1
      <4> QED
        BY <4>1, WriteTypes
    <3>3. made.place = req[t].body.place
      BY <3>1 DEF Created
    <3> QED
      BY <1>a, <3>2, <3>3
  <2> HIDE DEF made
  <2> DEFINE r == IF row[req[t].call] = NoRow
                  THEN [req[t] EXCEPT !.kind = "INSERT", !.st = "refresh", !.seen = made]
                  ELSE Answered(t, "error")
  <2>3. /\ r \in Requests /\ r.call = req[t].call
        /\ row[req[t].call] = NoRow => /\ r.kind = "INSERT" /\ r.st = "refresh" /\ r.seen = made
                                       /\ r.body = req[t].body
        /\ row[req[t].call] # NoRow => r.st = "error"
    <3>1. CASE row[req[t].call] = NoRow
      BY <1>a, <2>2, <3>1 DEF Requests
    <3>2. CASE row[req[t].call] # NoRow
      BY <1>a, <3>2, AnsweredFacts
    <3> QED
      BY <3>1, <3>2
  <2>4. /\ req' = [req EXCEPT ![t] = r]
        /\ row' = IF row[req[t].call] = NoRow THEN [row EXCEPT ![req[t].call] = made] ELSE row
    BY <1>2, <1>a DEF CommitInsert, made
  <2>5. req'[t] = r
    BY <1>a, <2>4
  <2> HIDE DEF r
  <2>6. CASE c = req[t].call
    <3>1. row[c] = NoRow
      BY <2>1, <2>6 DEF Mirror, Turn, Handled
    <3>2. row'[c] = made /\ r.st = "refresh"
      BY <1>a, <2>1, <2>3, <2>4, <2>6, <3>1
    <3>3. Turn(c, t)'
      BY <2>2, <2>3, <2>5, <2>6, <3>1, <3>2 DEF Turn
    <3>4. t = awaited /\ Broadcasts => Agrees(c)'
      BY <1>c, <1>d, <2>1, <2>2, <2>6, <3>2 DEF Agrees
    <3> QED
      BY <1>b, <2>1, <2>3, <2>4, <2>6, <3>2, <3>3, <3>4, MirrorOwn
  <2>7. CASE c # req[t].call
    <3>1. \A d \in Calls \ {req[t].call} : row'[d] = row[d] /\ SameScreen(d)
      BY <1>a, <2>1, <2>4 DEF SameScreen
    <3> QED
      BY <1>b, <2>1, <2>3, <2>4, <2>7, <3>1, MirrorOthers DEF SameScreen
  <2> QED
    BY <2>6, <2>7
<1>3. ASSUME NEW t \in Threads, CommitUpdate(t) PROVE Mirror(c)'
  <2>1. /\ req[t].st = "write" /\ req[t].call \in Calls /\ req[t].seen # NoRow /\ req[t].seen.id # 0
        /\ req[t].kind \in {"POST", "PATCH"} /\ UNCHANGED <<shown, unsent>>
        /\ req[t].body \in Bodies /\ req[t].seen \in Rows /\ row[req[t].call] \in Rows /\ Busy(t)
    BY <1>3, <1>a DEF CommitUpdate, Requests, Busy
  <2> DEFINE merged == Merge(row[req[t].call], req[t].seen, req[t].body)
  <2>2. merged.id = row[req[t].call].id
    <3>1. row[req[t].call] \in Rows /\ req[t].seen \in Rows /\ req[t].body \in Bodies
      BY <2>1
    <3> QED
      BY <3>1, WriteTypes
  <2>3. row[req[t].call] = req[t].seen /\ req[t].body.place # "keep" => merged.place = req[t].body.place
    BY <2>1, MergePlaces
  <2> DEFINE r == IF row[req[t].call].id = req[t].seen.id
                  THEN [req[t] EXCEPT !.st = "refresh"]
                  ELSE Answered(t, "error")
  <2>4. /\ r \in Requests /\ r.call = req[t].call
        /\ IF row[req[t].call].id = req[t].seen.id
           THEN r.st = "refresh" /\ r.kind = req[t].kind /\ r.body = req[t].body /\ r.seen = req[t].seen
           ELSE r.st = "error"
    BY <1>a, AnsweredFacts DEF Requests
  <2>5. /\ req' = [req EXCEPT ![t] = r]
        /\ row' = IF row[req[t].call].id = req[t].seen.id THEN [row EXCEPT ![req[t].call] = merged] ELSE row
    BY <1>3, <1>a DEF CommitUpdate
  <2>6. req'[t] = r
    BY <1>a, <2>5
  <2> HIDE DEF r, merged
  <2>7. CASE c = req[t].call
    <3>1. req[t].seen = row[c] /\ InStep(c)
      BY <2>1, <2>7 DEF Mirror, Turn, Handled
    <3>2. row'[c] = merged /\ r.st = "refresh" /\ merged.id # 0 /\ merged.id = r.seen.id
      BY <1>a, <2>1, <2>2, <2>4, <2>5, <2>7, <3>1
    <3>3. c \in unsent' \/ shown'[c] # "none"
      BY <1>a, <2>1, <2>7, <3>1 DEF InStep
    <3>4. Turn(c, t)'
      BY <2>1, <2>4, <2>6, <2>7, <3>2, <3>3 DEF Turn
    <3>5. t = awaited /\ Broadcasts => Agrees(c)'
      <4>1. Announced # "keep"
        BY DEF Announced
      <4> QED
        BY <1>c, <1>d, <2>1, <2>3, <2>7, <3>1, <3>2, <4>1 DEF Agrees
    <3> QED
      BY <1>b, <2>1, <2>4, <2>5, <2>7, <3>2, <3>4, <3>5, MirrorOwn
  <2>8. CASE c # req[t].call
    <3>1. \A d \in Calls \ {req[t].call} : row'[d] = row[d] /\ SameScreen(d)
      BY <1>a, <2>1, <2>5 DEF SameScreen
    <3> QED
      BY <1>b, <2>1, <2>4, <2>5, <2>8, <3>1, MirrorOthers DEF SameScreen
  <2> QED
    BY <2>7, <2>8
<1>4. ASSUME NEW t \in Threads, CommitDelete(t) PROVE Mirror(c)'
  <2>1. req[t].st = "write" /\ req[t].call \in Calls /\ req[t].kind = "DELETE" /\ Busy(t) /\ UNCHANGED <<shown, unsent>>
    BY <1>4, <1>a DEF CommitDelete, Busy
  <2> DEFINE r == [req[t] EXCEPT !.st = "publish"]
  <2>2. /\ r \in Requests /\ r.call = req[t].call /\ r.body = req[t].body /\ r.kind = "DELETE"
        /\ r.st = "publish"
    BY <1>a, <2>1 DEF Requests
  <2>3. /\ req' = [req EXCEPT ![t] = r] /\ req'[t] = r
        /\ row' = IF row[req[t].call].id = req[t].seen.id THEN [row EXCEPT ![req[t].call] = NoRow] ELSE row
    BY <1>4, <1>a DEF CommitDelete
  <2> HIDE DEF r
  <2>4. CASE c = req[t].call
    <3>1. req[t].seen = row[c]
      BY <2>1, <2>4 DEF Mirror, Turn, Handled
    <3>2. row'[c] = NoRow
      BY <1>a, <2>1, <2>3, <2>4, <3>1
    <3>3. Turn(c, t)'
      BY <2>2, <2>3, <3>2 DEF Turn
    <3>4. Agrees(c)'
      BY <3>2 DEF Agrees
    <3> QED
      BY <1>b, <2>1, <2>2, <2>3, <2>4, <3>3, <3>4, MirrorOwn
  <2>5. CASE c # req[t].call
    <3>1. \A d \in Calls \ {req[t].call} : row'[d] = row[d] /\ SameScreen(d)
      BY <1>a, <2>1, <2>3 DEF SameScreen
    <3> QED
      BY <1>b, <2>1, <2>2, <2>3, <2>5, <3>1, MirrorOthers DEF SameScreen
  <2> QED
    BY <2>4, <2>5
<1>5. ASSUME NEW t \in Threads, RefreshRecord(t) PROVE Mirror(c)'
  <2>1. /\ req[t].st = "refresh" /\ req[t].call \in Calls /\ row[req[t].call] \in Rows /\ Busy(t)
        /\ UNCHANGED <<row, shown, unsent>>
    BY <1>5, <1>a DEF RefreshRecord, Busy
  <2> DEFINE r == IF row[req[t].call].id = req[t].seen.id
                  THEN [req[t] EXCEPT !.st = "publish", !.seen = row[req[t].call]]
                  ELSE Answered(t, "error")
  <2>2. /\ r \in Requests /\ r.call = req[t].call
        /\ IF row[req[t].call].id = req[t].seen.id
           THEN r.st = "publish" /\ r.seen = row[req[t].call] /\ r.kind = req[t].kind /\ r.body = req[t].body
           ELSE r.st = "error"
    BY <1>a, <2>1, AnsweredFacts DEF Requests
  <2>3. req' = [req EXCEPT ![t] = r] /\ req'[t] = r
    BY <1>5, <1>a DEF RefreshRecord, Reread
  <2> HIDE DEF r
  <2>4. CASE c = req[t].call
    <3>1. /\ req[t].kind # "DELETE" /\ row[c].id = req[t].seen.id
          /\ c \in unsent \/ req[t].kind = "INSERT" \/ shown[c] # "none"
      BY <2>1, <2>4 DEF Mirror, Turn, Handled
    <3>2. r.st = "publish" /\ Turn(c, t)'
      BY <2>1, <2>2, <2>3, <2>4, <3>1 DEF Turn
    <3>3. t = awaited /\ Broadcasts => Agrees(c)'
      BY <1>d, <1>e, <2>1, <2>4
    <3> QED
      BY <1>b, <2>1, <2>2, <2>3, <2>4, <3>2, <3>3, MirrorOwn
  <2>5. CASE c # req[t].call
    BY <1>b, <2>1, <2>2, <2>3, <2>5, MirrorOthers DEF SameScreen
  <2> QED
    BY <2>4, <2>5
<1>6. ASSUME NEW t \in Threads, PublishEvent(t) \/ EventLost(t) PROVE Mirror(c)'
  <2>1. req[t].st = "publish" /\ req[t].call \in Calls /\ Busy(t) /\ UNCHANGED row
    BY <1>6, <1>a DEF PublishEvent, EventLost, Busy
  <2> DEFINE r == Answered(t, "ok")
  <2>2. r \in Requests /\ r.call = req[t].call /\ r.st = "ok"
    BY <1>a, AnsweredFacts
  <2>3. /\ req' = [req EXCEPT ![t] = r] /\ req'[t] = r
        /\ \/ Lands(t) /\ shown' = [shown EXCEPT ![req[t].call] = req[t].seen.place]
                        /\ unsent' = unsent \ {req[t].call}
           \/ ~Lands(t) /\ UNCHANGED <<shown, unsent>>
           \/ shown' = shown /\ unsent' = unsent \cup {req[t].call}
    BY <1>6, <1>a DEF PublishEvent, EventLost
  <2> HIDE DEF r
  <2>4. CASE c = req[t].call
    <3>1. Turn(c, t)
      BY <2>1, <2>4 DEF Mirror, Handled
    <3>2. InStep(c)'
      BY <1>a, <2>1, <2>3, <2>4, <3>1 DEF Turn, InStep, Lands
    <3>3. t = awaited /\ Broadcasts => Agrees(c)'
      BY <1>d, <1>e, <2>1, <2>4
    <3> QED
      BY <1>b, <2>1, <2>2, <2>3, <2>4, <3>2, <3>3, MirrorOwn
  <2>5. CASE c # req[t].call
    <3>1. \A d \in Calls \ {req[t].call} : row'[d] = row[d] /\ SameScreen(d)
      BY <1>a, <2>1, <2>3 DEF SameScreen
    <3> QED
      BY <1>b, <2>1, <2>2, <2>3, <2>5, <3>1, MirrorOthers DEF SameScreen
  <2> QED
    BY <2>4, <2>5
<1>7. ASSUME NEW t \in Threads, AnswerRead(t) PROVE Mirror(c)'
  <2>1. /\ req[t].st \in {"ok", "error"} /\ req[t].from # "worker" /\ ~Busy(t)
        /\ req' = [req EXCEPT ![t] = Free] /\ UNCHANGED <<row, shown, unsent>>
    BY <1>7 DEF AnswerRead, Busy
  <2>2. CASE c # req[t].call
    BY <1>a, <1>b, <2>1, <2>2, MirrorOthers DEF SameScreen
  <2>3. CASE c = req[t].call
    <3>1. \A u \in Threads : req'[u] = IF u = t THEN Free ELSE req[u]
      BY <1>a, <2>1
    <3>2. Handled(c)' = Handled(c) /\ t \notin Handled(c)
      BY <1>a, <2>1, <3>1 DEF Handled, Busy, Free
    <3>3. awaited # t
      BY <1>a, <2>1, BasicTypes DEF TaskType
    <3>4. OnScreen(c)'
      <4>1. Broadcasts' = Broadcasts /\ Agrees(c)' = Agrees(c)
        BY <1>c, <1>e, <2>1 DEF Broadcasts
      <4>2. awaited # NoThread => req'[awaited] = req[awaited]
        BY <1>a, <3>1, <3>3 DEF TaskType
      <4> QED
        BY <1>c, <3>2, <4>1, <4>2 DEF OnScreen, Mirror, Announces, Busy
    <3> QED
      BY <2>1, <3>1, <3>2, <3>4, MirrorApart DEF SameScreen
  <2> QED
    BY <2>2, <2>3
<1> QED
  BY <1>1, <1>2, <1>3, <1>4, <1>5, <1>6, <1>7 DEF Gateway

\* A request that arrives for a call that has none.
LEMMA MirrorArrives ==
    ASSUME ShownInv, NEW t \in Threads, NEW from, NEW kind, NEW body, NEW d \in Calls,
           Arrives(t, from, kind, d, body), UNCHANGED <<row, shown, unsent>>,
           NEW c \in Calls, Plain(c)', Mirror(c), OnScreen(c)'
    PROVE  Mirror(c)'
<1> DEFINE r == [st |-> "read", from |-> from, kind |-> kind, call |-> d, body |-> body, seen |-> NoRow]
<1>1. req' = [req EXCEPT ![t] = r] /\ req[t].st = "free" /\ r.st = "read" /\ r.call = d
  BY DEF Arrives
<1>2. d = c => Handled(c) = {}
  BY DEF Arrives, Plain
<1> HIDE DEF r
<1>3. \A u \in Threads : req'[u] = IF u = t THEN r ELSE req[u]
  BY <1>1, ShownFacts DEF GatewayType
<1>4. InStep(c)' = InStep(c)
  BY DEF InStep
<1>5. CASE d = c
  <2>1. Handled(c)' = {t} /\ InStep(c)
    BY <1>1, <1>2, <1>3, <1>5 DEF Handled, Busy, Mirror
  <2>2. Turn(c, t)'
    BY <1>1, <1>3, <1>4, <2>1 DEF Turn
  <2> QED
    BY <2>1, <2>2 DEF Mirror, Alone, OnScreen
<1>6. CASE d # c
  <2>1. Handled(c)' = Handled(c) /\ t \notin Handled(c)
    BY <1>1, <1>3, <1>6 DEF Handled, Busy
  <2>2. \A u \in Handled(c) : req'[u] = req[u]
    BY <1>3, <2>1 DEF Handled
  <2> QED
    BY <2>1, <2>2, MirrorApart DEF SameScreen
<1> QED
  BY <1>5, <1>6

\* A step that touches no request, or only the client of one.
LEMMA MirrorQuiet ==
    ASSUME ShownInv, NEW c \in Calls, Mirror(c), row'[c] = row[c], SameScreen(c),
           \/ req' = req
           \/ \E t \in Threads : req' = [req EXCEPT ![t] = [req[t] EXCEPT !.from = "nobody"]],
           OnScreen(c)'
    PROVE  Mirror(c)'
<1>1. \A u \in Threads : /\ req'[u].st = req[u].st /\ req'[u].kind = req[u].kind
                         /\ req'[u].seen = req[u].seen /\ req'[u].call = req[u].call
  <2>1. ASSUME NEW t \in Threads, req' = [req EXCEPT ![t] = [req[t] EXCEPT !.from = "nobody"]],
               NEW u \in Threads
        PROVE  /\ req'[u].st = req[u].st /\ req'[u].kind = req[u].kind
               /\ req'[u].seen = req[u].seen /\ req'[u].call = req[u].call
    <3>1. req[t] \in Requests /\ req \in [Threads -> Requests]
      BY ShownFacts DEF GatewayType
    <3>2. [req[t] EXCEPT !.from = "nobody"].st = req[t].st /\
          [req[t] EXCEPT !.from = "nobody"].kind = req[t].kind /\
          [req[t] EXCEPT !.from = "nobody"].seen = req[t].seen /\
          [req[t] EXCEPT !.from = "nobody"].call = req[t].call
      BY <3>1 DEF Requests
    <3> QED
      BY <2>1, <3>1, <3>2
  <2> QED
    BY <2>1
<1>2. Handled(c)' = Handled(c)
  BY <1>1 DEF Handled, Busy
<1>3. Handled(c) \subseteq Threads
  BY DEF Handled
<1> QED
  BY <1>1, <1>2, <1>3, MirrorApart DEF SameScreen

LEMMA WorkerMirror ==
    ASSUME ShownInv, Worker, NEW c \in Calls, Plain(c)', Mirror(c)
    PROVE  Mirror(c)'
<1>a. TaskType /\ GatewayType /\ c # NoCall
  BY ShownFacts
<1>b. Misses => c # call
  BY DEF Misses, Plain, Complete
<1>0. Phase1Steps \cap {"wait2", "publish2"} = {} /\ {"wait1", "publish1"} \subseteq Phase1Steps
  BY DEF Phase1Steps
\* Steps after which the worker is not about to broadcast what it saved of the call.
<1>c. c = call' /\ pc' \notin {"wait1", "wait2", "publish1", "publish2"}
      => OnScreen(c)'
  BY DEF OnScreen, Broadcasts
<1>d. ASSUME UNCHANGED gateway, pc' \notin {"wait1", "wait2", "publish1", "publish2"} \/ c # call'
      PROVE  Mirror(c)'
  <2>1. OnScreen(c)'
    BY <1>d DEF OnScreen, Broadcasts
  <2> QED
    BY <1>d, <2>1, MirrorQuiet DEF gateway, SameScreen
<1>1. ASSUME NEW d \in Calls, CheckPhase1(d) \/ CheckPhase1Blind(d) \/ StartPhase2(d) PROVE Mirror(c)'
  <2>1. UNCHANGED gateway /\ pc' \in {"idle", "listen1", "read2"}
    BY <1>1 DEF CheckPhase1, CheckPhase1Blind, StartPhase2, NextInLine, task
  <2> QED
    BY <1>d, <2>1
<1>2. ASSUME Phase1NotYet \/ Phase1Complete \/ RecordPhase1 \/ RecordPhase1Fails PROVE Mirror(c)'
  <2>1. UNCHANGED gateway /\ pc' \in {"idle", "record1", "save1"}
    BY <1>2 DEF Phase1NotYet, Phase1Complete, RecordPhase1, RecordPhase1Fails, Idle, Goto
  <2> QED
    BY <1>d, <2>1
<1>3. ASSUME NEW t \in Threads, SendRequest(t) PROVE Mirror(c)'
  <2>1. /\ Arrives(t, "worker", Method, call, Payload) /\ UNCHANGED <<row, shown, unsent, call, form>>
        /\ awaited' = t /\ pc \in {"save1", "save2"} /\ pc' = (IF pc = "save1" THEN "wait1" ELSE "wait2")
        /\ call \in Calls
    BY <1>3, <1>a DEF SendRequest, Saving, TaskType
  <2>2. req'[t].body = Payload /\ req'[t].st = "read" /\ t # NoThread
    BY <1>a, <2>1, BasicTypes DEF Arrives, GatewayType
  <2>3. Broadcasts' => Payload.place = Announced'
    BY <1>0, <2>1 DEF Broadcasts, Announced, Payload
  <2>4. c = call => Handled(c)' \subseteq {t}
    <3>1. c = call => Handled(c) = {}
      BY <2>1 DEF Arrives, Plain
    <3>2. \A u \in Threads \ {t} : req'[u] = req[u]
      BY <1>a, <2>1 DEF Arrives, GatewayType
    <3> QED
      BY <3>1, <3>2 DEF Handled, Busy
  <2>5. OnScreen(c)'
    BY <2>1, <2>2, <2>3, <2>4 DEF OnScreen, Announces
  <2> QED
    BY <2>1, <2>5, MirrorArrives
<1>4. ASSUME RequestFails PROVE Mirror(c)'
  <2>1. UNCHANGED gateway /\ c # call'
    BY <1>4, <1>b DEF RequestFails, Goto
  <2> QED
    BY <1>d, <2>1
<1>5. ASSUME AnswerArrives PROVE Mirror(c)'
  <2>1. /\ pc \in {"wait1", "wait2"} /\ pc' = (IF pc = "wait1" THEN "publish1" ELSE "publish2")
        /\ awaited \in Threads /\ awaited' = NoThread /\ req' = [req EXCEPT ![awaited] = Free]
        /\ req[awaited].st \in {"ok", "error"} /\ awaited # NoThread
        /\ UNCHANGED <<row, shown, unsent, call, form>>
    BY <1>5, <1>a, <1>0, BasicTypes DEF AnswerArrives, Waiting, AfterSaving, TaskType
  <2>2. \A u \in Threads : req'[u] = IF u = awaited THEN Free ELSE req[u]
    BY <1>a, <2>1 DEF GatewayType
  <2>3. Handled(c)' = Handled(c) /\ awaited \notin Handled(c)
    BY <2>1, <2>2 DEF Handled, Busy, Free
  <2>4. c = call => Handled(c)' = {}
    BY <2>1, <2>3 DEF Mirror
  <2>5. Announced' = Announced /\ Agrees(c)' = Agrees(c) /\ Broadcasts' = Broadcasts
    BY <1>0, <2>1 DEF Announced, Agrees, Broadcasts
  <2>6. OnScreen(c)'
    BY <2>1, <2>4, <2>5 DEF OnScreen, Mirror, Announces
  <2> QED
    BY <2>1, <2>2, <2>3, <2>6, MirrorApart DEF SameScreen
<1>6. ASSUME RequestTimesOut PROVE Mirror(c)'
  <2>1. /\ c # call /\ call' = call /\ UNCHANGED <<row, shown, unsent>> /\ awaited \in Threads
        /\ req' = [req EXCEPT ![awaited].from = "nobody"]
    BY <1>6, <1>a, <1>b DEF RequestTimesOut, MayTimeOut, Waiting, TaskType
  <2>2. OnScreen(c)'
    BY <2>1 DEF OnScreen
  <2> QED
    BY <2>1, <2>2, MirrorQuiet DEF SameScreen
<1>7. ASSUME PublishPhase1 \/ PublishPhase2 PROVE Mirror(c)'
  <2>1. /\ pc \in {"publish1", "publish2"} /\ pc' \in {"push1", "push2", "cleanup2"}
        /\ awaited = NoThread /\ UNCHANGED <<row, req>>
        /\ shown' = IF Broadcasts THEN [shown EXCEPT ![call] = Announced] ELSE shown
        /\ unsent' = IF Broadcasts THEN unsent \ {call} ELSE unsent
    BY <1>7, <1>a, <1>0 DEF PublishPhase1, PublishPhase2, Goto, TaskType, Broadcasts, Announced
  <2>2. OnScreen(c)'
    BY <2>1 DEF OnScreen, Broadcasts
  <2>3. CASE c # call \/ ~Broadcasts
    <3>1. SameScreen(c)
      BY <1>a, <2>1, <2>3 DEF GatewayType, SameScreen
    <3> QED
      BY <2>1, <2>2, <3>1, MirrorQuiet DEF SameScreen
  <2>4. CASE c = call /\ Broadcasts
    <3>1. Handled(c) = {} /\ Agrees(c)
      BY <2>1, <2>4, BasicTypes DEF Mirror, Announces, Handled
    <3>2. shown'[c] = Announced /\ Handled(c)' = Handled(c)
      BY <1>a, <2>1, <2>4 DEF GatewayType, Handled, Busy
    <3>3. InStep(c)'
      BY <2>1, <3>1, <3>2 DEF InStep, Agrees
    <3> QED
      BY <2>2, <3>1, <3>2, <3>3 DEF Mirror, Alone, OnScreen
  <2> QED
    BY <2>3, <2>4
<1>8. ASSUME PublishFails \/ PushFails PROVE Mirror(c)'
  <2>1. UNCHANGED gateway /\ c # call /\ call' \in {call, NoCall}
    BY <1>8, <1>b DEF PublishFails, PushFails, Goto, Idle
  <2> QED
    BY <1>a, <1>d, <2>1
<1>9. ASSUME PushPhase1 \/ PushPhase2 \/ ReadSession \/ ReadSessionFails \/ FinishListening
             \/ Phase2Raises \/ CleanUp \/ CleanUpFails
      PROVE  Mirror(c)'
  <2>1. UNCHANGED gateway /\ pc' \in {"idle", "cleanup2", "listen2", "save2"}
    BY <1>9 DEF PushPhase1, PushPhase2, ReadSession, ReadSessionFails, FinishListening, Phase2Raises,
       CleanUp, CleanUpFails, Idle, Goto, AfterException
  <2> QED
    BY <1>d, <2>1
<1> QED
  BY <1>1, <1>2, <1>3, <1>4, <1>5, <1>6, <1>7, <1>8, <1>9 DEF Worker

LEMMA SurroundingsMirror ==
    ASSUME ShownInv, Operator \/ Surroundings, NEW c \in Calls, Plain(c)', Mirror(c)
    PROVE  Mirror(c)'
<1>a. TaskType /\ GatewayType /\ c # NoCall
  BY ShownFacts
<1>b. UNCHANGED <<row, req, shown, unsent, pc, call, awaited, form>> => Mirror(c)'
  BY DEF Mirror, Alone, Handled, Busy, Turn, InStep, Broadcasts, Announces, Announced, Agrees
<1>1. ASSUME NEW d \in Calls, SessionAges(d) \/ Phase2Lost(d) PROVE Mirror(c)'
  BY <1>1, <1>b DEF SessionAges, Phase2Lost, gateway, task
<1>2. ASSUME WorkerCrashes PROVE Mirror(c)'
  <2>1. /\ UNCHANGED <<row, shown, unsent>> /\ pc' = "idle"
        /\ \/ req' = req
           \/ awaited \in Threads /\ req' = [req EXCEPT ![awaited].from = "nobody"]
    BY <1>2, <1>a DEF WorkerCrashes, Idle, TaskType
  <2>2. OnScreen(c)'
    BY <2>1 DEF OnScreen, Broadcasts
  <2> QED
    BY <2>1, <2>2, MirrorQuiet DEF SameScreen
<1>3. ASSUME NEW d \in Calls, OperatorLoads(d), UNCHANGED Local PROVE Mirror(c)'
  BY <1>3, <1>b DEF OperatorLoads, Local, task
<1>4. ASSUME NEW t \in Threads, OperatorSaves(t) \/ OperatorDeletes(t), Meanwhile PROVE Mirror(c)'
  <2>1. /\ desk.call \in Calls /\ UNCHANGED <<row, shown, unsent, pc, call, awaited, form>>
        /\ \E kind, body : Arrives(t, "operator", kind, desk.call, body)
    BY <1>4, <1>a DEF OperatorSaves, OperatorDeletes, GatewayType, Meanwhile, task
  <2>2. PICK kind, body : Arrives(t, "operator", kind, desk.call, body)
    BY <2>1
  <2>3. c = call => desk.call # c
    BY <1>4 DEF Meanwhile, Crosses, Plain
  <2>4. OnScreen(c)'
    <3>1. \A u \in Threads \ {t} : req'[u] = req[u]
      BY <1>a, <2>2 DEF Arrives, GatewayType
    <3>2. req[t].st = "free" /\ req'[t].call = desk.call
      BY <1>a, <2>2 DEF Arrives, GatewayType
    <3>3. c = call => Handled(c)' = Handled(c)
      BY <2>3, <3>1, <3>2 DEF Handled, Busy
    <3>4. awaited # NoThread => req'[awaited] = req[awaited]
      BY <1>a, <3>1, <3>2 DEF TaskType
    <3>5. Broadcasts' = Broadcasts /\ Agrees(c)' = Agrees(c) /\ Announced' = Announced
      BY <2>1 DEF Broadcasts, Agrees, Announced
    <3> QED
      BY <2>1, <3>3, <3>4, <3>5 DEF OnScreen, Mirror, Announces, Busy
  <2> QED
    BY <2>1, <2>2, <2>4, MirrorArrives
<1> QED
  BY <1>1, <1>2, <1>3, <1>4 DEF Operator, Surroundings

\* What stops a call from being one the property is about is never taken back.
LEMMA PlainBefore ==
    ASSUME ShownInv, [Next]_vars, NEW c \in Calls, Plain(c)'
    PROVE  Plain(c)
<1>1. contended \subseteq contended'
  BY DEF Next, Worker, Gateway, Operator, Surroundings, vars, gateway, Arrives, CheckPhase1, CheckPhase1Blind,
     StartPhase2, Phase1NotYet, Phase1Complete, RecordPhase1, RecordPhase1Fails, SendRequest, RequestFails,
     AnswerArrives, RequestTimesOut, PublishPhase1, PublishPhase2, PublishFails, PushPhase1, PushPhase2,
     PushFails, ReadSession, ReadSessionFails, FinishListening, Phase2Raises, CleanUp, CleanUpFails,
     ReadRecord, CommitInsert, CommitUpdate, CommitDelete, RefreshRecord, PublishEvent,
     EventLost, AnswerRead, OperatorLoads, OperatorSaves, OperatorDeletes, SessionAges, Phase2Lost, WorkerCrashes
<1>2. crossed \subseteq crossed' /\ missed \subseteq missed'
  BY DEF Next, Worker, Gateway, Operator, Surroundings, vars, history, Local, Meanwhile, Crosses, Misses,
     CheckPhase1, CheckPhase1Blind,
     StartPhase2, Phase1NotYet, Phase1Complete, RecordPhase1, RecordPhase1Fails, SendRequest, RequestFails,
     AnswerArrives, RequestTimesOut, PublishPhase1, PublishPhase2, PublishFails, PushPhase1, PushPhase2,
     PushFails, ReadSession, ReadSessionFails, FinishListening, Phase2Raises, CleanUp, CleanUpFails,
     SessionAges, Phase2Lost, WorkerCrashes
<1> QED
  BY <1>1, <1>2 DEF Plain, Complete

\* Once a call's requests are answered a kiosk shows it where the record has it, for any number
\* of calls, gateway threads, faults and operator requests: the two publishers of an INSERT, the
\* worker and the gateway, and the UPDATEs in between leave nothing stale behind, and one event
\* that comes through makes good all that were lost before it.  Excepted are calls whose latest
\* event was lost, that two requests overlapped for, that the operator wrote to while the worker
\* was on them, and those with a step of the worker cut short.
THEOREM ShownIsStoredCorrect == Spec => []ShownIsStored
<1>1. Init => ShownInv
  <2> SUFFICES ASSUME Init PROVE ShownInv
    OBVIOUS
  <2>1. EraseInv /\ PlaceInv
    BY EraseInvariant, BlankPlaces DEF Init, GatewayInit, PlaceInv
  <2>2. \A c \in Calls : Handled(c) = {} /\ InStep(c)
    BY DEF Init, GatewayInit, Handled, Busy, Free, InStep
  <2>3. pc = "idle"
    BY DEF Init
  <2> QED
    BY <2>1, <2>2, <2>3 DEF ShownInv, Mirror, Alone, Broadcasts
<1>2. ShownInv /\ [Next]_vars => ShownInv'
  <2> SUFFICES ASSUME ShownInv, [Next]_vars PROVE ShownInv'
    OBVIOUS
  <2>1. EraseInv' /\ PlaceInv'
    BY EraseInvariant, PlaceStep DEF ShownInv
  <2>2. ASSUME NEW c \in Calls, Plain(c)' PROVE Mirror(c)'
    <3>1. Mirror(c)
      BY <2>2, PlainBefore DEF ShownInv
    <3>2. UNCHANGED vars => Mirror(c)'
      BY <3>1 DEF vars, gateway, task, Mirror, Alone, Handled, Busy, Turn, InStep, Broadcasts, Announces,
         Announced, Agrees
    <3> QED
      BY <2>2, <3>1, <3>2, GatewayMirror, WorkerMirror, SurroundingsMirror DEF Next
  <2> QED
    BY <2>1, <2>2 DEF ShownInv
<1>3. ShownInv => ShownIsStored
  BY DEF ShownInv, Plain, Mirror, InStep, ShownIsStored
<1> QED
  BY <1>1, <1>2, <1>3, PTL DEF Spec
=============================================================================
