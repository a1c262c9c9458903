--------------------------- MODULE DispatchPipeline ---------------------------
(***************************************************************************)
(* What the worker does with the tasks it takes from the queue:            *)
(* process_phase_1_check and process_phase_2_finalize, step by step, with  *)
(* the session store in PostgreSQL between them, the gateway's endpoints   *)
(* (GatewayStore), the direct MQTT broadcast and the push notification.    *)
(*                                                                         *)
(* Tasks arrive as DispatchAgent delivers them: the phase 1 checks of a    *)
(* call before its phase 2, calls one after the other, and any of them     *)
(* possibly missing.  Audio, transcription, parsing and geocoding are      *)
(* abstracted to their outcome.                                            *)
(***************************************************************************)
EXTENDS GatewayStore

CONSTANTS
    NoThread,   \* the worker awaits no answer
    MaxChecks,  \* bound: phase 1 checks per call
    MaxFaults   \* bound: crashes of the worker, failures of what it talks to, lost events

ASSUME PipelineConstantsOK ==
    /\ NoThread \notin Threads
    /\ MaxChecks \in Nat
    /\ MaxFaults \in Nat

VARIABLES
    pc,         \* where the worker is in its handler
    call,       \* the dispatch_id of its task
    awaited,    \* the gateway thread that handles its request, or NoThread
    form,       \* phase 2: which of its branches was taken
    checks,     \* [Calls -> phase 1 checks taken]
    stage,      \* [Calls -> what became of the call]
    sessions,   \* rows of table dispatch_sessions
    stale,      \* those older than the TTL of 600 s
    inserted,   \* [Calls -> INSERTs the worker broadcast]
    pushed,     \* [Calls -> pushes announcing the call; corrections not counted]
    faults,     \* faults so far
    blind,      \* history: calls whose session could not be written, read or kept
    missed,     \* history: <<c, phase>> when a step of it was cut short or never answered
    unclean,    \* history: calls whose cleanup failed
    crossed     \* history: calls the operator wrote to while the worker was on them

task == <<pc, call, awaited, form>>
tally == <<checks, stage>>
store == <<sessions, stale>>
told == <<inserted, pushed>>
history == <<blind, missed, unclean, crossed>>
vars == <<gateway, task, tally, store, told, faults, history>>

Phase1Steps == {"listen1", "record1", "save1", "wait1", "publish1", "push1"}
Phase2Steps == {"read2", "listen2", "save2", "wait2", "publish2", "push2", "cleanup2"}
Forms == {"none", "single", "match", "corrected", "kept"}

PipelineTypeOK ==
    /\ GatewayTypeOK
    /\ pc \in {"idle"} \cup Phase1Steps \cup Phase2Steps
    /\ call \in Calls \cup {NoCall}
    /\ pc = "idle" <=> call = NoCall
    /\ awaited \in Threads \cup {NoThread}
    /\ awaited # NoThread => req[awaited].from = "worker" /\ req[awaited].call = call
    /\ form \in Forms
    /\ checks \in [Calls -> 0..MaxChecks]
    /\ stage \in [Calls -> {"fresh", "open", "final", "failed", "dropped"}]
    /\ sessions \subseteq Calls
    /\ stale \subseteq sessions
    /\ inserted \in [Calls -> Nat]
    /\ pushed \in [Calls -> Nat]
    /\ faults \in 0..MaxFaults
    /\ blind \subseteq Calls
    /\ missed \subseteq Calls \X {1, 2}
    /\ unclean \subseteq Calls
    /\ crossed \subseteq Calls

Init ==
    /\ GatewayInit
    /\ pc = "idle"
    /\ call = NoCall
    /\ awaited = NoThread
    /\ form = "none"
    /\ checks = [c \in Calls |-> 0]
    /\ stage = [c \in Calls |-> "fresh"]
    /\ sessions = {}
    /\ stale = {}
    /\ inserted = [c \in Calls |-> 0]
    /\ pushed = [c \in Calls |-> 0]
    /\ faults = 0
    /\ blind = {}
    /\ missed = {}
    /\ unclean = {}
    /\ crossed = {}

\* One of the bounded faults happens in this step.
Fault ==
    /\ faults < MaxFaults
    /\ faults' = faults + 1

\* The worker's step is cut short, or never answered.
Misses == missed' = missed \cup {<<call, IF pc \in Phase1Steps THEN 1 ELSE 2>>}

Goto(step) == pc' = step /\ UNCHANGED <<call, awaited, form>>

\* Plausible bug: a handler that ends leaves its request behind.
Bug_Idle ==
    /\ pc' = "idle"
    /\ call' = NoCall
    /\ form' = "none"
    /\ UNCHANGED awaited

Idle ==
    /\ pc' = "idle"
    /\ call' = NoCall
    /\ awaited' = NoThread
    /\ form' = "none"

\* The listener captures one call at a time, so their tasks do not mix.
NextInLine(c) ==
    /\ pc = "idle"
    /\ stage[c] \in {"fresh", "open"}
    /\ \A d \in Calls \ {c} : stage[d] # "open"

-----------------------------------------------------------------------------
(* The session store.                                                      *)

\* Plausible bug: the TTL comparison keeps the wrong side.
Bug_SweepsFresh == stale

\* What the TTL sweep leaves of the sessions.
Swept == sessions \ stale

\* evict_stale runs before every check and every recording; when it fails, the
\* rows stay.
Kept == {Swept, sessions}

\* A session grows older than the TTL.
SessionAges(c) ==
    /\ c \in sessions \ stale
    /\ stale' = stale \cup {c}
    /\ UNCHANGED <<gateway, task, tally, sessions, told, faults, history>>

-----------------------------------------------------------------------------
(* process_phase_1_check.                                                  *)

\* is_phase_1_triggered: sweep, then look for the session; nothing is done
\* twice for a call that has one.
CheckPhase1(c) ==
    /\ NextInLine(c)
    /\ checks[c] < MaxChecks
    /\ checks' = [checks EXCEPT ![c] = @ + 1]
    /\ stage' = [stage EXCEPT ![c] = "open"]
    /\ \E kept \in Kept :
        /\ sessions' = kept
        /\ stale' = stale \cap kept
        /\ blind' = blind \cup (stale \ kept)
        /\ IF c \in kept
           THEN UNCHANGED task
           ELSE pc' = "listen1" /\ call' = c /\ UNCHANGED <<awaited, form>>
    /\ UNCHANGED <<gateway, told, faults, missed, unclean, crossed>>

\* The same with the database out of reach: is_triggered answers FALSE.
CheckPhase1Blind(c) ==
    /\ NextInLine(c)
    /\ checks[c] < MaxChecks
    /\ Fault
    /\ checks' = [checks EXCEPT ![c] = @ + 1]
    /\ stage' = [stage EXCEPT ![c] = "open"]
    /\ \E kept \in Kept :
        /\ sessions' = kept
        /\ stale' = stale \cap kept
        /\ blind' = blind \cup {c} \cup (stale \ kept)
    /\ pc' = "listen1" /\ call' = c /\ UNCHANGED <<awaited, form>>
    /\ UNCHANGED <<gateway, told, missed, unclean, crossed>>

\* The chunk is transcribed and parsed: too early, unusable, or an exception.
Phase1NotYet ==
    /\ pc = "listen1"
    /\ Idle
    /\ UNCHANGED <<gateway, tally, store, told, faults, history>>

\* The first round is complete, and a payload is built.
Phase1Complete ==
    /\ pc = "listen1"
    /\ Goto("record1")
    /\ UNCHANGED <<gateway, tally, store, told, faults, history>>

\* record_phase_1_success: sweep, then upsert the session.
RecordPhase1 ==
    /\ pc = "record1"
    /\ \E kept \in Kept :
        /\ sessions' = kept \cup {call}
        /\ stale' = (stale \cap kept) \ {call}
        /\ blind' = blind \cup (stale \ (kept \cup {call}))
    /\ Goto("save1")
    /\ UNCHANGED <<gateway, tally, told, faults, missed, unclean, crossed>>

\* The upsert fails: logged, and the broadcast happens all the same.
RecordPhase1Fails ==
    /\ pc = "record1"
    /\ Fault
    /\ \E kept \in Kept :
        /\ sessions' = kept
        /\ stale' = stale \cap kept
        /\ blind' = blind \cup {call} \cup (stale \ kept)
    /\ Goto("save1")
    /\ UNCHANGED <<gateway, tally, told, missed, unclean, crossed>>

-----------------------------------------------------------------------------
(* save_dispatch_record and update_dispatch_record: a request, answered or *)
(* given up on after 10 s.                                                 *)

Saving == pc \in {"save1", "save2"}
Waiting == pc \in {"wait1", "wait2"}
AfterSaving == IF pc \in Phase1Steps THEN "publish1" ELSE "publish2"

\* Plausible bug: the single-phase branch updates the record like the others.
Bug_PatchAlways == IF pc = "save1" THEN "POST" ELSE "PATCH"

Method == IF pc = "save1" \/ form = "single" THEN "POST" ELSE "PATCH"

\* The payload: build_dispatch_payload's, or the update of the branch taken.  A
\* match sends a target without is_test; what is kept sends no target.
Payload ==
    CASE pc = "save1" ->
            [place |-> "chunk", test |-> "absent", flag |-> "false", audio |-> FALSE, review |-> FALSE]
      [] pc = "save2" /\ form \in {"single", "corrected"} ->
            [place |-> "full", test |-> "absent", flag |-> "false", audio |-> TRUE, review |-> FALSE]
      [] pc = "save2" /\ form = "match" ->
            [place |-> "full", test |-> "absent", flag |-> "absent", audio |-> TRUE, review |-> FALSE]
      [] OTHER ->
            [place |-> "keep", test |-> "absent", flag |-> "false", audio |-> TRUE, review |-> FALSE]

SendRequest(t) ==
    /\ Saving
    /\ Arrives(t, "worker", Method, call, Payload)
    /\ awaited' = t
    /\ pc' = IF pc = "save1" THEN "wait1" ELSE "wait2"
    /\ UNCHANGED <<row, serial, shown, desk, edits, unsent, call, form, tally, store, told,
                   faults, history>>

\* The gateway cannot be reached, or has no thread to spare for 10 s.
RequestFails ==
    /\ Saving
    /\ \/ Fault
       \/ (\A t \in Threads : req[t].st # "free") /\ UNCHANGED faults
    /\ Misses
    /\ Goto(AfterSaving)
    /\ UNCHANGED <<gateway, tally, store, told, blind, unclean, crossed>>

\* 200, or 404 or 500: raise_for_status makes the call return False, which its
\* callers ignore.
AnswerArrives ==
    /\ Waiting
    /\ req[awaited].st \in {"ok", "error"}
    /\ req' = [req EXCEPT ![awaited] = Free]
    /\ awaited' = NoThread
    /\ pc' = AfterSaving
    /\ UNCHANGED <<row, serial, shown, desk, edits, contended, unsent, call, form, tally,
                   store, told, faults, history>>

\* Plausible bug: the request is made without a timeout.
Bug_NoTimeout == FALSE

MayTimeOut == Waiting

\* The 10 s pass.  The gateway goes on with the request, for nobody.
RequestTimesOut ==
    /\ MayTimeOut
    /\ Busy(awaited)
    /\ Misses
    /\ req' = [req EXCEPT ![awaited].from = "nobody"]
    /\ awaited' = NoThread
    /\ pc' = AfterSaving
    /\ UNCHANGED <<row, serial, shown, desk, edits, contended, unsent, call, form, tally,
                   store, told, faults, blind, unclean, crossed>>

-----------------------------------------------------------------------------
(* publish_mqtt_dispatch and post_to_ntfy.  Both swallow their errors.     *)

\* The direct INSERT of phase 1 reaches the kiosks.
PublishPhase1 ==
    /\ pc = "publish1"
    /\ inserted' = [inserted EXCEPT ![call] = @ + 1]
    /\ shown' = [shown EXCEPT ![call] = "chunk"]
    /\ unsent' = unsent \ {call}
    /\ Goto("push1")
    /\ UNCHANGED <<row, serial, req, desk, edits, contended, tally, store, pushed,
                   faults, history>>

\* Phase 2 broadcasts an INSERT when it stands alone.  Its UPDATE payloads carry
\* no dispatch_id, so no kiosk finds the call they are about.
PublishPhase2 ==
    /\ pc = "publish2"
    /\ IF form = "single"
       THEN /\ inserted' = [inserted EXCEPT ![call] = @ + 1]
            /\ shown' = [shown EXCEPT ![call] = "full"]
            /\ unsent' = unsent \ {call}
       ELSE UNCHANGED <<inserted, shown, unsent>>
    /\ Goto(IF form \in {"single", "corrected"} THEN "push2" ELSE "cleanup2")
    /\ UNCHANGED <<row, serial, req, desk, edits, contended, tally, store, pushed,
                   faults, history>>

\* The broker is out of reach.
PublishFails ==
    /\ pc \in {"publish1", "publish2"}
    /\ Fault
    /\ Misses
    /\ Goto(CASE pc = "publish1" -> "push1"
              [] pc = "publish2" /\ form \in {"single", "corrected"} -> "push2"
              [] OTHER -> "cleanup2")
    /\ UNCHANGED <<gateway, tally, store, told, blind, unclean, crossed>>

PushPhase1 ==
    /\ pc = "push1"
    /\ pushed' = [pushed EXCEPT ![call] = @ + 1]
    /\ Idle
    /\ UNCHANGED <<gateway, tally, store, inserted, faults, history>>

\* The announcement of a single-phase call, or the correction of another.
PushPhase2 ==
    /\ pc = "push2"
    /\ pushed' = IF form = "single" THEN [pushed EXCEPT ![call] = @ + 1] ELSE pushed
    /\ Goto("cleanup2")
    /\ UNCHANGED <<gateway, tally, store, inserted, faults, history>>

PushFails ==
    /\ pc \in {"push1", "push2"}
    /\ Fault
    /\ Misses
    /\ IF pc = "push1" THEN Idle ELSE Goto("cleanup2")
    /\ UNCHANGED <<gateway, tally, store, told, blind, unclean, crossed>>

-----------------------------------------------------------------------------
(* process_phase_2_finalize.                                               *)

\* The recording is written to disk.
StartPhase2(c) ==
    /\ NextInLine(c)
    /\ stage' = [stage EXCEPT ![c] = "open"]
    /\ pc' = "read2" /\ call' = c /\ UNCHANGED <<awaited, form>>
    /\ UNCHANGED <<gateway, checks, store, told, faults, history>>

\* get_phase_1_data: no sweep here.  Without a session the call is single-phase.
ReadSession ==
    /\ pc = "read2"
    /\ form' = IF call \in sessions THEN "none" ELSE "single"
    /\ pc' = "listen2"
    /\ UNCHANGED <<gateway, call, awaited, tally, store, told, faults, history>>

\* The read fails, and None means single-phase too.
ReadSessionFails ==
    /\ pc = "read2"
    /\ Fault
    /\ form' = "single"
    /\ blind' = blind \cup {call}
    /\ pc' = "listen2"
    /\ UNCHANGED <<gateway, call, awaited, tally, store, told, missed, unclean, crossed>>

\* Transcribed, parsed and compared with phase 1: the addresses agree, phase 2's
\* can be placed instead, or phase 1's is kept.
FinishListening ==
    /\ pc = "listen2"
    /\ form' \in (IF form = "single" THEN {"single"} ELSE {"match", "corrected", "kept"})
    /\ pc' = "save2"
    /\ UNCHANGED <<gateway, call, awaited, tally, store, told, faults, history>>

\* Plausible bug: the cleanup is not in a finally block.
Bug_NoFinally == "idle"

AfterException == "cleanup2"

\* An exception on the way: reported to the maintainer, the record untouched.
Phase2Raises ==
    /\ pc \in {"read2", "listen2"}
    /\ form' = "none"
    /\ pc' = AfterException
    /\ call' = IF AfterException = "idle" THEN NoCall ELSE call
    /\ stage' = [stage EXCEPT ![call] = "failed"]
    /\ UNCHANGED <<gateway, awaited, checks, store, told, faults, history>>

\* finally: the session is deleted.
Ended == stage' = [stage EXCEPT ![call] = IF @ = "failed" THEN @ ELSE "final"]

CleanUp ==
    /\ pc = "cleanup2"
    /\ sessions' = sessions \ {call}
    /\ stale' = stale \ {call}
    /\ Ended
    /\ Idle
    /\ UNCHANGED <<gateway, checks, told, faults, history>>

CleanUpFails ==
    /\ pc = "cleanup2"
    /\ Fault
    /\ unclean' = unclean \cup {call}
    /\ Ended
    /\ Idle
    /\ UNCHANGED <<gateway, checks, store, told, blind, missed, crossed>>

-----------------------------------------------------------------------------
(* External: what the rest of the agent does to the worker.                *)

\* The phase 2 task never comes: the queue refused or displaced it.
Phase2Lost(c) ==
    /\ pc = "idle"
    /\ stage[c] = "open"
    /\ stage' = [stage EXCEPT ![c] = "dropped"]
    /\ UNCHANGED <<gateway, task, checks, store, told, faults, history>>

\* The worker dies and is respawned without its task; the gateway goes on with
\* the request it was waiting for.
WorkerCrashes ==
    /\ pc # "idle"
    /\ Fault
    /\ Idle
    /\ stage' = IF pc \in Phase2Steps THEN [stage EXCEPT ![call] = "failed"] ELSE stage
    /\ IF pc = "listen1" THEN UNCHANGED missed ELSE Misses
    /\ unclean' = IF pc \in Phase2Steps THEN unclean \cup {call} ELSE unclean
    /\ req' = IF awaited = NoThread THEN req ELSE [req EXCEPT ![awaited].from = "nobody"]
    /\ UNCHANGED <<row, serial, shown, desk, edits, contended, unsent, checks, store, told,
                   blind, crossed>>

-----------------------------------------------------------------------------
Worker ==
    \/ \E c \in Calls : CheckPhase1(c)
    \/ \E c \in Calls : CheckPhase1Blind(c)
    \/ \E c \in Calls : StartPhase2(c)
    \/ Phase1NotYet
    \/ Phase1Complete
    \/ RecordPhase1
    \/ RecordPhase1Fails
    \/ \E t \in Threads : SendRequest(t)
    \/ RequestFails
    \/ AnswerArrives
    \/ RequestTimesOut
    \/ PublishPhase1
    \/ PublishPhase2
    \/ PublishFails
    \/ PushPhase1
    \/ PushPhase2
    \/ PushFails
    \/ ReadSession
    \/ ReadSessionFails
    \/ FinishListening
    \/ Phase2Raises
    \/ CleanUp
    \/ CleanUpFails

Local == <<task, tally, store, told, history>>

Gateway ==
    \/ \E t \in Threads : ReadRecord(t) /\ UNCHANGED <<Local, faults>>
    \/ \E t \in Threads : CommitInsert(t) /\ UNCHANGED <<Local, faults>>
    \/ \E t \in Threads : CommitUpdate(t) /\ UNCHANGED <<Local, faults>>
    \/ \E t \in Threads : CommitDelete(t) /\ UNCHANGED <<Local, faults>>
    \/ \E t \in Threads : RefreshRecord(t) /\ UNCHANGED <<Local, faults>>
    \/ \E t \in Threads : PublishEvent(t) /\ UNCHANGED <<Local, faults>>
    \/ \E t \in Threads : EventLost(t) /\ Fault /\ UNCHANGED Local
    \/ \E t \in Threads : AnswerRead(t) /\ UNCHANGED <<Local, faults>>

Crosses == crossed' = IF desk.call = call THEN crossed \cup {call} ELSE crossed

Meanwhile == Crosses /\ UNCHANGED <<task, tally, store, told, faults, blind, missed, unclean>>

Operator ==
    \/ \E c \in Calls : OperatorLoads(c) /\ UNCHANGED <<Local, faults>>
    \/ \E t \in Threads : OperatorSaves(t) /\ Meanwhile
    \/ \E t \in Threads : OperatorDeletes(t) /\ Meanwhile

Surroundings ==
    \/ \E c \in Calls : SessionAges(c)
    \/ \E c \in Calls : Phase2Lost(c)
    \/ WorkerCrashes

Next == Worker \/ Gateway \/ Operator \/ Surroundings

Spec == Init /\ [][Next]_vars

(***************************************************************************)
(* Fairness.  The worker goes on with the task it is on: its requests have *)
(* timeouts (10 s, 5 s, 3 s); of the database, whose engine has none, it   *)
(* is assumed that it answers or refuses.  Nothing is asked of the gateway,*)
(* of the operator or of faults, and no task is obliged to arrive.         *)
(***************************************************************************)
FairSpec ==
    /\ Spec
    /\ WF_vars(Phase1NotYet \/ Phase1Complete \/ RecordPhase1 \/ RecordPhase1Fails)
    /\ WF_vars((\E t \in Threads : SendRequest(t)) \/ RequestFails)
    /\ WF_vars(AnswerArrives \/ RequestTimesOut)
    /\ WF_vars(PublishPhase1 \/ PublishPhase2 \/ PublishFails \/ PushPhase1
               \/ PushPhase2 \/ PushFails)
    /\ WF_vars(ReadSession \/ ReadSessionFails \/ FinishListening \/ Phase2Raises)
    /\ WF_vars(CleanUp \/ CleanUpFails)

-----------------------------------------------------------------------------
(* What the pipeline guarantees.                                           *)

\* No step of the call was cut short or went unanswered.
Complete(c) == missed \cap {<<c, 1>>, <<c, 2>>} = {}

\* A call is announced once, over MQTT and by push, whatever crashes and
\* whatever the gateway answers: only a session that could not be written, read
\* or kept for the call lets a second announcement out.
AnnouncedOnce ==
    \A c \in Calls \ blind : inserted[c] <= 1 /\ pushed[c] <= 1

\* Phase 2 leaves no session behind, on any of its ways out.
SessionClosed ==
    \A c \in Calls \ unclean :
        stage[c] \in {"final", "failed"} /\ call # c => c \notin sessions

\* A call whose phase 2 ended normally is stored with its recording and was
\* announced on the kiosks and by push, unless a step of it was cut short or never
\* answered, or the operator deleted it.  Missing sessions do not matter, and no
\* error is answered that this could hide behind.
FinalMeansComplete ==
    \A c \in Calls :
        stage[c] = "final" /\ Complete(c) =>
            /\ row[c] # NoRow => row[c].audio
            /\ edits = 0 => row[c] # NoRow
            /\ inserted[c] >= 1
            /\ pushed[c] >= 1

\* Once a call's requests are answered, a kiosk shows the call where the record
\* has it: the worker's broadcasts and the gateway's, by two publishers, leave
\* nothing stale behind, and one that comes through makes good every event the
\* gateway lost before it.  Excepted: calls whose latest event was lost, that two
\* requests overlapped for, that the operator wrote to while the worker was on
\* them, and those with a step of the worker cut short.
ShownIsStored ==
    \A c \in Calls \ (contended \cup crossed \cup unsent) :
        Complete(c) /\ row[c] # NoRow /\ Handled(c) = {} => shown[c] = row[c].place

\* The worker gets back to its queue, even when the gateway never answers.
TaskEnds == pc # "idle" ~> pc = "idle"

\* What dispatch_queue.py:22-26 says of phase 2: it is what persists the dispatch,
\* and it produces the full record even when phase 1 came to nothing.  Here phase
\* 2 itself goes through without a fault, and nobody deletes the record.
FullRecord ==
    \A c \in Calls :
        stage[c] = "final" /\ <<c, 2>> \notin missed /\ edits = 0 =>
            row[c] # NoRow /\ row[c].audio
=============================================================================
