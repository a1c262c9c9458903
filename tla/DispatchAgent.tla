---------------------------- MODULE DispatchAgent ----------------------------
(***************************************************************************)
(* The dispatch agent (systemd unit cfr-agent): one run of the host        *)
(* process that listens to the station audio.                              *)
(*                                                                         *)
(*   listener    run_audio_listener_loop and capture_full_dispatch, in the *)
(*               main thread: hears a tone, captures the broadcast, hands  *)
(*               phase 1 checks and one phase 2 task to the worker;        *)
(*   queue       multiprocessing.Queue(maxsize=10), written only through   *)
(*               enqueue_dispatch_task and, at the end, drain_and_stop;    *)
(*   worker      background_worker_loop, a daemon child process;           *)
(*   supervisor  WorkerSupervisor._watch, a thread that respawns it;       *)
(*   main        run_dispatch_system: SIGTERM, then drain_and_stop.        *)
(*                                                                         *)
(* The audio itself, the fingerprints and what phase 1 and phase 2 do with *)
(* a task are abstracted: a task is the pair of its type and its call.     *)
(***************************************************************************)
EXTENDS Naturals, Sequences, FiniteSets

CONSTANTS
    Calls,        \* broadcasts that can come over the radio, one dispatch_id each
    NoCall,       \* "no dispatch": the listener is not capturing, the task is not about one
    QMax,         \* capacity of the queue (10 in run_dispatch_system)
    MaxChecks,    \* bound: phase 1 checks one capture enqueues
    MaxRestarts,  \* MAX_RESTARTS
    MaxFaults,    \* bound: worker crashes and failed spawns
    FaultPoints   \* worker states in which a crash is considered

ASSUME ConstantsOK ==
    /\ NoCall \notin Calls
    /\ QMax \in Nat \ {0}
    /\ MaxChecks \in Nat
    /\ MaxRestarts \in Nat
    /\ MaxFaults \in Nat
    /\ FaultPoints \subseteq {"booting", "ready", "reading", "busy"}

VARIABLES
    lst,      \* listener: where it is in run_audio_listener_loop
    cap,      \* listener: the call being captured (dispatch_id), or NoCall
    checks,   \* listener: phase 1 checks enqueued or discarded in this capture
    queue,    \* the tasks in dispatch_queue, oldest first
    rlock,    \* the queue's reader lock: a worker killed inside get() never frees it
    wk,       \* worker process
    cur,      \* worker: the task it is on, or Nothing
    sup,      \* watch thread of the supervisor
    supStop,  \* WorkerSupervisor._stop
    gaveUp,   \* WorkerSupervisor.gave_up
    recent,   \* length of _restart_times within the rolling window
    epoch,    \* which process _process names: how often the worker was respawned
    term,     \* shutdown._stop: SIGTERM was received
    main,     \* main thread once the listener has returned
    awaited,  \* the process drain_and_stop joins
    verdict,  \* what drain_and_stop returned
    faults,   \* worker crashes and failed spawns so far
    heard,    \* history: the calls captured so far, oldest first
    stage     \* history: what became of each call's complete recording

listener == <<lst, cap, checks>>
worker == <<wk, cur>>
supervisor == <<sup, gaveUp, recent, epoch>>
shutdown == <<main, awaited, verdict>>
history == <<heard, stage>>
vars == <<listener, queue, rlock, worker, supervisor, supStop, term, shutdown,
          faults, history>>

-----------------------------------------------------------------------------
(* Tasks.                                                                  *)

P1(c) == [type |-> "phase1", call |-> c]      \* phase_1_check
P2(c) == [type |-> "phase2", call |-> c]      \* phase_2_finalize
Pill == [type |-> "pill", call |-> NoCall]    \* None, the poison pill
Nothing == [type |-> "none", call |-> NoCall] \* the worker is on no task

Tasks == {P1(c) : c \in Calls} \cup {P2(c) : c \in Calls}

\* A recording is still the listener's, waits in the queue, or met its end.
Settled == {"final", "displaced", "refused", "crashed", "cut", "abandoned"}
Stages == {"unheard", "capturing", "offered", "queued", "working"} \cup Settled

Alive == {"booting", "ready", "reading", "busy"}

TypeOK ==
    /\ lst \in {"idle", "analysing", "capturing", "offer", "makeRoom", "retry", "done"}
    /\ cap \in Calls \cup {NoCall}
    /\ checks \in 0..MaxChecks
    /\ queue \in Seq(Tasks \cup {Pill})
    /\ Len(queue) <= QMax
    /\ rlock \in {"free", "held", "orphaned"}
    /\ wk \in Alive \cup {"exited", "dead"}
    /\ cur \in Tasks \cup {Nothing}
    /\ sup \in {"sleeping", "looking", "ended"}
    /\ supStop \in BOOLEAN
    /\ gaveUp \in BOOLEAN
    /\ recent \in 0..MaxRestarts
    /\ epoch \in Nat
    /\ term \in BOOLEAN
    /\ main \in {"listening", "putting", "checking", "joining", "exiting",
                 "reaping", "gone", "killed"}
    /\ awaited \in Nat
    /\ verdict \in {"none", "true", "false"}
    /\ faults \in Nat
    /\ heard \in Seq(Calls)
    /\ stage \in [Calls -> Stages]

Init ==
    /\ lst = "idle"
    /\ cap = NoCall
    /\ checks = 0
    /\ queue = <<>>
    /\ rlock = "free"
    /\ wk = "booting"
    /\ cur = Nothing
    /\ sup = "sleeping"
    /\ supStop = FALSE
    /\ gaveUp = FALSE
    /\ recent = 0
    /\ epoch = 0
    /\ term = FALSE
    /\ main = "listening"
    /\ awaited = 0
    /\ verdict = "none"
    /\ faults = 0
    /\ heard = <<>>
    /\ stage = [c \in Calls |-> "unheard"]

Running == main \notin {"gone", "killed"}

-----------------------------------------------------------------------------
(* The queue.  put_nowait succeeds while a slot is free; get takes the     *)
(* reader lock, and get_nowait raises Empty when it cannot.                *)

\* Plausible bug: the bound is off by one.
Bug_RoomOffByOne == Len(queue) <= QMax

HasRoom == Len(queue) < QMax

\* Plausible bug: the final recording is put at the head, ahead of what waits.
Bug_PhaseTwoFirst(t) == <<t>> \o queue

Put(t) == Append(queue, t)

-----------------------------------------------------------------------------
(* The listener.                                                           *)

\* Plausible bug: audio is read before the stop flag, which then waits for quiet.
Bug_HearFirst ==
    /\ lst = "idle"
    /\ lst' = "analysing"
    /\ UNCHANGED <<cap, checks, queue, rlock, worker, supervisor, supStop, term,
                   shutdown, faults, history>>

\* Sustained loudness starts the 3.5 s tone analysis.  The loop reads the stop
\* flag before it reads audio.
HearSound ==
    /\ lst = "idle"
    /\ ~term
    /\ lst' = "analysing"
    /\ UNCHANGED <<cap, checks, queue, rlock, worker, supervisor, supStop, term,
                   shutdown, faults, history>>

\* PA page, mains hum or no recognised apparatus tone: back to listening.
RejectTone ==
    /\ lst = "analysing"
    /\ lst' = "idle"
    /\ UNCHANGED <<cap, checks, queue, rlock, worker, supervisor, supStop, term,
                   shutdown, faults, history>>

\* An apparatus tone: a fresh dispatch_id, and the capture begins.
ConfirmTone(c) ==
    /\ lst = "analysing"
    /\ stage[c] = "unheard"
    /\ lst' = "capturing"
    /\ cap' = c
    /\ checks' = 0
    /\ heard' = Append(heard, c)
    /\ stage' = [stage EXCEPT ![c] = "capturing"]
    /\ UNCHANGED <<queue, rlock, worker, supervisor, supStop, term, shutdown, faults>>

\* The periodic phase 1 check inside the capture loop: put_nowait, and on Full
\* the check is discarded.
OfferPhase1 ==
    /\ lst = "capturing"
    /\ checks < MaxChecks
    /\ checks' = checks + 1
    /\ queue' = IF HasRoom THEN Put(P1(cap)) ELSE queue
    /\ UNCHANGED <<lst, cap, rlock, worker, supervisor, supStop, term, shutdown,
                   faults, history>>

\* Silence, the 75 s cap or a read error ends the capture; whatever was
\* recorded (never nothing: the analysis buffer starts it) goes to phase 2.
EndCapture ==
    /\ lst = "capturing"
    /\ lst' = "offer"
    /\ stage' = [stage EXCEPT ![cap] = "offered"]
    /\ UNCHANGED <<cap, checks, queue, rlock, worker, supervisor, supStop, term,
                   shutdown, faults, heard>>

\* enqueue_dispatch_task of the phase 2 task settles as s; back to listening.
HandedOff(s) ==
    /\ lst' = "idle"
    /\ cap' = NoCall
    /\ checks' = 0
    /\ stage' = [stage EXCEPT ![cap] = s]

\* Plausible bug: the plain blocking put() the module replaced.
Bug_BlockingOffer ==
    /\ lst = "offer"
    /\ HasRoom
    /\ queue' = Put(P2(cap))
    /\ HandedOff("queued")
    /\ UNCHANGED <<rlock, worker, supervisor, supStop, term, shutdown, faults, heard>>

\* Plausible bug: no return after the first put_nowait, so the task is offered
\* to the retry too.
Bug_OfferTwice ==
    /\ lst = "offer"
    /\ lst' = "makeRoom"
    /\ queue' = IF HasRoom THEN Put(P2(cap)) ELSE queue
    /\ stage' = IF HasRoom THEN [stage EXCEPT ![cap] = "queued"] ELSE stage
    /\ UNCHANGED <<cap, checks, rlock, worker, supervisor, supStop, term, shutdown,
                   faults, heard>>

\* First put_nowait of the phase 2 task.
OfferPhase2 ==
    /\ lst = "offer"
    /\ \/ /\ HasRoom
          /\ queue' = Put(P2(cap))
          /\ HandedOff("queued")
       \/ /\ ~HasRoom
          /\ lst' = "makeRoom"
          /\ UNCHANGED <<cap, checks, queue, stage>>
    /\ UNCHANGED <<rlock, worker, supervisor, supStop, term, shutdown, faults, heard>>

\* get_nowait displaces the oldest task, whatever it is and whichever call it
\* belongs to; it raises Empty when the queue was drained meanwhile or when
\* the reader lock is not free.
MakeRoom ==
    /\ lst = "makeRoom"
    /\ lst' = "retry"
    /\ \/ /\ rlock = "free"
          /\ queue # <<>>
          /\ queue' = Tail(queue)
          /\ stage' = IF Head(queue).type = "phase2"
                      THEN [stage EXCEPT ![Head(queue).call] = "displaced"]
                      ELSE stage
       \/ /\ rlock # "free" \/ queue = <<>>
          /\ UNCHANGED <<queue, stage>>
    /\ UNCHANGED <<cap, checks, rlock, worker, supervisor, supStop, term, shutdown,
                   faults, heard>>

\* Second put_nowait; on Full again the recording is dropped.
RetryPhase2 ==
    /\ lst = "retry"
    /\ \/ /\ HasRoom
          /\ queue' = Put(P2(cap))
          /\ HandedOff("queued")
       \/ /\ ~HasRoom
          /\ HandedOff("refused")
          /\ UNCHANGED queue
    /\ UNCHANGED <<rlock, worker, supervisor, supStop, term, shutdown, faults, heard>>

\* The stop flag is honoured only while nothing is being captured.
StopListening ==
    /\ lst = "idle"
    /\ term
    /\ lst' = "done"
    /\ UNCHANGED <<cap, checks, queue, rlock, worker, supervisor, supStop, term,
                   shutdown, faults, history>>

\* KeyboardInterrupt, or an audio read that fails outside a capture, leaves the
\* loop; a capture in progress is then never handed off.
ListenerRaises ==
    /\ lst # "done"
    /\ lst' = "done"
    /\ cap' = NoCall
    /\ checks' = 0
    /\ stage' = IF cap = NoCall THEN stage ELSE [stage EXCEPT ![cap] = "cut"]
    /\ UNCHANGED <<queue, rlock, worker, supervisor, supStop, term, shutdown,
                   faults, heard>>

-----------------------------------------------------------------------------
(* The worker.                                                             *)

\* Logging, then SIGTERM ignored, then the validator and the speech model.
WorkerBoots ==
    /\ wk = "booting"
    /\ wk' = "ready"
    /\ UNCHANGED <<listener, queue, rlock, cur, supervisor, supStop, term, shutdown,
                   faults, history>>

\* task_queue.get() takes the reader lock and keeps it while it waits.
WorkerWaits ==
    /\ wk = "ready"
    /\ rlock = "free"
    /\ rlock' = "held"
    /\ wk' = "reading"
    /\ UNCHANGED <<listener, queue, cur, supervisor, supStop, term, shutdown,
                   faults, history>>

\* get() returns: the pill ends the process, a task is worked on.
WorkerTakes ==
    /\ wk = "reading"
    /\ queue # <<>>
    /\ queue' = Tail(queue)
    /\ rlock' = "free"
    /\ \/ /\ Head(queue) = Pill
          /\ wk' = "exited"
          /\ UNCHANGED <<cur, stage>>
       \/ /\ Head(queue) # Pill
          /\ wk' = "busy"
          /\ cur' = Head(queue)
          /\ stage' = IF Head(queue).type = "phase2"
                      THEN [stage EXCEPT ![Head(queue).call] = "working"]
                      ELSE stage
    /\ UNCHANGED <<listener, supervisor, supStop, term, shutdown, faults, heard>>

\* process_phase_1_check or process_phase_2_finalize returns or raises: the
\* loop goes on either way.
WorkerFinishes ==
    /\ wk = "busy"
    /\ wk' = "ready"
    /\ cur' = Nothing
    /\ stage' = IF cur.type = "phase2"
                THEN [stage EXCEPT ![cur.call] = "final"]
                ELSE stage
    /\ UNCHANGED <<listener, queue, rlock, supervisor, supStop, term, shutdown,
                   faults, heard>>

\* The worker process ends abnormally: its task is lost, and the reader lock is
\* never released if it was inside get().
WorkerDies ==
    /\ wk' = "dead"
    /\ cur' = Nothing
    /\ rlock' = IF wk = "reading" THEN "orphaned" ELSE rlock
    /\ stage' = IF cur.type = "phase2"
                THEN [stage EXCEPT ![cur.call] = "crashed"]
                ELSE stage

\* SIGKILL, the out-of-memory killer, a crash of the speech library, or an
\* exception while the models load.
WorkerCrashes ==
    /\ wk \in FaultPoints
    /\ faults < MaxFaults
    /\ faults' = faults + 1
    /\ WorkerDies
    /\ UNCHANGED <<listener, queue, supervisor, supStop, term, shutdown, heard>>

-----------------------------------------------------------------------------
(* The supervisor's watch thread.                                          *)

\* The 15 s wait ends; the stop flag is read before the process is looked at.
SupervisorWakes ==
    /\ sup = "sleeping"
    /\ sup' = IF supStop THEN "ended" ELSE "looking"
    /\ UNCHANGED <<listener, queue, rlock, worker, supStop, gaveUp, recent, epoch,
                   term, shutdown, faults, history>>

\* Alive, or dead and already given up on: nothing but a log line.
SupervisorLeaves ==
    /\ sup = "looking"
    /\ wk \in Alive \/ gaveUp
    /\ sup' = "sleeping"
    /\ UNCHANGED <<listener, queue, rlock, worker, supStop, gaveUp, recent, epoch,
                   term, shutdown, faults, history>>

\* The ceiling within the rolling window is reached: no more restarts, ever.
SupervisorGivesUp ==
    /\ sup = "looking"
    /\ wk \notin Alive
    /\ ~gaveUp
    /\ recent >= MaxRestarts
    /\ gaveUp' = TRUE
    /\ sup' = "sleeping"
    /\ UNCHANGED <<listener, queue, rlock, worker, supStop, recent, epoch, term,
                   shutdown, faults, history>>

MayRespawn == sup = "looking" /\ wk \notin Alive /\ ~gaveUp /\ recent < MaxRestarts

SupervisorRespawns ==
    /\ MayRespawn
    /\ recent' = recent + 1
    /\ epoch' = epoch + 1
    /\ wk' = "booting"
    /\ sup' = "sleeping"
    /\ UNCHANGED <<listener, queue, rlock, cur, supStop, gaveUp, term, shutdown,
                   faults, history>>

\* Plausible bug: an exception of _spawn ends the watch thread.
Bug_ThreadEnds == "ended"

AfterSpawnFailure == "sleeping"

\* _spawn raises: counted as a restart, the old process stays in _process.
SpawnFails ==
    /\ MayRespawn
    /\ faults < MaxFaults
    /\ faults' = faults + 1
    /\ recent' = recent + 1
    /\ sup' = AfterSpawnFailure
    /\ UNCHANGED <<listener, queue, rlock, worker, supStop, gaveUp, epoch, term,
                   shutdown, history>>

\* A restart falls out of the rolling window of 600 s.
RestartAges ==
    /\ recent > 0
    /\ sup # "ended"
    /\ recent' = recent - 1
    /\ UNCHANGED <<listener, queue, rlock, worker, sup, supStop, gaveUp, epoch,
                   term, shutdown, faults, history>>

-----------------------------------------------------------------------------
(* The main thread: SIGTERM and drain_and_stop.                            *)

\* Plausible bug: the worker does not ignore SIGTERM.
Bug_SigtermReaches == Alive

SigtermReaches == {"booting"}

\* systemd signals the whole control group.  The main process sets the stop
\* flag; a worker that has not yet ignored SIGTERM dies of it.
Sigterm ==
    /\ Running
    /\ ~term
    /\ term' = TRUE
    /\ \/ UNCHANGED <<worker, rlock, stage>>
       \/ wk \in SigtermReaches /\ WorkerDies
    /\ UNCHANGED <<listener, queue, supervisor, supStop, shutdown, faults, heard>>

\* The listener has returned or raised: the supervisor's stop flag is set.
StopSupervisor ==
    /\ main = "listening"
    /\ lst = "done"
    /\ supStop' = TRUE
    /\ main' = "putting"
    /\ UNCHANGED <<listener, queue, rlock, worker, supervisor, term, awaited,
                   verdict, faults, history>>

\* Plausible bug: the pill overtakes the recordings that wait.
Bug_PillFirst == <<Pill>> \o queue

WithPill == Put(Pill)

\* dispatch_queue.put(None) blocks until there is room.
PutPill ==
    /\ main = "putting"
    /\ HasRoom
    /\ queue' = WithPill
    /\ main' = "checking"
    /\ UNCHANGED <<listener, rlock, worker, supervisor, supStop, term, awaited,
                   verdict, faults, history>>

\* A worker that is not alive is not waited for.
CheckWorker ==
    /\ main = "checking"
    /\ \/ /\ wk \notin Alive
          /\ main' = "exiting"
          /\ verdict' = "true"
          /\ UNCHANGED awaited
       \/ /\ wk \in Alive
          /\ main' = "joining"
          /\ awaited' = epoch
          /\ UNCHANGED verdict
    /\ UNCHANGED <<listener, queue, rlock, worker, supervisor, supStop, term,
                   faults, history>>

\* join returns because that process ended (a respawned one does not count),
\* or after WORKER_DRAIN_TIMEOUT_S.
JoinReturns ==
    /\ main = "joining"
    /\ main' = "exiting"
    /\ verdict' = IF wk \notin Alive \/ epoch # awaited THEN "true" ELSE "false"
    /\ UNCHANGED <<listener, queue, rlock, worker, supervisor, supStop, term,
                   awaited, faults, history>>

\* External: at exit multiprocessing sends SIGTERM to the daemon children, which
\* the worker ignores once it has booted ...
TerminateChildren ==
    /\ main = "exiting"
    /\ main' = "reaping"
    /\ \/ UNCHANGED <<worker, rlock, stage>>
       \/ wk \in SigtermReaches /\ WorkerDies
    /\ UNCHANGED <<listener, queue, supervisor, supStop, term, awaited, verdict,
                   faults, heard>>

\* ... then joins them, and the feeder thread of a queue that still holds
\* recordings (each far larger than the pipe) is joined too.
Exit ==
    /\ main = "reaping"
    /\ wk \notin Alive
    /\ \A i \in DOMAIN queue : queue[i] = Pill
    /\ main' = "gone"
    /\ sup' = "ended"
    /\ UNCHANGED <<listener, queue, rlock, worker, gaveUp, recent, epoch, supStop,
                   term, awaited, verdict, faults, history>>

\* External: systemd sends SIGKILL to the control group TimeoutStopSec after
\* the SIGTERM.  Nothing is on disk, so whatever is pending is gone.
Killed ==
    /\ Running
    /\ term
    /\ main' = "killed"
    /\ sup' = "ended"
    /\ wk' = "dead"
    /\ cur' = Nothing
    /\ queue' = <<>>
    /\ lst' = "done"
    /\ cap' = NoCall
    /\ checks' = 0
    /\ stage' = [c \in Calls |->
                    IF stage[c] \in Settled \cup {"unheard"} THEN stage[c] ELSE "abandoned"]
    /\ UNCHANGED <<rlock, gaveUp, recent, epoch, supStop, term, awaited, verdict,
                   faults, heard>>

-----------------------------------------------------------------------------
ListenerStep ==
    \/ HearSound
    \/ RejectTone
    \/ \E c \in Calls : ConfirmTone(c)
    \/ OfferPhase1
    \/ EndCapture
    \/ OfferPhase2
    \/ MakeRoom
    \/ RetryPhase2
    \/ StopListening
    \/ ListenerRaises

WorkerStep ==
    \/ WorkerBoots
    \/ WorkerWaits
    \/ WorkerTakes
    \/ WorkerFinishes
    \/ WorkerCrashes

SupervisorStep ==
    \/ SupervisorWakes
    \/ SupervisorLeaves
    \/ SupervisorGivesUp
    \/ SupervisorRespawns
    \/ SpawnFails
    \/ RestartAges

MainStep ==
    \/ Sigterm
    \/ StopSupervisor
    \/ PutPill
    \/ CheckWorker
    \/ JoinReturns
    \/ TerminateChildren
    \/ Exit
    \/ Killed

Next == ListenerStep \/ WorkerStep \/ SupervisorStep \/ MainStep

Spec == Init /\ [][Next]_vars

(***************************************************************************)
(* Fairness.  Each thread of control keeps running: an analysis lasts      *)
(* 3.5 s and a capture at most 75 s, the worker's handlers return, the     *)
(* watch thread wakes every 15 s.  Nothing obliges sound to arrive, SIGTERM *)
(* to be sent, a fault to happen or a restart to age.                      *)
(***************************************************************************)
ListenerFairness ==
    /\ WF_vars(RejectTone \/ \E c \in Calls : ConfirmTone(c))
    /\ WF_vars(EndCapture)
    /\ WF_vars(OfferPhase2 \/ MakeRoom \/ RetryPhase2)
    /\ WF_vars(StopListening)

WorkerFairness ==
    /\ WF_vars(WorkerBoots)
    /\ WF_vars(WorkerWaits)
    /\ WF_vars(WorkerTakes)
    /\ WF_vars(WorkerFinishes)

SupervisorFairness ==
    /\ WF_vars(SupervisorWakes)
    /\ WF_vars(SupervisorLeaves \/ SupervisorGivesUp \/ SupervisorRespawns \/ SpawnFails)

MainFairness ==
    WF_vars(StopSupervisor \/ PutPill \/ CheckWorker \/ JoinReturns
            \/ TerminateChildren \/ Exit)

FairSpec ==
    /\ Spec
    /\ ListenerFairness
    /\ WorkerFairness
    /\ SupervisorFairness
    /\ MainFairness

-----------------------------------------------------------------------------
(* What the agent guarantees.                                              *)

\* The positions at which a task stands in a queue.
Pos(q, t) == {i \in DOMAIN q : q[i] = t}
At(t) == Pos(queue, t)

\* A call's recording is in exactly one place: with the listener that records
\* it, once in the queue, or with the worker.  The three are written by two
\* processes through put_nowait, get_nowait and get, none of them under a
\* common lock.
OnePlace ==
    \A c \in Calls :
        /\ (cap = c) <=> stage[c] \in {"capturing", "offered"}
        /\ stage[c] = "queued" <=> At(P2(c)) # {}
        /\ \A i, j \in At(P2(c)) : i = j
        /\ stage[c] = "working" <=> cur = P2(c)

\* No phase 1 check of a call waits behind its phase 2, or is worked on once
\* phase 2 has begun: it would find no session, take the call for a new one
\* and announce it again.
Phase1First ==
    \A c \in Calls :
        /\ \A i \in At(P1(c)), j \in At(P2(c)) : i < j
        /\ At(P1(c)) # {} \/ cur = P1(c) => stage[c] \notin {"working", "final", "crashed"}

\* A worker that exits on the pill leaves nothing behind: every recording the
\* listener captured has been settled before it.
PillMeansDrained ==
    wk = "exited" => /\ queue = <<>>
                     /\ \A c \in Calls : stage[c] \in Settled \cup {"unheard"}

\* How the threads' program counters constrain what they share; with the three
\* invariants above and TypeOK it is inductive (DispatchAgentProofs).
ListenerBusy == lst \in {"capturing", "offer", "makeRoom", "retry"}

Bookkeeping ==
    /\ ListenerBusy <=> cap # NoCall
    /\ wk = "busy" <=> cur # Nothing
    /\ main # "listening" => lst = "done"
    /\ \A i \in At(Pill) : i = Len(queue)
    /\ At(Pill) # {} \/ wk = "exited" => main \notin {"listening", "putting"}

IInv == TypeOK /\ Bookkeeping /\ OnePlace /\ Phase1First /\ PillMeansDrained

\* When nothing crashed, an agent that stopped by itself finished the call it
\* was on: SIGTERM costs no recording.
GracefulStop ==
    main = "gone" /\ faults = 0 =>
        \A c \in Calls : stage[c] \in {"unheard", "final", "displaced", "refused", "cut"}

\* The promise of CallLog: settled once, finalised in the order of capture.
Outcome(s) ==
    CASE s = "unheard" -> "unheard"
      [] s \in {"capturing", "offered", "queued", "working"} -> "pending"
      [] s = "final" -> "final"
      [] OTHER -> "lost"

Promise == INSTANCE CallLog WITH
    log <- heard,
    outcome <- [c \in Calls |-> Outcome(stage[c])]

\* The agent implements CallLog.
RefinesCallLog == Promise!Spec

\* The listener never blocks: a capture it began always ends and leaves it free
\* to hear the next tone, whatever the worker does.
ListenerNeverBlocks == cap # NoCall ~> cap = NoCall

\* A dead worker is respawned or given up on, while the agent is not stopping.
DeadWorkerNoticed ==
    wk = "dead" /\ ~supStop ~> wk \in Alive \/ gaveUp \/ supStop \/ ~Running

\* A recording that was accepted leaves the queue, crashes of the worker
\* included, unless the supervisor gave up or the agent is being stopped.
QueuedSettles ==
    \A c \in Calls : stage[c] = "queued" ~> stage[c] # "queued" \/ gaveUp \/ supStop

\* After SIGTERM the main thread gets as far as its exit handlers, except when
\* the worker is dead and the full queue leaves no room for the pill.
StopReachesExit ==
    []<>~(main = "putting" /\ wk \notin Alive) =>
        (term ~> main \in {"reaping", "gone", "killed"})
=============================================================================
