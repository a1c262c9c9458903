------------------------------ MODULE KioskQueue ------------------------------
(***************************************************************************)
(* The apparatus bay display (frontend/src/hooks/useKioskQueue.js): the    *)
(* call on the screen, those that wait behind it, and what moves them:     *)
(* MQTT events, the restore request a fresh page sends, replays opened     *)
(* from the review screen, the crew's taps and the countdown.              *)
(*                                                                         *)
(* Each handler is atomic; requests are not: a page that awaits an answer  *)
(* goes on handling events.  A call is its dispatch_id and the version of  *)
(* its record (1: phase 1, 2: phase 2).  Screen clocks are abstracted to   *)
(* whether they run.                                                       *)
(***************************************************************************)
EXTENDS Naturals, Sequences, FiniteSets

CONSTANTS
    Calls,        \* dispatches announced while the display is up
    Past,         \* dispatches of earlier days
    NoCall,
    AutoDismiss,  \* the hall display has a countdown, a phone has none
    MaxEvents,    \* bound: events on their way to the display
    MaxAgain,     \* bound: INSERTs repeated for a call announced before
    MaxReloads,   \* bound: page reloads
    MaxReplays    \* bound: replays opened

ASSUME KioskConstantsOK ==
    /\ NoCall \notin Calls \cup Past
    /\ Calls \cap Past = {}
    /\ AutoDismiss \in BOOLEAN
    /\ {MaxEvents, MaxAgain, MaxReloads, MaxReplays} \subseteq Nat

VARIABLES
    announced,  \* the stored dispatches of Calls, oldest first
    ver,        \* [Calls -> 0..2]: version of the stored record
    wire,       \* events published and not yet received, oldest first
    active,     \* activeCall, or NoEntry
    queued,     \* queuedCalls
    reviewing,  \* isReviewMode
    dismissed,  \* dispatch_ids kept in localStorage
    lapsed,     \* calls older than the five minutes of the display
    fetch,      \* the restore request: "sent", "read" by the API, or "done"
    answer,     \* what the API read for it
    loading,    \* the call whose full record the review screen awaits, or NoCall
    copy,       \* the version of it that the API read, 0 before it has
    bounds,     \* [again, reloads, replays]: how often each happened
    taken,      \* history: calls the display took in
    wiped,      \* history: calls that a reload or a replay took off it
    again,      \* history: calls whose INSERT came after they were dismissed
    missed,     \* history: calls an event of which was lost, or came between a request's reading
                \* and its answer, or was past when the console replayed an older copy
    crossed     \* history: a restore or a replay came back to an occupied screen

screen == <<active, queued, reviewing>>
server == <<announced, ver>>
requests == <<fetch, answer, loading, copy>>
history == <<taken, wiped, again, missed, crossed>>
vars == <<server, wire, screen, dismissed, lapsed, requests, bounds, history>>

Entry(c, v, r) == [call |-> c, ver |-> v, review |-> r]
NoEntry == Entry(NoCall, 0, FALSE)
Entries == [call : Calls \cup Past, ver : 1..2, review : BOOLEAN]
Events == [event : {"INSERT", "UPDATE"}, call : Calls, ver : 1..2]
Records == [call : Calls, ver : 1..2]

Stored == {c \in Calls : ver[c] > 0}

Shown == {active.call} \cup {queued[i].call : i \in DOMAIN queued}

\* Calls shown or waiting as such, not as replays.
LiveShown ==
    (IF active.review THEN {} ELSE {active.call}) \cup
    {queued[i].call : i \in {j \in DOMAIN queued : ~queued[j].review}}

TakesIn ==
    /\ taken' = taken \cup (LiveShown' \cap Calls)
    /\ wiped' = wiped \ LiveShown'

KioskTypeOK ==
    /\ announced \in Seq(Calls)
    /\ ver \in [Calls -> 0..2]
    /\ wire \in Seq(Events) /\ Len(wire) <= MaxEvents
    /\ active \in Entries \cup {NoEntry}
    /\ queued \in Seq(Entries)
    /\ reviewing \in BOOLEAN
    /\ dismissed \subseteq Calls
    /\ lapsed \subseteq Calls
    /\ fetch \in {"sent", "read", "done"}
    /\ answer \in Seq(Records)
    /\ loading \in Calls \cup Past \cup {NoCall}
    /\ copy \in 0..2
    /\ bounds \in [again : 0..MaxAgain, reloads : 0..MaxReloads, replays : 0..MaxReplays]
    /\ taken \cup wiped \cup again \cup missed \subseteq Calls
    /\ crossed \in BOOLEAN

\* A page that has just been opened: its restore request is on its way.
Init ==
    /\ announced = <<>>
    /\ ver = [c \in Calls |-> 0]
    /\ wire = <<>>
    /\ active = NoEntry
    /\ queued = <<>>
    /\ reviewing = FALSE
    /\ dismissed = {}
    /\ lapsed = {}
    /\ fetch = "sent"
    /\ answer = <<>>
    /\ loading = NoCall
    /\ copy = 0
    /\ bounds = [again |-> 0, reloads |-> 0, replays |-> 0]
    /\ taken = {}
    /\ wiped = {}
    /\ again = {}
    /\ missed = {}
    /\ crossed = FALSE

-----------------------------------------------------------------------------
(* External: the API and the broker.  Publishing is not retained, and a    *)
(* client that reconnects starts without what it missed.                   *)

Publish(e, c, v) ==
    /\ Len(wire) < MaxEvents
    /\ wire' = Append(wire, [event |-> e, call |-> c, ver |-> v])

Announce(c) ==
    /\ ver[c] = 0
    /\ announced' = Append(announced, c)
    /\ ver' = [ver EXCEPT ![c] = 1]
    /\ Publish("INSERT", c, 1)
    /\ UNCHANGED <<screen, dismissed, lapsed, requests, bounds, history>>

Correct(c) ==
    /\ ver[c] = 1
    /\ ver' = [ver EXCEPT ![c] = 2]
    /\ Publish("UPDATE", c, 2)
    /\ UNCHANGED <<announced, screen, dismissed, lapsed, requests, bounds, history>>

\* The worker's own broadcast of a call the API has announced, or a repetition.
AnnounceAgain(c) ==
    /\ ver[c] > 0
    /\ bounds.again < MaxAgain
    /\ bounds' = [bounds EXCEPT !.again = @ + 1]
    /\ Publish("INSERT", c, ver[c])
    /\ UNCHANGED <<server, screen, dismissed, lapsed, requests, history>>

LoseEvent ==
    /\ wire # <<>>
    /\ wire' = Tail(wire)
    /\ missed' = missed \cup {Head(wire).call}
    /\ UNCHANGED <<server, screen, dismissed, lapsed, requests, bounds,
                   taken, wiped, again, crossed>>

Lapse(c) ==
    /\ ver[c] > 0
    /\ c \notin lapsed
    /\ lapsed' = lapsed \cup {c}
    /\ UNCHANGED <<server, wire, screen, dismissed, requests, bounds, history>>

-----------------------------------------------------------------------------
(* handleInsert and handleUpdate.                                          *)

\* Plausible bug: the spread in the wrong order, { ...newCall, ...current }.
Bug_OldWins(old, new) == Entry(old.call, old.ver, old.review \/ new.review)

\* { ...current, ...newCall }: only a replay says isReview.
Merge(old, new) == Entry(old.call, new.ver, old.review \/ new.review)

MergeQueued(n) ==
    [i \in DOMAIN queued |-> IF queued[i].call = n.call THEN Merge(queued[i], n) ELSE queued[i]]

\* Plausible bug: a call broadcast again is queued once more.
Bug_NoQueueGuard(n) == Append(queued, n)

\* A call that waits already is merged, not stacked up.
Enqueue(n) ==
    IF \E i \in DOMAIN queued : queued[i].call = n.call THEN MergeQueued(n) ELSE Append(queued, n)

\* Plausible bug: any live call takes the screen from the one that has it.
Bug_AlwaysTakesOver(n) == active = NoEntry \/ (active.call # n.call /\ ~n.review)

TakesOver(n) == active = NoEntry \/ (active.review /\ ~n.review)

\* setActiveCall and setQueuedCalls of handleInsert.
Insert(n) ==
    /\ active' = IF TakesOver(n) THEN n
                 ELSE IF active.call = n.call THEN Merge(active, n)
                 ELSE active
    /\ queued' = IF TakesOver(n) \/ active.call = n.call THEN queued ELSE Enqueue(n)

\* Calls that a merge turns into a replay, and so may be replaced unseen.
Replayed(n) == IF n.review THEN {n.call} \cap Calls ELSE {}

ReceiveInsert ==
    LET e == Head(wire) IN
    /\ wire # <<>>
    /\ e.event = "INSERT"
    /\ wire' = Tail(wire)
    /\ reviewing' = FALSE
    /\ Insert(Entry(e.call, e.ver, FALSE))
    /\ TakesIn
    /\ again' = IF e.call \in dismissed THEN again \cup {e.call} ELSE again
    /\ UNCHANGED <<server, dismissed, lapsed, requests, bounds, missed, crossed>>

\* The record that was read for a replay is older than what the event says.
Overtakes(e) == loading = e.call /\ copy \notin {0, e.ver}

\* An UPDATE of a call that is neither shown nor waiting does nothing.
ReceiveUpdate ==
    LET e == Head(wire)
        n == Entry(e.call, e.ver, FALSE) IN
    /\ wire # <<>>
    /\ e.event = "UPDATE"
    /\ wire' = Tail(wire)
    /\ active' = IF active.call = e.call THEN Merge(active, n) ELSE active
    /\ queued' = MergeQueued(n)
    /\ missed' = IF fetch = "read" \/ Overtakes(e) THEN missed \cup {e.call} ELSE missed
    /\ UNCHANGED <<server, reviewing, dismissed, lapsed, requests, bounds,
                   taken, wiped, again, crossed>>

-----------------------------------------------------------------------------
(* dismissActiveCall, advanceToNextCall and the countdown.                 *)

\* Plausible bug: the next call is copied to the screen and left in the queue.
Bug_KeepsHead == queued

AfterNext == Tail(queued)

\* The call on the screen is remembered as dismissed unless it is a replay, and
\* the next one takes its place.
Leave ==
    /\ dismissed' = IF active.review THEN dismissed ELSE dismissed \cup {active.call}
    /\ again' = IF active.review THEN again ELSE again \ {active.call}
    /\ active' = IF queued = <<>> THEN NoEntry ELSE Head(queued)
    /\ queued' = IF queued = <<>> THEN <<>> ELSE AfterNext
    /\ UNCHANGED <<server, wire, reviewing, lapsed, requests, bounds,
                   taken, wiped, missed, crossed>>

\* The strip of a replay stands in for the Dismiss button.
IsReview == reviewing \/ active.review

\* Plausible bug: an empty screen can be dismissed.
Bug_DismissNothing == ~IsReview /\ Leave

Dismiss == active # NoEntry /\ ~IsReview /\ Leave

Advance == active # NoEntry /\ queued # <<>> /\ Leave

ClockRuns == AutoDismiss /\ active # NoEntry /\ ~IsReview

CountdownEnds == ClockRuns /\ Leave

-----------------------------------------------------------------------------
(* A reload, and the restore request of a fresh page.                      *)

Reload ==
    /\ bounds.reloads < MaxReloads
    /\ bounds' = [bounds EXCEPT !.reloads = @ + 1]
    /\ active' = NoEntry
    /\ queued' = <<>>
    /\ reviewing' = FALSE
    /\ loading' = NoCall
    /\ copy' = 0
    /\ fetch' = "sent"
    /\ answer' = <<>>
    /\ wire' = <<>>
    /\ missed' = missed \cup {wire[i].call : i \in DOMAIN wire}
    /\ wiped' = wiped \cup (Shown \cap Calls)
    /\ UNCHANGED <<server, dismissed, lapsed, taken, again, crossed>>

\* GET /api/dispatches, the newest five: the API reads the table now.
ServerReads ==
    /\ fetch = "sent"
    /\ fetch' = "read"
    /\ answer' = [i \in DOMAIN announced |-> [call |-> announced[i], ver |-> ver[announced[i]]]]
    /\ UNCHANGED <<server, wire, screen, dismissed, lapsed, loading, copy, bounds, history>>

\* The answer without the calls that are gone, oldest first: its k-th record is
\* the one that k of those kept come up to.
Without(gone) ==
    LET kept == {i \in DOMAIN answer : answer[i].call \notin gone}
        upTo(i) == Cardinality({j \in kept : j <= i})
    IN  [k \in 1..Cardinality(kept) |-> answer[CHOOSE i \in kept : upTo(i) = k]]

\* Plausible bug: what was dismissed is not read back.
Bug_IgnoresDismissed == Without(lapsed)

\* Neither older than five minutes nor dismissed.
StillLive == Without(lapsed \cup dismissed)

Live(r) == Entry(r.call, r.ver, FALSE)

\* The oldest goes on the screen unless a call is there, the others wait unless
\* one does.
Restore ==
    LET live == StillLive
        rest == [i \in 1..(Len(live) - 1) |-> Live(live[i + 1])]
    IN
    /\ fetch = "read"
    /\ fetch' = "done"
    /\ answer' = <<>>
    /\ active' = IF active = NoEntry /\ live # <<>> THEN Live(live[1]) ELSE active
    /\ queued' = IF Len(live) > 1 /\ queued = <<>> THEN rest ELSE queued
    /\ TakesIn
    /\ crossed' = (crossed \/ (active # NoEntry /\ live # <<>>))
    /\ UNCHANGED <<server, wire, reviewing, dismissed, lapsed, loading, copy, bounds,
                   again, missed>>

\* The API is down, or the answer is no list: MQTT remains.
RestoreFails ==
    /\ fetch # "done"
    /\ fetch' = "done"
    /\ answer' = <<>>
    /\ UNCHANGED <<server, wire, screen, dismissed, lapsed, loading, copy, bounds, history>>

-----------------------------------------------------------------------------
(* A replay from the review screen (DispatchReview.handleReviewCall).      *)

\* The review screen is there while no call is.
OpensReplay(c) ==
    /\ active = NoEntry
    /\ c \in Past \cup Stored
    /\ bounds.replays < MaxReplays
    /\ bounds' = [bounds EXCEPT !.replays = @ + 1]

\* A row of the list is a summary: the full record is asked for.
AskReplay(c) ==
    /\ OpensReplay(c)
    /\ loading = NoCall
    /\ loading' = c
    /\ copy' = 0
    /\ UNCHANGED <<server, wire, screen, dismissed, lapsed, fetch, answer, history>>

\* GET /api/dispatches/<id>: the API reads the record now.
ServerReadsReplay ==
    /\ loading # NoCall
    /\ copy = 0
    /\ copy' = IF loading \in Calls THEN ver[loading] ELSE 1
    /\ UNCHANGED <<server, wire, screen, dismissed, lapsed, fetch, answer, loading, bounds, history>>

\* triggerReviewCall, whatever is on the screen by now.
TriggerReview(n) ==
    /\ reviewing' = TRUE
    /\ Insert(n)
    /\ wiped' = wiped \cup Replayed(n)
    /\ crossed' = (crossed \/ active # NoEntry)
    /\ UNCHANGED <<server, wire, dismissed, lapsed, fetch, answer, taken, again>>

ReplayLoads ==
    /\ loading # NoCall
    /\ copy # 0
    /\ loading' = NoCall
    /\ copy' = 0
    /\ TriggerReview(Entry(loading, copy, TRUE))
    /\ UNCHANGED <<bounds, missed>>

\* Versions the console may hold in full from its own subscription.
CopiesOf(c) == IF c \in Calls THEN 1..ver[c] ELSE {1}

\* The copy is behind the record, and no event that would correct it is to come.
Behind(c, v) ==
    /\ c \in Calls /\ v # ver[c]
    /\ \A i \in DOMAIN wire : wire[i].call = c => wire[i].event # "UPDATE"

\* A row the console holds in full is replayed at once, as it is held.
ReplayCopy(c) ==
    /\ OpensReplay(c)
    /\ \E v \in CopiesOf(c) :
          /\ TriggerReview(Entry(c, v, TRUE))
          /\ missed' = IF Behind(c, v) THEN missed \cup {c} ELSE missed
    /\ UNCHANGED <<loading, copy>>

ReplayFails ==
    /\ loading # NoCall
    /\ loading' = NoCall
    /\ copy' = 0
    /\ UNCHANGED <<server, wire, screen, dismissed, lapsed, fetch, answer, bounds, history>>

\* Screen and queue are emptied.
ExitReview ==
    /\ active # NoEntry
    /\ IsReview
    /\ reviewing' = FALSE
    /\ active' = NoEntry
    /\ queued' = <<>>
    /\ wiped' = wiped \cup (Shown \cap Calls)
    /\ UNCHANGED <<server, wire, dismissed, lapsed, requests, bounds,
                   taken, again, missed, crossed>>

-----------------------------------------------------------------------------
Next ==
    \/ \E c \in Calls : Announce(c)
    \/ \E c \in Calls : Correct(c)
    \/ \E c \in Calls : AnnounceAgain(c)
    \/ LoseEvent
    \/ \E c \in Calls : Lapse(c)
    \/ ReceiveInsert
    \/ ReceiveUpdate
    \/ Dismiss
    \/ Advance
    \/ CountdownEnds
    \/ Reload
    \/ ServerReads
    \/ Restore
    \/ RestoreFails
    \/ \E c \in Calls \cup Past : AskReplay(c)
    \/ ServerReadsReplay
    \/ ReplayLoads
    \/ \E c \in Calls \cup Past : ReplayCopy(c)
    \/ ReplayFails
    \/ ExitReview

Spec == Init /\ [][Next]_vars

-----------------------------------------------------------------------------
(* What the display guarantees.                                            *)

\* One incident, one place: a call neither waits behind itself nor waits twice,
\* however often it is broadcast, unless a restore or a replay came back to a
\* screen that was taken in the meantime.
NoCallTwice ==
    /\ \A i, j \in DOMAIN queued : queued[i].call = queued[j].call => i = j
    /\ ~crossed => \A i \in DOMAIN queued : queued[i].call # active.call

\* A call the display took in is on it, in the queue, or was dismissed: an empty
\* screen hides none, and only a reload or a replay takes one off.
NoneLost ==
    /\ active = NoEntry => queued = <<>>
    /\ taken \subseteq Shown \cup dismissed \cup wiped

\* A call the crew dismissed comes back only with another INSERT, even across
\* reloads and restores whose answers were read before it was dismissed.
StaysDismissed ==
    ~crossed =>
        \A c \in dismissed \ again :
            /\ active.call = c => active.review
            /\ \A i \in DOMAIN queued : queued[i].call = c => queued[i].review

\* A call is shown as it is stored once its events have arrived, live, restored or replayed: an
\* older record is shown for good only when the event that corrects it is lost, comes between the
\* reading of a record and its answer, or is past when the console replays the copy it holds.
ShowsLatest ==
    \A c \in Calls \ missed :
        (\A i \in DOMAIN wire : wire[i].call # c) =>
            /\ active.call = c => active.ver = ver[c]
            /\ \A i \in DOMAIN queued : queued[i].call = c => queued[i].ver = ver[c]
=============================================================================
