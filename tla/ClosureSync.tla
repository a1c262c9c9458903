------------------------------ MODULE ClosureSync ------------------------------
(***************************************************************************)
(* Road closures: the ingestion of two feeds into table road_closures, and *)
(* the outcome of each attempt in a table of its own                       *)
(* (road_closure_service.py).                                              *)
(*                                                                         *)
(* Attempts are made by the hourly daemon and by the admin's POST /sync,   *)
(* which know nothing of each other (routers/road_closures.py).            *)
(* A database session does not flush by itself (autoflush=False): the bulk *)
(* updates of an attempt run on the rows as they were before its upserts.  *)
(* The updates, the flush and the commit of an attempt are one step.       *)
(*                                                                         *)
(* GET /api/road-closures reads the list and the outcome in two queries,    *)
(* under a lock, and keeps the pair for a minute; the caller of an attempt  *)
(* waits for that lock and drops the pair: the daemon after every attempt,  *)
(* the admin's POST after one that raised nothing.                          *)
(*                                                                         *)
(* Of a closure the model keeps its feed, its dates and whether it is      *)
(* active.  Dates are days; one that a notice does not give is a day that   *)
(* never comes.                                                            *)
(***************************************************************************)
EXTENDS Naturals, FiniteSets

CONSTANTS
    Closures,     \* closure_ids
    FeedOf,       \* [Closures -> {"DriveBC", "Municipal"}]
    Dates,        \* the pairs of a first and a last day that notices give
    Retention,    \* 30 days
    MaxDay,       \* bound: days
    Plans         \* bound: [attempts, gets, upsets] of a behaviour: attempts to
                  \* synchronise; requests of the list that find no pair; changes and
                  \* failures of the feeds, failures of the database and restarts of the
                  \* API, together

ASSUME ClosureConstantsOK ==
    /\ FeedOf \in [Closures -> {"DriveBC", "Municipal"}]
    /\ Dates \subseteq Nat \X Nat
    /\ {Retention, MaxDay} \subseteq Nat
    /\ Plans \subseteq [attempts : Nat, gets : Nat, upsets : Nat]

VARIABLES
    day,        \* now
    published,  \* [Closures -> notices]: what the feeds publish
    table,      \* [Closures -> rows]: table road_closures
    status,     \* the single row of road_closure_sync_status, and of the attempt that
                \* wrote it: its now_utc, the notices, whether it was alone
    sync,       \* [Syncers -> attempts in progress]
    get,        \* the GET that holds the lock: the list it has read, if it has read one
    cache,      \* the pair that is served for up to a minute
    left,       \* what the plan of this behaviour has left
    unheard,    \* history: "get", "cache": what was read before an attempt ended whose caller
                \* failed before it could drop the pair
    unread,     \* history: closures taken off the list and not looked for in their feed
    unrecorded  \* history: the table was changed by an attempt that left no outcome

surroundings == <<day, published>>
database == <<table, status>>
history == <<unread, unrecorded>>
serving == <<get, cache, unheard>>
vars == <<surroundings, database, sync, serving, left, history>>

Syncers == {"daemon", "admin"}
Feeds == {"DriveBC", "Municipal"}

NoNotice == [start |-> 0, end |-> 0, given |-> FALSE]
Notice(s, e) == [start |-> s, end |-> e, given |-> TRUE]
Notices == {NoNotice} \cup {Notice(d[1], d[2]) : d \in Dates}

NoRow == [active |-> FALSE, start |-> 0, end |-> 0, upd |-> 0, given |-> FALSE]
\* Plausible bug: local time stored as UTC.
Bug_Row(n, a, u) == [active |-> a, start |-> n.start, end |-> n.end, upd |-> u + 1, given |-> TRUE]

Row(n, a, u) == [active |-> a, start |-> n.start, end |-> n.end, upd |-> u, given |-> TRUE]

\* An attempt in progress: its place in the code, its now_utc, the notices it has
\* gathered, the feeds it read to the end, the rows it looked up.
Quiet == [pc |-> "quiet", now |-> 0, found |-> [c \in Closures |-> NoNotice],
          reached |-> {}, seen |-> [c \in Closures |-> NoRow], ok |-> TRUE, alone |-> TRUE]

NeverTried == [outcome |-> "NOT_ATTEMPTED", now |-> 0, found |-> {}, alone |-> TRUE]

NoGet == [reading |-> FALSE, list |-> {}]
NoCache == [kept |-> FALSE, list |-> {}, outcome |-> "NOT_ATTEMPTED", now |-> 0]

Offered(f) == {c \in Closures : FeedOf[c] = f /\ published[c].given}
Found(s) == {c \in Closures : sync[s].found[c].given}
Active == {c \in Closures : table[c].active}
Expired(d, now) == d.end < now

\* Types; no row and no outcome is stamped with a day to come.
ClosureTypeOK ==
    /\ day \in 0..MaxDay
    /\ published \in [Closures -> Notices]
    /\ \A c \in Closures : table[c] = NoRow \/
          /\ table[c].given
          /\ <<table[c].start, table[c].end>> \in Dates
          /\ table[c].upd <= day
    /\ status.outcome \in {"NOT_ATTEMPTED", "SUCCEEDED", "FAILED"}
    /\ status.now <= day
    /\ status.found \subseteq Closures
    /\ \A s \in Syncers : sync[s].pc = "quiet" => sync[s] = Quiet
    /\ get.list \subseteq Closures /\ cache.list \subseteq Closures
    /\ unheard \subseteq {"get", "cache"}
    /\ unread \cap Active = {}

Init ==
    /\ day = 0
    /\ published \in [Closures -> Notices]
    /\ table = [c \in Closures |-> NoRow]
    /\ status = NeverTried
    /\ sync = [s \in Syncers |-> Quiet]
    /\ get = NoGet
    /\ cache = NoCache
    /\ left \in Plans
    /\ unheard = {}
    /\ unread = {}
    /\ unrecorded = FALSE

Upset ==
    /\ left.upsets > 0
    /\ left' = [left EXCEPT !.upsets = @ - 1]

-----------------------------------------------------------------------------
(* External: time passes, and the feeds publish what they like.            *)

DayPasses ==
    /\ day < MaxDay
    /\ day' = day + 1
    /\ UNCHANGED <<published, database, sync, left, history, serving>>

FeedChanges(c, n) ==
    /\ Upset
    /\ n # published[c]
    /\ published' = [published EXCEPT ![c] = n]
    /\ UNCHANGED <<day, database, sync, history, serving>>

-----------------------------------------------------------------------------
(* An attempt to synchronise.                                              *)

\* check_and_sync_if_stale: nothing is active, or nothing was updated for a day.
Stale ==
    \/ Active = {}
    \/ \A c \in Closures : table[c].given => table[c].upd < day

\* The daemon attempts what is stale, the admin what he likes.  An attempt that
\* runs beside another is not alone, and neither is the other.
Begin(s) ==
    /\ sync[s].pc = "quiet"
    /\ s = "daemon" => Stale
    /\ left.attempts > 0
    /\ left' = [left EXCEPT !.attempts = @ - 1]
    /\ LET others == {o \in Syncers \ {s} : sync[o].pc # "quiet"} IN
       sync' = [o \in Syncers |->
                  IF o = s
                  THEN [Quiet EXCEPT !.pc = "DriveBC", !.now = day, !.alone = (others = {})]
                  ELSE IF o \in others THEN [sync[o] EXCEPT !.alone = FALSE] ELSE sync[o]]
    /\ UNCHANGED <<surroundings, database, history, serving>>

\* One feed after the other.  A feed that fails half-way leaves what it had given;
\* only one that was read to the end counts as reached.
ReadFeed(s) ==
    LET f == sync[s].pc IN
    /\ f \in Feeds
    /\ \E part \in SUBSET Offered(f), whole \in BOOLEAN :
        /\ IF whole THEN part = Offered(f) /\ UNCHANGED left ELSE Upset
        /\ sync' = [sync EXCEPT
              ![s].found = [c \in Closures |-> IF c \in part THEN published[c] ELSE @[c]],
              ![s].reached = IF whole THEN @ \cup {f} ELSE @,
              ![s].pc = IF f = "DriveBC" THEN "Municipal" ELSE "lookup"]
    /\ UNCHANGED <<surroundings, database, history, serving>>

\* No notices at all: the table is kept as it is.
NothingFound(s) ==
    /\ sync[s].pc = "lookup"
    /\ Found(s) = {}
    /\ sync' = [sync EXCEPT ![s].pc = "record"]
    /\ unread' = {c \in unread : FeedOf[c] \notin sync[s].reached}
    /\ UNCHANGED <<surroundings, database, left, unrecorded, serving>>

\* The row of each notice is looked up, and changed in memory.
LookUp(s) ==
    /\ sync[s].pc = "lookup"
    /\ Found(s) # {}
    /\ sync' = [sync EXCEPT ![s].pc = "commit",
                             ![s].seen = [c \in Closures |-> IF c \in Found(s) THEN table[c]
                                                                              ELSE NoRow]]
    /\ UNCHANGED <<surroundings, database, left, history, serving>>

\* Plausible bug: only the closures of a feed that could not be read are missing.
Bug_Missing(s, c) ==
    /\ table[c].active
    /\ table[c].start <= sync[s].now
    /\ c \notin Found(s)
    /\ FeedOf[c] \notin sync[s].reached

\* A closure that has started and is in no notice is taken to be completed.
Missing(s, c) == table[c].active /\ table[c].start <= sync[s].now /\ c \notin Found(s)

\* The bulk updates: missing, past its stored end, kept inactive for too long.
Deactivated(s, c) ==
    Missing(s, c) \/ (table[c].active /\ Expired(table[c], sync[s].now))

Purged(s, c) ==
    /\ table[c].given
    /\ ~table[c].active
    /\ table[c].upd + Retention < sync[s].now

Swept(s, c) ==
    IF Deactivated(s, c) THEN [table[c] EXCEPT !.active = FALSE, !.upd = sync[s].now]
    ELSE IF Purged(s, c) THEN NoRow
    ELSE table[c]

\* The flush: an insert, or an update of the columns that differ from the row as
\* it was looked up.
Flushed(s, c) ==
    LET n == sync[s].found[c]
        seen == sync[s].seen[c]
        active == ~Expired(n, sync[s].now)
    IN  IF c \notin Found(s) THEN Swept(s, c)
        ELSE IF ~seen.given THEN Row(n, active, sync[s].now)
        ELSE IF ~Swept(s, c).given THEN NoRow
        ELSE Row(n, IF active = seen.active THEN Swept(s, c).active ELSE active, sync[s].now)

\* Two attempts insert the same closure: the unique constraint refuses the second.
Refused(s) == \E c \in Found(s) : ~sync[s].seen[c].given /\ table[c].given

\* An update finds no row, because this attempt or another purged it: an error
\* when it is the only one of its kind, unnoticed in a batch.
Vanished(s) == \E c \in Found(s) : sync[s].seen[c].given /\ ~Swept(s, c).given

CommitClosures(s) ==
    /\ sync[s].pc = "commit"
    /\ ~Refused(s)
    /\ table' = [c \in Closures |-> Flushed(s, c)]
    /\ sync' = [sync EXCEPT ![s].pc = "record", ![s].seen = Quiet.seen]
    /\ unread' =
         LET kept == {c \in unread : FeedOf[c] \notin sync[s].reached}
             gone == {c \in Closures : Missing(s, c) /\ FeedOf[c] \notin sync[s].reached}
         IN  (kept \cup gone) \ Active'
    /\ unrecorded' = TRUE
    /\ UNCHANGED <<surroundings, status, left, serving>>

\* The transaction is rolled back, and the exception goes on after the outcome
\* has been recorded.
CommitRaises(s) ==
    /\ sync[s].pc = "commit"
    /\ IF Refused(s) \/ Vanished(s) THEN UNCHANGED left ELSE Upset
    /\ sync' = [sync EXCEPT ![s].pc = "record", ![s].seen = Quiet.seen, ![s].ok = FALSE]
    /\ UNCHANGED <<surroundings, database, history, serving>>

\* Plausible bug: one feed of the two is taken for success.
Bug_Outcome(s) == IF sync[s].ok /\ sync[s].reached # {} THEN "SUCCEEDED" ELSE "FAILED"

Outcome(s) == IF sync[s].ok /\ sync[s].reached = Feeds THEN "SUCCEEDED" ELSE "FAILED"

\* Plausible bug: the daemon drops the pair only after an attempt that raised nothing.
Bug_Ended(s) ==
    IF sync[s].ok THEN [Quiet EXCEPT !.pc = "invalidate", !.ok = sync[s].ok] ELSE Quiet

\* The exception of an attempt is caught for the daemon, whose loop drops the cached pair; it
\* takes the admin's POST past that.
Ended(s) ==
    IF sync[s].ok \/ s = "daemon" THEN [Quiet EXCEPT !.pc = "invalidate", !.ok = sync[s].ok]
                                  ELSE Quiet

\* record_sync_outcome, in a transaction of its own.
RecordOutcome(s) ==
    /\ sync[s].pc = "record"
    /\ status' = [outcome |-> Outcome(s), now |-> sync[s].now, found |-> Found(s),
                  alone |-> sync[s].alone]
    /\ sync' = [sync EXCEPT ![s] = Ended(s)]
    /\ unrecorded' = FALSE
    /\ unheard' = IF s = "admin" /\ ~sync[s].ok /\ cache.kept THEN unheard \cup {"cache"} ELSE unheard
    /\ UNCHANGED <<surroundings, table, left, unread, get, cache>>

\* It swallows its own errors: the outcome before stands.
RecordFails(s) ==
    /\ sync[s].pc = "record"
    /\ Upset
    /\ sync' = [sync EXCEPT ![s] = Ended(s)]
    /\ UNCHANGED <<surroundings, database, serving, history>>

-----------------------------------------------------------------------------
(* What the kiosks are served (routers/road_closures.py).                  *)

LockFree == ~get.reading

\* invalidate_road_closures_cache
Invalidate(s) ==
    /\ sync[s].pc = "invalidate"
    /\ LockFree
    /\ cache' = NoCache
    /\ unheard' = {}
    /\ sync' = [sync EXCEPT ![s] = Quiet]
    /\ UNCHANGED <<surroundings, database, get, left, history>>

\* check_and_sync_if_stale reads the outcome of an attempt that raised nothing; when it cannot,
\* the loop goes to sleep with the pair as it was.
ReadBackFails ==
    /\ sync["daemon"].pc = "invalidate"
    /\ sync["daemon"].ok
    /\ Upset
    /\ sync' = [sync EXCEPT !["daemon"] = Quiet]
    /\ unheard' = unheard \cup (IF get.reading THEN {"get"} ELSE {})
                           \cup (IF cache.kept THEN {"cache"} ELSE {})
    /\ UNCHANGED <<surroundings, database, get, cache, history>>

\* A request finds no pair, or one that is a minute old, and takes the lock.
ReadList ==
    /\ LockFree
    /\ left.gets > 0
    /\ left' = [left EXCEPT !.gets = @ - 1]
    /\ get' = [reading |-> TRUE, list |-> Active]
    /\ UNCHANGED <<surroundings, database, sync, cache, unheard, history>>

ReadOutcome ==
    /\ get.reading
    /\ cache' = [kept |-> TRUE, list |-> get.list, outcome |-> status.outcome, now |-> status.now]
    /\ get' = NoGet
    /\ unheard' = IF "get" \in unheard THEN {"cache"} ELSE {}
    /\ UNCHANGED <<surroundings, database, sync, left, history>>

\* The container restarts: the database is all that is left.
Restart ==
    /\ Upset
    /\ sync' = [s \in Syncers |-> Quiet]
    /\ get' = NoGet
    /\ cache' = NoCache
    /\ unheard' = {}
    /\ UNCHANGED <<surroundings, database, history>>

-----------------------------------------------------------------------------
Next ==
    \/ DayPasses
    \/ \E c \in Closures, n \in Notices : FeedChanges(c, n)
    \/ \E s \in Syncers : Begin(s)
    \/ \E s \in Syncers : ReadFeed(s)
    \/ \E s \in Syncers : NothingFound(s)
    \/ \E s \in Syncers : LookUp(s)
    \/ \E s \in Syncers : CommitClosures(s)
    \/ \E s \in Syncers : CommitRaises(s)
    \/ \E s \in Syncers : RecordOutcome(s)
    \/ \E s \in Syncers : RecordFails(s)
    \/ \E s \in Syncers : Invalidate(s)
    \/ ReadBackFails
    \/ ReadList
    \/ ReadOutcome
    \/ Restart

Spec == Init /\ [][Next]_vars

-----------------------------------------------------------------------------
(* What the list and its flag guarantee.                                   *)

\* The row of the outcome speaks of the table: an attempt that ran alone wrote it,
\* and none has changed the table since without leaving its own.
Settled == status.alone /\ ~unrecorded

\* No flag, no leftovers: after a success the list holds no closure that has
\* started and that the feeds did not give, as long as they gave any.
ListFollowsFeeds ==
    Settled /\ status.outcome = "SUCCEEDED" /\ status.found # {} =>
        \A c \in Active : c \in status.found \/ table[c].start > status.now

\* A closure that was taken off the list because a feed could not be read is never
\* passed over in silence: the flag stays up until its feed has been read.
NoQuietRemoval ==
    Settled /\ status.outcome = "SUCCEEDED" => unread = {}

\* What get_road_closures says (routers/road_closures.py:147-148): no flag and no
\* closures means that the feeds were reached and the City has none.
AllClearIsTrue ==
    Settled /\ status.outcome = "SUCCEEDED" /\ Active = {} =>
        \A c \in status.found : table[c].given /\ Expired(table[c], status.now)

\* What is served is never older than the last attempt: once no attempt stands between its
\* commit and its invalidation, a cached pair holds the list in the table and the outcome beside
\* it, whichever thread read what before, and after a failed attempt of the daemon too
\* (routers/road_closures.py:282-285).  Excepted is a pair read before an attempt whose caller
\* failed before it could drop the pair: the admin's POST that raised, and the daemon that could
\* not read the outcome back.
CacheFollowsAttempts ==
    (\A s \in Syncers : sync[s].pc \notin {"record", "invalidate"}) /\ cache.kept /\ "cache" \notin unheard =>
        /\ cache.list = Active
        /\ <<cache.outcome, cache.now>> = <<status.outcome, status.now>>
=============================================================================
