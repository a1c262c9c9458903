---------------------------- MODULE ClosureSyncProofs ----------------------------
(***************************************************************************)
(* Proofs about ClosureSync, for every set of closures, assignment to the  *)
(* feeds, set of dates, time of retention and plan of attempts, requests   *)
(* and failures.                                                           *)
(***************************************************************************)
EXTENDS ClosureSync, TLAPS

(***************************************************************************)
(* Types.                                                                  *)
(***************************************************************************)

Places == {"quiet", "DriveBC", "Municipal", "lookup", "commit", "record", "invalidate"}
NoticeRecords == [start : Nat, end : Nat, given : BOOLEAN]
Rows == [active : BOOLEAN, start : Nat, end : Nat, upd : Nat, given : BOOLEAN]
Outcomes == {"NOT_ATTEMPTED", "SUCCEEDED", "FAILED"}
Attempts == [pc : Places, now : Nat, found : [Closures -> Notices], reached : SUBSET Feeds,
             seen : [Closures -> Rows], ok : BOOLEAN, alone : BOOLEAN]

RowOK(r) == r = NoRow \/ (r.given /\ <<r.start, r.end>> \in Dates /\ r.upd <= day)

TableType ==
    /\ day \in 0..MaxDay
    /\ published \in [Closures -> Notices]
    /\ table \in [Closures -> Rows]
    /\ \A c \in Closures : RowOK(table[c])

StatusType ==
    /\ status \in [outcome : Outcomes, now : Nat, found : SUBSET Closures, alone : BOOLEAN]
    /\ status.now <= day

SyncType ==
    /\ sync \in [Syncers -> Attempts]
    /\ \A s \in Syncers : /\ sync[s].now <= day
                          /\ sync[s].pc = "quiet" => sync[s] = Quiet
                          /\ sync[s].pc \notin {"record", "invalidate"} => sync[s].ok

RestType ==
    /\ get \in [reading : BOOLEAN, list : SUBSET Closures]
    /\ cache \in [kept : BOOLEAN, list : SUBSET Closures, outcome : Outcomes, now : Nat]
    /\ unheard \subseteq {"get", "cache"}
    /\ unread \subseteq Closures
    /\ unread \cap Active = {}

Type == TableType /\ StatusType /\ SyncType /\ RestType

LEMMA NoticeFacts ==
    /\ NoNotice \in Notices
    /\ \A n \in Notices : n \in NoticeRecords /\ (n.given => <<n.start, n.end>> \in Dates)
<1>1. \A d \in Dates : d = <<d[1], d[2]>> /\ d[1] \in Nat /\ d[2] \in Nat
  BY ClosureConstantsOK
<1>2. \A d \in Dates : /\ Notice(d[1], d[2]) \in NoticeRecords
                       /\ <<Notice(d[1], d[2]).start, Notice(d[1], d[2]).end>> \in Dates
  BY <1>1 DEF Notice, NoticeRecords
<1>3. NoNotice \in NoticeRecords /\ ~NoNotice.given
  BY DEF NoNotice, NoticeRecords
<1> QED
  BY <1>2, <1>3 DEF Notices

LEMMA QuietFacts ==
    /\ Quiet \in Attempts
    /\ Quiet.pc = "quiet" /\ Quiet.now = 0 /\ Quiet.ok /\ Quiet.alone
    /\ Quiet.seen = [c \in Closures |-> NoRow] /\ Quiet.seen \in [Closures -> Rows]
<1>1. NoRow \in Rows
  BY DEF NoRow, Rows
<1> QED
  BY <1>1, NoticeFacts DEF Quiet, Attempts, Places

LEMMA InitType == Init => Type
<1> SUFFICES ASSUME Init PROVE Type
  OBVIOUS
<1>1. NoRow \in Rows /\ ~NoRow.active
  BY DEF NoRow, Rows
<1>2. TableType
  BY <1>1, ClosureConstantsOK DEF Init, TableType, RowOK
<1>3. StatusType
  BY DEF Init, StatusType, NeverTried, Outcomes
<1>4. SyncType
  BY QuietFacts DEF Init, SyncType
<1>5. RestType
  BY DEF Init, RestType, NoGet, NoCache, Outcomes
<1> QED
  BY <1>2, <1>3, <1>4, <1>5 DEF Type

\* What a commit writes is a row, or none.
LEMMA FlushedType ==
    ASSUME Type, NEW s \in Syncers, NEW c \in Closures
    PROVE  Flushed(s, c) \in Rows /\ RowOK(Flushed(s, c))
<1>1. /\ table[c] \in Rows /\ RowOK(table[c])
      /\ sync[s].found[c] \in Notices /\ sync[s].now \in Nat /\ sync[s].now <= day
      /\ sync[s].seen[c] \in Rows /\ NoRow \in Rows
  BY DEF Type, TableType, SyncType, Attempts, NoRow, Rows
<1>2. Swept(s, c) \in Rows /\ RowOK(Swept(s, c))
  <2>1. CASE Deactivated(s, c)
    <3>1. table[c].active /\ Swept(s, c) = [table[c] EXCEPT !.active = FALSE, !.upd = sync[s].now]
      BY <2>1 DEF Swept, Deactivated, Missing
    <3>2. table[c] # NoRow
      BY <3>1 DEF NoRow
    <3> QED
      BY <1>1, <3>1, <3>2 DEF RowOK, Rows
  <2>2. CASE ~Deactivated(s, c)
    BY <1>1, <2>2 DEF Swept, RowOK
  <2> QED
    BY <2>1, <2>2
<1>3. ASSUME c \in Found(s), NEW a \in BOOLEAN
      PROVE  Row(sync[s].found[c], a, sync[s].now) \in Rows
             /\ RowOK(Row(sync[s].found[c], a, sync[s].now))
  BY <1>1, <1>3, NoticeFacts DEF Found, Row, Rows, RowOK, NoticeRecords
<1> QED
  BY <1>1, <1>2, <1>3 DEF Flushed, Rows, RowOK

LEMMA NextType == Type /\ [Next]_vars => Type'
<1> SUFFICES ASSUME Type, [Next]_vars PROVE Type'
  OBVIOUS
<1> USE DEF Type
<1>a. day \in Nat /\ \A s \in Syncers : sync[s] \in Attempts
  BY ClosureConstantsOK DEF TableType, SyncType
<1>1. CASE DayPasses
  BY <1>1, <1>a, ClosureConstantsOK
  DEF DayPasses, database, history, serving, TableType, StatusType, SyncType, RestType, RowOK, Rows,
      Attempts, Active
<1>2. ASSUME NEW c \in Closures, NEW n \in Notices, FeedChanges(c, n) PROVE Type'
  BY <1>2 DEF FeedChanges, database, history, serving, TableType, StatusType, SyncType, RestType,
     RowOK, Active
\* Only an attempt moves on.
<1>b. ASSUME UNCHANGED <<surroundings, database, serving>>, SyncType',
             unread' \subseteq unread
      PROVE  Type'
  BY <1>b DEF surroundings, database, serving, TableType, StatusType, RestType, RowOK, Active
<1>d. ASSUME NEW s \in Syncers, NEW r \in Attempts, sync' = [sync EXCEPT ![s] = r], day' = day,
             r.now <= day, r.pc # "quiet", r.pc \notin {"record", "invalidate"} => r.ok
      PROVE  SyncType'
  BY <1>d DEF SyncType
<1>3. ASSUME NEW s \in Syncers, Begin(s) PROVE Type'
  <2>1. [Quiet EXCEPT !.pc = "DriveBC", !.now = day,
                      !.alone = ({o \in Syncers \ {s} : sync[o].pc # "quiet"} = {})] \in Attempts
    BY <1>a, QuietFacts DEF Attempts, Places
  <2>2. SyncType'
    <3> DEFINE begun == [Quiet EXCEPT !.pc = "DriveBC", !.now = day,
                             !.alone = ({o \in Syncers \ {s} : sync[o].pc # "quiet"} = {})]
    <3>1. begun \in Attempts /\ begun.now = day /\ begun.pc = "DriveBC" /\ begun.ok
      BY <2>1, QuietFacts DEF Quiet
    <3>2. /\ day' = day
          /\ sync' = [o \in Syncers |->
                  IF o = s THEN begun
                  ELSE IF o \in {p \in Syncers \ {s} : sync[p].pc # "quiet"}
                       THEN [sync[o] EXCEPT !.alone = FALSE] ELSE sync[o]]
      BY <1>3 DEF Begin, surroundings
    <3>3. ASSUME NEW o \in Syncers
          PROVE  /\ sync'[o] \in Attempts /\ sync'[o].now <= day
                 /\ sync'[o].pc = "quiet" => sync'[o] = Quiet
                 /\ sync'[o].pc \notin {"record", "invalidate"} => sync'[o].ok
      <4> HIDE DEF begun
      <4>1. CASE o = s
        BY <1>a, <3>1, <3>2, <4>1
      <4>2. CASE o # s /\ sync[o].pc # "quiet"
        BY <1>a, <3>2, <4>2 DEF SyncType, Attempts
      <4>3. CASE o # s /\ sync[o].pc = "quiet"
        BY <1>a, <3>2, <4>3 DEF SyncType
      <4> QED
        BY <4>1, <4>2, <4>3
    <3> HIDE DEF begun
    <3> QED
      BY <3>2, <3>3 DEF SyncType
  <2> QED
    BY <1>3, <1>b, <2>2 DEF Begin, history
<1>4. ASSUME NEW s \in Syncers, ReadFeed(s) PROVE Type'
  <2>1. PICK part \in SUBSET Offered(sync[s].pc), whole \in BOOLEAN :
              sync' = [sync EXCEPT
                 ![s].found = [c \in Closures |-> IF c \in part THEN published[c] ELSE @[c]],
                 ![s].reached = IF whole THEN @ \cup {sync[s].pc} ELSE @,
                 ![s].pc = IF sync[s].pc = "DriveBC" THEN "Municipal" ELSE "lookup"]
    BY <1>4 DEF ReadFeed
  <2>2. sync[s].pc \in Feeds /\ surroundings' = surroundings
    BY <1>4 DEF ReadFeed
  <2>3. [c \in Closures |-> IF c \in part THEN published[c] ELSE sync[s].found[c]]
           \in [Closures -> Notices]
    BY <1>a DEF TableType, Attempts
  <2> DEFINE r == [sync[s] EXCEPT
                     !.found = [c \in Closures |-> IF c \in part THEN published[c] ELSE @[c]],
                     !.reached = IF whole THEN @ \cup {sync[s].pc} ELSE @,
                     !.pc = IF sync[s].pc = "DriveBC" THEN "Municipal" ELSE "lookup"]
  <2>5. r \in Attempts /\ r.now = sync[s].now /\ r.ok = sync[s].ok /\ r.pc \in {"Municipal", "lookup"}
    BY <1>a, <2>2, <2>3 DEF Attempts, Places, Feeds
  <2>6. sync' = [sync EXCEPT ![s] = r] /\ day' = day
    BY <1>a, <2>1, <2>2 DEF SyncType, surroundings
  <2> HIDE DEF r
  <2>4. SyncType'
    BY <1>d, <2>2, <2>5, <2>6 DEF SyncType, Feeds
  <2> QED
    BY <1>4, <1>b, <2>4 DEF ReadFeed, history
<1>5. ASSUME NEW s \in Syncers, NothingFound(s) PROVE Type'
  <2> DEFINE r == [sync[s] EXCEPT !.pc = "record"]
  <2>2. r \in Attempts /\ r.now = sync[s].now /\ r.ok = sync[s].ok /\ r.pc = "record"
    BY <1>a DEF Attempts, Places
  <2>3. sync' = [sync EXCEPT ![s] = r] /\ day' = day /\ sync[s].pc = "lookup"
    BY <1>5 DEF NothingFound, SyncType, surroundings
  <2> HIDE DEF r
  <2>1. SyncType'
    BY <1>d, <2>2, <2>3 DEF SyncType
  <2> QED
    BY <1>5, <1>b, <2>1 DEF NothingFound
<1>6. ASSUME NEW s \in Syncers, LookUp(s) PROVE Type'
  <2>1. [c \in Closures |-> IF c \in Found(s) THEN table[c] ELSE NoRow] \in [Closures -> Rows]
    BY DEF TableType, NoRow, Rows
  <2> DEFINE r == [sync[s] EXCEPT !.pc = "commit",
                      !.seen = [c \in Closures |-> IF c \in Found(s) THEN table[c] ELSE NoRow]]
  <2>3. r \in Attempts /\ r.now = sync[s].now /\ r.ok = sync[s].ok /\ r.pc = "commit"
    BY <1>a, <2>1 DEF Attempts, Places
  <2>4. sync' = [sync EXCEPT ![s] = r] /\ day' = day /\ sync[s].pc = "lookup"
    BY <1>6 DEF LookUp, SyncType, surroundings
  <2> HIDE DEF r
  <2>2. SyncType'
    BY <1>d, <2>3, <2>4 DEF SyncType
  <2> QED
    BY <1>6, <1>b, <2>2 DEF LookUp, history
<1>7. ASSUME NEW s \in Syncers, CommitClosures(s) PROVE Type'
  <2>1. TableType'
    BY <1>7, FlushedType DEF CommitClosures, TableType, RowOK, surroundings
  <2> DEFINE r == [sync[s] EXCEPT !.pc = "record", !.seen = Quiet.seen]
  <2>4. r \in Attempts /\ r.now = sync[s].now /\ r.ok = sync[s].ok /\ r.pc = "record"
    BY <1>a, QuietFacts DEF Attempts, Places
  <2>5. sync' = [sync EXCEPT ![s] = r] /\ day' = day
    BY <1>7 DEF CommitClosures, SyncType, surroundings
  <2> HIDE DEF r
  <2>2. SyncType'
    BY <1>d, <2>4, <2>5 DEF SyncType
  <2>3. RestType' /\ StatusType'
    BY <1>7 DEF CommitClosures, RestType, StatusType, serving, surroundings
  <2> QED
    BY <2>1, <2>2, <2>3
<1>8. ASSUME NEW s \in Syncers, CommitRaises(s) PROVE Type'
  <2>1. SyncType'
    BY <1>8, <1>a, QuietFacts DEF CommitRaises, SyncType, Attempts, Places, surroundings
  <2> QED
    BY <1>8, <1>b, <2>1 DEF CommitRaises, history
<1>c. ASSUME NEW s \in Syncers
      PROVE  /\ Ended(s) \in Attempts /\ Ended(s).now <= day
             /\ Ended(s).pc = "quiet" => Ended(s) = Quiet
             /\ Ended(s).pc # "record"
             /\ Ended(s).pc # "invalidate" => Ended(s).ok
  <2>1. sync[s].ok \in BOOLEAN
    BY <1>a DEF Attempts
  <2>2. CASE sync[s].ok \/ s = "daemon"
    <3>1. Ended(s) = [Quiet EXCEPT !.pc = "invalidate", !.ok = sync[s].ok]
      BY <2>2 DEF Ended
    <3>2. Ended(s) \in Attempts /\ Ended(s).pc = "invalidate" /\ Ended(s).now = 0
      BY <2>1, <3>1, QuietFacts DEF Attempts, Places
    <3> QED
      BY <1>a, <3>2
  <2>3. CASE ~(sync[s].ok \/ s = "daemon")
    BY <1>a, <2>3, QuietFacts DEF Ended
  <2> QED
    BY <2>2, <2>3
<1>9. ASSUME NEW s \in Syncers, RecordOutcome(s) PROVE Type'
  <2>1. SyncType'
    BY <1>9, <1>a, <1>c DEF RecordOutcome, SyncType, surroundings
  <2>2. StatusType'
    BY <1>9, <1>a DEF RecordOutcome, StatusType, SyncType, Attempts, surroundings, Outcome, Outcomes,
       Found
  <2>3. TableType' /\ RestType'
    BY <1>9 DEF RecordOutcome, TableType, RestType, RowOK, surroundings, serving, Active
  <2> QED
    BY <2>1, <2>2, <2>3
<1>10. ASSUME NEW s \in Syncers, RecordFails(s) PROVE Type'
  <2>1. SyncType'
    BY <1>10, <1>a, <1>c DEF RecordFails, SyncType, surroundings
  <2> QED
    BY <1>10, <1>b, <2>1 DEF RecordFails, history
<1>11. ASSUME NEW s \in Syncers, Invalidate(s) PROVE Type'
  BY <1>11, <1>a, QuietFacts
  DEF Invalidate, NoCache, surroundings, database, history, TableType, StatusType, SyncType, RestType,
      RowOK, Active, Outcomes
<1>16. CASE ReadBackFails
  <2>1. SyncType'
    BY <1>16, <1>a, QuietFacts DEF ReadBackFails, SyncType, Syncers, surroundings
  <2>2. TableType' /\ StatusType' /\ RestType'
    BY <1>16 DEF ReadBackFails, TableType, StatusType, RestType, RowOK, surroundings, database, history,
       Active
  <2> QED
    BY <2>1, <2>2
<1>12. CASE ReadList
  BY <1>12
  DEF ReadList, surroundings, database, history, TableType, StatusType, SyncType, RestType, RowOK,
      Active
<1>13. CASE ReadOutcome
  BY <1>13
  DEF ReadOutcome, NoGet, surroundings, database, history, TableType, StatusType, SyncType, RestType,
      RowOK, Active
<1>14. CASE Restart
  BY <1>14, <1>a, QuietFacts
  DEF Restart, NoGet, NoCache, surroundings, database, history, TableType, StatusType, SyncType,
      RestType, RowOK, Active, Outcomes
<1>15. CASE UNCHANGED vars
  BY <1>15
  DEF vars, surroundings, database, history, serving, TableType, StatusType, SyncType, RestType, RowOK,
      Active
<1> QED
  BY <1>1, <1>2, <1>3, <1>4, <1>5, <1>6, <1>7, <1>8, <1>9, <1>10, <1>11, <1>12, <1>13, <1>14, <1>15,
     <1>16
  DEF Next

LEMMA AlwaysType == Spec => []Type
  BY InitType, NextType, PTL DEF Spec

\* ClosureTypeOK: every row gives dates that a notice gave, no row and no outcome is stamped with
\* a day to come, and what is missing is not on the list (road_closure_service.py).
THEOREM ClosureTypeCorrect == Spec => []ClosureTypeOK
<1>1. Type => ClosureTypeOK
  BY DEF Type, TableType, StatusType, SyncType, RestType, RowOK, ClosureTypeOK, NoRow, Outcomes
<1> QED
  BY AlwaysType, <1>1, PTL

(***************************************************************************)
(* The cached pair.  An attempt whose end will drop it is pending from its *)
(* commit on, or from the exception that rolled the commit back; the       *)
(* admin's attempt that raised has changed nothing and drops nothing.      *)
(***************************************************************************)

Pending(s) ==
    sync[s].pc = "invalidate" \/ (sync[s].pc = "record" /\ (sync[s].ok \/ s = "daemon"))

CacheInv ==
    (\A s \in Syncers : ~Pending(s)) =>
        /\ get.reading /\ "get" \notin unheard => get.list = Active
        /\ cache.kept /\ "cache" \notin unheard =>
              cache.list = Active /\ cache.outcome = status.outcome /\ cache.now = status.now

LEMMA InitCache == Init => CacheInv
  BY DEF Init, CacheInv, NoGet, NoCache

LEMMA NextCache == Type /\ CacheInv /\ [Next]_vars => CacheInv'
<1> SUFFICES ASSUME Type, CacheInv, [Next]_vars PROVE CacheInv'
  OBVIOUS
<1>a. /\ sync \in [Syncers -> Attempts]
      /\ \A s \in Syncers : /\ sync[s] \in Attempts
                            /\ sync[s].pc \notin {"record", "invalidate"} => sync[s].ok
  BY DEF Type, SyncType
\* The table, the outcome and the pair stay, and no attempt that was pending ceases to be.
<1>b. ASSUME UNCHANGED <<table, status, get, cache, unheard>>,
             \A s \in Syncers : Pending(s) => Pending(s)'
      PROVE  CacheInv'
  BY <1>b DEF CacheInv, Active
<1>1. CASE DayPasses \/ \E c \in Closures, n \in Notices : FeedChanges(c, n)
  BY <1>1, <1>b DEF DayPasses, FeedChanges, database, serving, Pending
<1>2. ASSUME NEW s \in Syncers, Begin(s) \/ ReadFeed(s) \/ NothingFound(s) \/ LookUp(s)
                                \/ CommitRaises(s)
      PROVE  CacheInv'
  <2>1. sync[s].pc \notin {"record", "invalidate"}
    BY <1>2 DEF Begin, ReadFeed, NothingFound, LookUp, CommitRaises, Feeds
  <2>2. \A o \in Syncers \ {s} : sync'[o].pc = sync[o].pc /\ sync'[o].ok = sync[o].ok
    <3>1. CASE Begin(s)
      BY <1>a, <3>1 DEF Begin, Attempts
    <3>2. CASE ~Begin(s)
      BY <1>2, <1>a, <3>2 DEF ReadFeed, NothingFound, LookUp, CommitRaises
    <3> QED
      BY <3>1, <3>2
  <2> QED
    BY <1>2, <1>b, <2>1, <2>2
    DEF Begin, ReadFeed, NothingFound, LookUp, CommitRaises, database, serving, Pending
<1>3. ASSUME NEW s \in Syncers, CommitClosures(s) PROVE CacheInv'
  <2>1. Pending(s)'
    BY <1>3, <1>a DEF CommitClosures, Pending, Attempts
  <2> QED
    BY <2>1 DEF CacheInv
<1>4. ASSUME NEW s \in Syncers, RecordOutcome(s) \/ RecordFails(s) PROVE CacheInv'
  <2>1. sync[s].pc = "record" /\ sync' = [sync EXCEPT ![s] = Ended(s)]
        /\ UNCHANGED <<table, get, cache>>
    BY <1>4 DEF RecordOutcome, RecordFails, database, serving
  <2>2. CASE sync[s].ok \/ s = "daemon"
    <3>1. Ended(s).pc = "invalidate"
      BY <2>2, QuietFacts DEF Ended, Attempts
    <3>2. Pending(s)'
      BY <1>a, <2>1, <3>1 DEF Pending
    <3> QED
      BY <3>2 DEF CacheInv
  <2>3. CASE ~(sync[s].ok \/ s = "daemon")
    <3>1. ~Pending(s) /\ \A o \in Syncers \ {s} : Pending(o) => Pending(o)'
      BY <1>a, <2>1, <2>3 DEF Pending
    <3>2. \/ UNCHANGED <<status, unheard>>
          \/ unheard' = unheard /\ ~cache.kept
          \/ unheard' = unheard \cup {"cache"}
      <4>1. CASE RecordOutcome(s)
        <5>1. s = "admin"
          BY <2>3 DEF Syncers
        <5> QED
          BY <2>3, <4>1, <5>1 DEF RecordOutcome
      <4> QED
        BY <1>4, <4>1 DEF RecordFails, database, serving
    <3> QED
      BY <2>1, <3>1, <3>2 DEF CacheInv, Active
  <2> QED
    BY <2>2, <2>3
<1>10. CASE ReadBackFails
  <2>1. /\ get.reading => "get" \in unheard'
        /\ cache.kept => "cache" \in unheard'
        /\ get' = get /\ cache' = cache
    BY <1>10 DEF ReadBackFails
  <2> QED
    BY <2>1 DEF CacheInv
<1>5. ASSUME NEW s \in Syncers, Invalidate(s) PROVE CacheInv'
  BY <1>5 DEF Invalidate, LockFree, NoCache, CacheInv
<1>6. CASE ReadList
  BY <1>6 DEF ReadList, CacheInv, database, Active, Pending
<1>7. CASE ReadOutcome
  BY <1>7 DEF ReadOutcome, NoGet, CacheInv, database, Active, Pending
<1>8. CASE Restart
  BY <1>8 DEF Restart, NoGet, NoCache, CacheInv
<1>9. CASE UNCHANGED vars
  BY <1>9, <1>b DEF vars, database, serving, Pending
<1> QED
  BY <1>1, <1>2, <1>3, <1>4, <1>5, <1>6, <1>7, <1>8, <1>9, <1>10 DEF Next

\* CacheFollowsAttempts: with no attempt between its commit and its invalidation, a cached pair
\* is the list and the outcome of the database, unless it was read before an attempt whose caller
\* failed before it could drop the pair (routers/road_closures.py, invalidate_road_closures_cache,
\* run_periodic_road_closure_sync and get_road_closures).
THEOREM CacheFollowsAttemptsCorrect == Spec => []CacheFollowsAttempts
<1>1. CacheInv => CacheFollowsAttempts
  BY DEF CacheInv, Pending, CacheFollowsAttempts
<1> QED
  BY AlwaysType, InitCache, NextCache, <1>1, PTL DEF Spec

(***************************************************************************)
(* What an outcome says.  An attempt that is alone has no other beside it, *)
(* so that what holds when it commits still holds when its outcome is      *)
(* recorded; and an outcome that speaks of the table is of that attempt.   *)
(***************************************************************************)

NoneBeside ==
    \A s \in Syncers : sync[s].pc \notin {"quiet", "invalidate"} /\ sync[s].alone =>
        \A o \in Syncers \ {s} : sync[o].pc = "quiet"

\* What is right once an attempt has read both feeds and changed the table.
Followed(found, now) == \A c \in Active : c \in found \/ table[c].start > now

OutcomeInv ==
    /\ NoneBeside
    /\ \A s \in Syncers :
         sync[s].pc = "record" /\ sync[s].alone /\ sync[s].ok =>
            /\ sync[s].reached = Feeds => unread = {}
            /\ Found(s) # {} => Followed(Found(s), sync[s].now)
    /\ Settled /\ status.outcome = "SUCCEEDED" =>
         /\ unread = {}
         /\ status.found # {} => Followed(status.found, status.now)

LEMMA InitOutcome == Init => OutcomeInv
  BY QuietFacts DEF Init, OutcomeInv, NoneBeside, NeverTried, Settled

LEMMA NextOutcome == Type /\ OutcomeInv /\ [Next]_vars => OutcomeInv'
<1> SUFFICES ASSUME Type, OutcomeInv, [Next]_vars PROVE OutcomeInv'
  OBVIOUS
<1>a. /\ sync \in [Syncers -> Attempts]
      /\ \A s \in Syncers : sync[s] \in Attempts
      /\ NoneBeside
      /\ unread \subseteq Closures
      /\ \A c \in Closures : FeedOf[c] \in Feeds
  BY ClosureConstantsOK DEF Type, SyncType, RestType, OutcomeInv, Feeds
\* An attempt that was under way goes on, or ends.
<1>b. ASSUME NEW s \in Syncers, NEW r, sync' = [sync EXCEPT ![s] = r],
             \/ r.pc = "quiet"
             \/ /\ sync[s].pc \notin {"quiet", "invalidate"}
                /\ r.pc = "invalidate" \/ r.alone = sync[s].alone
      PROVE  NoneBeside'
  BY <1>a, <1>b DEF NoneBeside
\* No attempt comes to record, and the table and the outcome stay.
<1>c. ASSUME UNCHANGED <<table, status, unrecorded>>, unread' = unread, NoneBeside',
             \A s \in Syncers : sync'[s].pc = "record" /\ sync'[s].alone /\ sync'[s].ok =>
                /\ sync[s].pc = "record" /\ sync[s].alone /\ sync[s].ok
                /\ sync'[s].reached = sync[s].reached /\ sync'[s].found = sync[s].found
                /\ sync'[s].now = sync[s].now
      PROVE  OutcomeInv'
  BY <1>c DEF OutcomeInv, Followed, Settled, Active, Found
<1>1. CASE DayPasses \/ (\E c \in Closures, n \in Notices : FeedChanges(c, n)) \/ ReadList \/ ReadOutcome
           \/ UNCHANGED vars
  BY <1>1, <1>a, <1>c DEF DayPasses, FeedChanges, ReadList, ReadOutcome, database, history, vars, NoneBeside
<1>2. ASSUME NEW s \in Syncers, Begin(s) PROVE OutcomeInv'
  <2> DEFINE others == {o \in Syncers \ {s} : sync[o].pc # "quiet"}
  <2>1. /\ sync'[s].pc = "DriveBC" /\ sync'[s].alone = (others = {})
        /\ \A o \in Syncers \ {s} : sync'[o] = IF o \in others THEN [sync[o] EXCEPT !.alone = FALSE]
                                              ELSE sync[o]
    BY <1>2, QuietFacts DEF Begin, Attempts
  <2>2. \A o \in Syncers \ {s} :
          \/ sync'[o] = sync[o] /\ sync[o].pc = "quiet"
          \/ sync'[o].pc = sync[o].pc /\ sync[o].pc # "quiet" /\ ~sync'[o].alone
    BY <1>a, <2>1 DEF Attempts
  <2>3. NoneBeside'
    BY <1>a, <2>1, <2>2 DEF NoneBeside
  <2> QED
    BY <1>2, <1>c, <2>1, <2>2, <2>3 DEF Begin, database, history
<1>3. ASSUME NEW s \in Syncers, ReadFeed(s) \/ LookUp(s) \/ CommitRaises(s) PROVE OutcomeInv'
  <2>1. /\ sync[s].pc \notin {"quiet", "invalidate"} /\ sync'[s].alone = sync[s].alone
        /\ sync'[s].pc = "record" => ~sync'[s].ok
    <3>1. CASE ReadFeed(s)
      <4>1. PICK part \in SUBSET Offered(sync[s].pc), whole \in BOOLEAN :
                  sync' = [sync EXCEPT
                     ![s].found = [c \in Closures |-> IF c \in part THEN published[c] ELSE @[c]],
                     ![s].reached = IF whole THEN @ \cup {sync[s].pc} ELSE @,
                     ![s].pc = IF sync[s].pc = "DriveBC" THEN "Municipal" ELSE "lookup"]
        BY <3>1 DEF ReadFeed
      <4>2. sync[s].pc \in {"DriveBC", "Municipal"}
        BY <3>1 DEF ReadFeed, Feeds
      <4>3. sync'[s].alone = sync[s].alone /\ sync'[s].pc \in {"Municipal", "lookup"}
        BY <1>a, <4>1 DEF Attempts
      <4> QED
        BY <4>2, <4>3
    <3>2. CASE LookUp(s)
      BY <1>a, <3>2 DEF LookUp, Attempts
    <3>3. CASE CommitRaises(s)
      BY <1>a, <3>3 DEF CommitRaises, Attempts
    <3> QED
      BY <1>3, <3>1, <3>2, <3>3
  <2>4. sync' = [sync EXCEPT ![s] = sync'[s]]
    <3>1. CASE ReadFeed(s)
      BY <1>a, <3>1 DEF ReadFeed
    <3>2. CASE LookUp(s) \/ CommitRaises(s)
      BY <1>a, <3>2 DEF LookUp, CommitRaises
    <3> QED
      BY <1>3, <3>1, <3>2
  <2>2. NoneBeside'
    BY <1>b, <2>1, <2>4
  <2>3. UNCHANGED <<table, status, unrecorded, unread>>
    BY <1>3 DEF ReadFeed, LookUp, CommitRaises, database, history
  <2>5. \A o \in Syncers \ {s} : sync'[o] = sync[o]
    BY <1>a, <2>4
  <2> QED
    BY <1>c, <2>1, <2>2, <2>3, <2>5
<1>4. ASSUME NEW s \in Syncers, NothingFound(s) PROVE OutcomeInv'
  <2>1. /\ sync[s].pc = "lookup" /\ Found(s) = {}
        /\ sync' = [sync EXCEPT ![s].pc = "record"]
        /\ unread' = {c \in unread : FeedOf[c] \notin sync[s].reached}
        /\ UNCHANGED <<table, status, unrecorded>>
    BY <1>4 DEF NothingFound, database
  <2>2. sync[s].reached = Feeds => unread' = {}
    BY <1>a, <2>1
  <2>3. /\ sync'[s].reached = sync[s].reached /\ sync'[s].alone = sync[s].alone
        /\ sync'[s].found = sync[s].found
        /\ sync' = [sync EXCEPT ![s] = sync'[s]]
        /\ \A o \in Syncers \ {s} : sync'[o] = sync[o]
    BY <1>a, <2>1 DEF Attempts
  <2>4. NoneBeside'
    BY <1>b, <2>1, <2>3
  <2>5. Found(s)' = {}
    BY <2>1, <2>3 DEF Found
  <2>6. \A o \in Syncers \ {s} : Found(o)' = Found(o)
    BY <2>3 DEF Found
  <2> QED
    BY <2>1, <2>2, <2>3, <2>4, <2>5, <2>6 DEF OutcomeInv, Followed, Settled, Active
<1>5. ASSUME NEW s \in Syncers, CommitClosures(s) PROVE OutcomeInv'
  <2>1. /\ sync[s].pc = "commit"
        /\ table' = [c \in Closures |-> Flushed(s, c)]
        /\ sync' = [sync EXCEPT ![s].pc = "record", ![s].seen = Quiet.seen]
        /\ unrecorded' = TRUE
    BY <1>5 DEF CommitClosures
  <2>2. /\ sync'[s].reached = sync[s].reached /\ sync'[s].alone = sync[s].alone
        /\ sync'[s].found = sync[s].found /\ sync'[s].now = sync[s].now /\ sync'[s].pc = "record"
        /\ sync' = [sync EXCEPT ![s] = sync'[s]]
        /\ \A o \in Syncers \ {s} : sync'[o] = sync[o]
    BY <1>a, <2>1 DEF Attempts
  <2>3. NoneBeside'
    BY <1>b, <2>1, <2>2
  <2>4. sync[s].reached = Feeds => unread' = {}
    BY <1>5, <1>a DEF CommitClosures
  <2>5. Followed(Found(s), sync[s].now)'
    <3> SUFFICES ASSUME NEW c \in Closures, Flushed(s, c).active, c \notin Found(s)
                 PROVE  Flushed(s, c).start > sync[s].now
      BY <2>1, <2>2 DEF Followed, Active, Found
    <3>1. Flushed(s, c) = Swept(s, c)
      BY DEF Flushed
    <3>2. table[c] \in Rows /\ sync[s].now \in Nat
      BY <1>a DEF Type, TableType, Attempts
    <3>3. ~Deactivated(s, c)
      BY <3>1, <3>2 DEF Swept, Rows
    <3>4. Swept(s, c) = table[c]
      BY <3>1, <3>3 DEF Swept, NoRow
    <3> QED
      BY <3>1, <3>2, <3>3, <3>4 DEF Deactivated, Missing, Rows
  <2>6. ASSUME NEW o \in Syncers, sync'[o].pc = "record", sync'[o].alone PROVE o = s
    BY <2>2, <2>3, <2>6 DEF NoneBeside
  <2> QED
    BY <2>1, <2>2, <2>3, <2>4, <2>5, <2>6 DEF OutcomeInv, Settled
<1>6. ASSUME NEW s \in Syncers, RecordOutcome(s) PROVE OutcomeInv'
  <2>1. /\ sync[s].pc = "record"
        /\ status' = [outcome |-> Outcome(s), now |-> sync[s].now, found |-> Found(s),
                      alone |-> sync[s].alone]
        /\ sync' = [sync EXCEPT ![s] = Ended(s)]
        /\ table' = table /\ unread' = unread
    BY <1>6 DEF RecordOutcome
  <2>2. /\ sync'[s].pc \in {"quiet", "invalidate"} /\ sync'[s] = Ended(s)
        /\ \A o \in Syncers \ {s} : sync'[o] = sync[o]
    BY <1>a, <2>1, QuietFacts DEF Ended, Attempts
  <2>3. NoneBeside'
    BY <1>b, <2>1, <2>2
  <2>4. Settled' /\ status'.outcome = "SUCCEEDED" =>
          sync[s].alone /\ sync[s].ok /\ sync[s].reached = Feeds
    BY <2>1 DEF Settled, Outcome
  <2>5. \A o \in Syncers \ {s} : Found(o)' = Found(o)
    BY <2>2 DEF Found
  <2>6. Settled' /\ status'.outcome = "SUCCEEDED" =>
          /\ unread' = {}
          /\ status'.found # {} => Followed(status.found, status.now)'
    <3>1. status'.found = Found(s) /\ status'.now = sync[s].now
      BY <2>1
    <3> QED
      BY <2>1, <2>4, <3>1 DEF OutcomeInv, Followed, Active
  <2>7. ASSUME NEW o \in Syncers, sync'[o].pc = "record", sync'[o].alone, sync'[o].ok
        PROVE  /\ sync'[o].reached = Feeds => unread' = {}
               /\ Found(o)' # {} => Followed(Found(o), sync[o].now)'
    <3>1. o # s /\ sync'[o] = sync[o] /\ Found(o)' = Found(o)
      BY <2>2, <2>5, <2>7
    <3> QED
      BY <2>1, <2>7, <3>1 DEF OutcomeInv, Followed, Active
  <2> QED
    BY <2>3, <2>6, <2>7 DEF OutcomeInv
<1>7. ASSUME NEW s \in Syncers, RecordFails(s) \/ Invalidate(s) \/ (s = "daemon" /\ ReadBackFails)
      PROVE  OutcomeInv'
  <2>1. /\ sync[s].pc \in {"record", "invalidate"}
        /\ UNCHANGED <<table, status, unread, unrecorded>>
        /\ sync' = [sync EXCEPT ![s] = sync'[s]]
        /\ sync'[s] = Quiet \/ (sync[s].pc = "record" /\ sync'[s].pc = "invalidate")
    <3>1. CASE RecordFails(s)
      <4>1. /\ sync[s].pc = "record" /\ sync' = [sync EXCEPT ![s] = Ended(s)]
            /\ UNCHANGED <<table, status, unread, unrecorded>>
        BY <3>1 DEF RecordFails, database, history
      <4>2. Ended(s) = Quiet \/ Ended(s).pc = "invalidate"
        BY QuietFacts DEF Ended, Attempts
      <4> QED
        BY <1>a, <4>1, <4>2
    <3>2. CASE Invalidate(s)
      BY <1>a, <3>2 DEF Invalidate, database, history
    <3>3. CASE s = "daemon" /\ ReadBackFails
      BY <1>a, <3>3 DEF ReadBackFails, database, history
    <3> QED
      BY <1>7, <3>1, <3>2, <3>3
  <2>2. NoneBeside'
    BY <1>b, <2>1, QuietFacts
  <2>3. \A o \in Syncers \ {s} : sync'[o] = sync[o]
    BY <1>a, <2>1
  <2> QED
    BY <1>c, <2>1, <2>2, <2>3, QuietFacts
<1>8. CASE Restart
  <2>1. NoneBeside'
    BY <1>8, QuietFacts DEF Restart, NoneBeside
  <2> QED
    BY <1>8, <1>c, <2>1, QuietFacts DEF Restart, database, history
<1> QED
  BY <1>1, <1>2, <1>3, <1>4, <1>5, <1>6, <1>7, <1>8 DEF Next, Syncers

\* NoQuietRemoval: whichever feeds were down and whichever attempts crossed, while the last
\* outcome is a success of an attempt that ran alone, no closure is off the list that was not
\* looked for in its feed (road_closure_service.py, sync_road_closures).
THEOREM NoQuietRemovalCorrect == Spec => []NoQuietRemoval
<1>1. OutcomeInv => NoQuietRemoval
  BY DEF OutcomeInv, NoQuietRemoval
<1> QED
  BY AlwaysType, InitOutcome, NextOutcome, <1>1, PTL DEF Spec

\* ListFollowsFeeds: after such a success the list holds what the feeds gave and what has not
\* started yet.
THEOREM ListFollowsFeedsCorrect == Spec => []ListFollowsFeeds
<1>1. OutcomeInv => ListFollowsFeeds
  BY DEF OutcomeInv, Followed, ListFollowsFeeds
<1> QED
  BY AlwaysType, InitOutcome, NextOutcome, <1>1, PTL DEF Spec
=============================================================================
