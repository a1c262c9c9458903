----------------------------- MODULE GatewayStore -----------------------------
(***************************************************************************)
(* The dispatch endpoints of the API gateway (routers/dispatches.py) and   *)
(* their table.  FastAPI runs each request in a thread of its own with a   *)
(* database session of its own, so the handlers of two requests interleave *)
(* between reading the row, committing, reading it back and publishing.    *)
(*                                                                         *)
(* Clients are the worker's pipeline (DispatchPipeline, which extends this *)
(* module) and the operator at the review console (DispatchReview.jsx),    *)
(* who sends a whole `target` spread from the copy the console loaded.     *)
(*                                                                         *)
(* Of a record the model keeps: where `target` puts the call, the test     *)
(* flag inside `target`, whether a recording is named, and whether an      *)
(* operator reviewed it.                                                   *)
(***************************************************************************)
EXTENDS Naturals, FiniteSets

CONSTANTS
    Calls,      \* dispatch_ids
    NoCall,     \* no dispatch_id
    Threads,    \* bound: requests the gateway handles at once
    MaxEdits    \* bound: requests of the operator

ASSUME GatewayConstantsOK ==
    /\ NoCall \notin Calls
    /\ MaxEdits \in Nat

VARIABLES
    row,        \* [Calls -> Rows]: table dispatches, NoRow where there is none
    serial,     \* primary keys handed out
    req,        \* [Threads -> requests being handled]
    shown,      \* [Calls -> place]: where a kiosk that hears what is published shows the call
    desk,       \* the operator's copy of a record
    edits,      \* operator requests so far
    contended,  \* history: calls two requests were handled for at once
    unsent      \* history: calls whose latest event was lost on its way to the kiosks

gateway == <<row, serial, req, shown, desk, edits, contended, unsent>>

\* "chunk" is phase 1's answer, "full" the one phase 2 confirmed or corrected.
Places == {"none", "chunk", "full"}
Named == {"true", "false"}                 \* an is_test that says something
Flags == {"absent"} \cup Named

NoRow == [id |-> 0, place |-> "none", test |-> "absent", audio |-> FALSE, reviewed |-> FALSE]

\* What a request sends: "keep" when it names no target.
Bodies == [place : Places \cup {"keep"}, test : Flags, flag : Flags,
           audio : BOOLEAN, review : BOOLEAN]
NoBody == [place |-> "keep", test |-> "absent", flag |-> "absent",
           audio |-> FALSE, review |-> FALSE]

Free == [st |-> "free", from |-> "nobody", kind |-> "none", call |-> NoCall,
         body |-> NoBody, seen |-> NoRow]
NoCopy == [call |-> NoCall, place |-> "none", test |-> "absent"]

Rows == [id : Nat, place : Places, test : Flags, audio : BOOLEAN, reviewed : BOOLEAN]

GatewayTypeOK ==
    /\ row \in [Calls -> Rows]
    /\ serial \in Nat
    /\ req \in [Threads -> [st : {"free", "read", "write", "refresh", "publish", "ok", "error"},
                            from : {"worker", "operator", "nobody"},
                            kind : {"none", "INSERT", "POST", "PATCH", "DELETE"},
                            call : Calls \cup {NoCall},
                            body : Bodies,
                            seen : Rows]]
    /\ shown \in [Calls -> Places]
    /\ desk \in [call : Calls \cup {NoCall}, place : Places, test : Flags]
    /\ edits \in 0..MaxEdits
    /\ contended \subseteq Calls
    /\ unsent \subseteq Calls

GatewayInit ==
    /\ row = [c \in Calls |-> NoRow]
    /\ serial = 0
    /\ req = [t \in Threads |-> Free]
    /\ shown = [c \in Calls |-> "none"]
    /\ desk = NoCopy
    /\ edits = 0
    /\ contended = {}
    /\ unsent = {}

-----------------------------------------------------------------------------
(* _settle_is_test and what a commit writes.                               *)

Target(r) == [place |-> r.place, test |-> r.test]

\* Plausible bug: a target that replaces the stored one is taken as it comes.
Bug_Settle(b, seen) ==
    LET base == IF b.place = "keep" THEN Target(seen) ELSE [place |-> b.place, test |-> b.test]
    IN  IF b.flag \in Named THEN [base EXCEPT !.test = b.flag] ELSE base

\* The target a write leaves: an explicit top-level flag wins, then one the
\* incoming target carries, then the one stored.
Settle(b, seen) ==
    LET replacing == b.place # "keep"
        base == IF replacing THEN [place |-> b.place, test |-> b.test] ELSE Target(seen)
    IN  IF b.flag \in Named
        THEN [base EXCEPT !.test = b.flag]
        ELSE IF replacing /\ b.test = "absent" /\ seen.test \in Named
             THEN [base EXCEPT !.test = seen.test]
             ELSE base

\* Plausible bug: every column of the record that was read is written back.
Bug_WholeRow(now, seen, b) ==
    [now EXCEPT !.place = Settle(b, seen).place,
                !.test = Settle(b, seen).test,
                !.audio = seen.audio \/ b.audio,
                !.reviewed = seen.reviewed \/ b.review]

\* The ORM updates the columns whose value differs from the one it read.
Merge(now, seen, b) ==
    LET new == Settle(b, seen)
        target == IF new = Target(seen) THEN Target(now) ELSE new
    IN  [now EXCEPT !.place = target.place,
                    !.test = target.test,
                    !.audio = @ \/ b.audio,
                    !.reviewed = @ \/ b.review]

\* A row created from a body: the columns it names, defaults for the others.
Created(id, b) ==
    [id |-> id,
     place |-> IF b.place = "keep" THEN "none" ELSE b.place,
     test |-> Settle(b, NoRow).test,
     audio |-> b.audio,
     reviewed |-> b.review]

-----------------------------------------------------------------------------
(* Handling a request.                                                     *)

Busy(t) == req[t].st \in {"read", "write", "refresh", "publish"}
Handled(c) == {t \in Threads : Busy(t) /\ req[t].call = c}

\* A request arrives and a thread takes it.
Arrives(t, from, kind, c, body) ==
    /\ req[t].st = "free"
    /\ req' = [req EXCEPT ![t] = [st |-> "read", from |-> from, kind |-> kind, call |-> c,
                                  body |-> body, seen |-> NoRow]]
    /\ contended' = IF Handled(c) = {} THEN contended ELSE contended \cup {c}

\* A request that was answered: what it sent and read is of no further use.
Answered(t, st) == [Free EXCEPT !.st = st, !.from = req[t].from, !.call = req[t].call]

\* The record is queried: a PATCH or DELETE without one is answered 404.
ReadRecord(t) ==
    /\ req[t].st = "read"
    /\ LET found == row[req[t].call]
       IN  req' = IF found = NoRow /\ req[t].kind # "POST"
                  THEN [req EXCEPT ![t] = Answered(t, "error")]
                  ELSE [req EXCEPT ![t].seen = found, ![t].st = "write"]
    /\ UNCHANGED <<row, serial, shown, desk, edits, contended, unsent>>

\* POST of a dispatch that was not found: an insert, which the unique
\* constraint on dispatch_id refuses when another request inserted it meanwhile.
CommitInsert(t) ==
    LET c == req[t].call IN
    /\ req[t].st = "write"
    /\ req[t].kind = "POST"
    /\ req[t].seen = NoRow
    /\ IF row[c] = NoRow
       THEN /\ serial' = serial + 1
            /\ row' = [row EXCEPT ![c] = Created(serial + 1, req[t].body)]
            /\ req' = [req EXCEPT ![t].kind = "INSERT", ![t].st = "refresh",
                                  ![t].seen = Created(serial + 1, req[t].body)]
       ELSE /\ req' = [req EXCEPT ![t] = Answered(t, "error")]
            /\ UNCHANGED <<row, serial>>
    /\ UNCHANGED <<shown, desk, edits, contended, unsent>>

\* PATCH, or POST of a dispatch that was found: an update by primary key, which
\* fails when the row was deleted meanwhile.
CommitUpdate(t) ==
    LET c == req[t].call IN
    /\ req[t].st = "write"
    /\ req[t].kind \in {"POST", "PATCH"}
    /\ req[t].seen # NoRow
    /\ IF row[c].id = req[t].seen.id
       THEN /\ row' = [row EXCEPT ![c] = Merge(@, req[t].seen, req[t].body)]
            /\ req' = [req EXCEPT ![t].st = "refresh"]
       ELSE /\ req' = [req EXCEPT ![t] = Answered(t, "error")]
            /\ UNCHANGED row
    /\ UNCHANGED <<serial, shown, desk, edits, contended, unsent>>

\* DELETE by primary key; a row that is gone already is only warned about.
CommitDelete(t) ==
    LET c == req[t].call IN
    /\ req[t].st = "write"
    /\ req[t].kind = "DELETE"
    /\ row' = IF row[c].id = req[t].seen.id THEN [row EXCEPT ![c] = NoRow] ELSE row
    /\ req' = [req EXCEPT ![t].st = "publish"]
    /\ UNCHANGED <<serial, shown, desk, edits, contended, unsent>>

\* Plausible bug: the record as it was read is serialised, not the one committed.
Bug_Reread(t, now) == req[t].seen

Reread(t, now) == now

\* db.refresh reads the row back, with what other requests committed since; it
\* raises when the row is gone.
RefreshRecord(t) ==
    LET now == row[req[t].call] IN
    /\ req[t].st = "refresh"
    /\ req' = IF now.id = req[t].seen.id
              THEN [req EXCEPT ![t].st = "publish", ![t].seen = Reread(t, now)]
              ELSE [req EXCEPT ![t] = Answered(t, "error")]
    /\ UNCHANGED <<row, serial, shown, desk, edits, contended, unsent>>

\* A kiosk shows an INSERT, merges an UPDATE of a call it shows, and does nothing
\* on a DELETE.
Lands(t) ==
    \/ req[t].kind = "INSERT"
    \/ req[t].kind # "DELETE" /\ shown[req[t].call] # "none"

\* publish_mqtt_event: the event carries the whole record.
PublishEvent(t) ==
    LET c == req[t].call IN
    /\ req[t].st = "publish"
    /\ IF Lands(t)
       THEN shown' = [shown EXCEPT ![c] = req[t].seen.place] /\ unsent' = unsent \ {c}
       ELSE UNCHANGED <<shown, unsent>>
    /\ req' = [req EXCEPT ![t] = Answered(t, "ok")]
    /\ UNCHANGED <<row, serial, desk, edits, contended>>

\* There is no client, or the publication fails: swallowed, the answer is 200 all
\* the same, and the event is not sent again.  (One no kiosk would have acted on
\* is as good as published.)
EventLost(t) ==
    /\ req[t].st = "publish"
    /\ Lands(t)
    /\ unsent' = unsent \cup {req[t].call}
    /\ req' = [req EXCEPT ![t] = Answered(t, "ok")]
    /\ UNCHANGED <<row, serial, shown, desk, edits, contended>>

\* The answer reaches a client that does nothing with it.
AnswerRead(t) ==
    /\ req[t].st \in {"ok", "error"}
    /\ req[t].from # "worker"
    /\ req' = [req EXCEPT ![t] = Free]
    /\ UNCHANGED <<row, serial, shown, desk, edits, contended, unsent>>

-----------------------------------------------------------------------------
(* The operator at the review console.                                     *)

\* handleSelectCall: the console loads the record.
OperatorLoads(c) ==
    /\ edits < MaxEdits
    /\ row[c] # NoRow
    /\ desk' = [call |-> c, place |-> row[c].place, test |-> row[c].test]
    /\ desk' # desk
    /\ UNCHANGED <<row, serial, req, shown, edits, contended, unsent>>

\* The review is submitted: the verified fields, and the copy's whole target.
OperatorSaves(t) ==
    /\ desk # NoCopy
    /\ edits < MaxEdits
    /\ edits' = edits + 1
    /\ Arrives(t, "operator", "PATCH", desk.call,
               [place |-> desk.place, test |-> desk.test, flag |-> "absent",
                audio |-> FALSE, review |-> TRUE])
    /\ desk' = NoCopy
    /\ UNCHANGED <<row, serial, shown, unsent>>

\* handleDeleteCall.
OperatorDeletes(t) ==
    /\ desk # NoCopy
    /\ edits < MaxEdits
    /\ edits' = edits + 1
    /\ Arrives(t, "operator", "DELETE", desk.call, NoBody)
    /\ desk' = NoCopy
    /\ UNCHANGED <<row, serial, shown, unsent>>

-----------------------------------------------------------------------------
(* What the endpoints guarantee, whoever their clients are.                *)

\* However requests interleave, a write that is not about it erases neither the
\* recording's name, nor an operator's review, nor the test flag of a record.
NothingErased ==
    [][\A c \in Calls :
        row[c].id # 0 /\ row'[c].id = row[c].id =>
            /\ row[c].audio => row'[c].audio
            /\ row[c].reviewed => row'[c].reviewed
            /\ row[c].test \in Named => row'[c].test = row[c].test]_gateway

=============================================================================
