---------------------------- MODULE KioskQueueProofs ----------------------------
(***************************************************************************)
(* Proofs about KioskQueue, for every set of calls and any number of       *)
(* events, repetitions, reloads and replays.                               *)
(***************************************************************************)
EXTENDS KioskQueue, FiniteSetTheorems, WellFoundedInduction, TLAPS

(***************************************************************************)
(* The records a restore keeps: each is one of the answer's, and no two of *)
(* them are the same one.                                                  *)
(***************************************************************************)

Less == {p \in Nat \X Nat : p[1] < p[2]}

\* A set of numbers that has one has a least one.
LEMMA Least ==
    ASSUME NEW T \in SUBSET Nat, T # {}
    PROVE  \E m \in T : \A k \in T : m <= k
<1>1. OpToRel(<, Nat) = Less
  BY DEF OpToRel, Less
<1>2. IsWellFoundedOn(Less, Nat)
  BY <1>1, NatLessThanWellFounded
<1>3. PICK m \in T : \A k \in T : ~ (<<k, m>> \in Less)
  BY <1>2, WFMin
<1>4. ASSUME NEW k \in T, k < m PROVE <<k, m>> \in Less
  BY <1>4 DEF Less
<1>5. \A k \in T : ~(k < m)
  BY <1>3, <1>4
<1>6. \A k \in T : m <= k
  BY <1>5
<1> QED
  BY <1>6

\* A function on 1..n \in Nat is a sequence.
LEMMA IsSequence ==
    ASSUME NEW S, NEW n \in Nat, NEW f \in [1..n -> S]
    PROVE  f \in Seq(S) /\ Len(f) = n /\ DOMAIN f = 1..n
  OBVIOUS

\* Among n numbers, counted from below, every one of the first comes up.
LEMMA CountsUp ==
    ASSUME NEW n \in Nat, NEW K \in SUBSET (1..n), NEW k \in 1..Cardinality(K)
    PROVE  \E i \in K : Cardinality({j \in K : j <= i}) = k
<1> DEFINE below(i) == {j \in K : j <= i}
<1> DEFINE T == {i \in Nat : Cardinality(below(i)) >= k}
<1>1. IsFiniteSet(K) /\ Cardinality(K) \in Nat
  <2>1. IsFiniteSet(1..n)
    BY FS_Interval
  <2> QED
    BY <2>1, FS_Subset, FS_CardinalityType
<1>2. \A i \in Nat : IsFiniteSet(below(i)) /\ Cardinality(below(i)) \in Nat
  <2> TAKE i \in Nat
  <2>1. below(i) \in SUBSET K
    OBVIOUS
  <2> QED
    BY <1>1, <2>1, FS_Subset, FS_CardinalityType
<1>0. \A j \in K : j \in Nat /\ 1 <= j /\ j <= n
  OBVIOUS
<1>3. below(n) = K
  BY <1>0
<1>4. n \in T
  BY <1>1, <1>3
<1>5. PICK m \in T : \A i \in T : m <= i
  <2>1. T \in SUBSET Nat
    OBVIOUS
  <2> HIDE DEF T
  <2> QED
    BY <1>4, <2>1, Least
<1>6. m \in Nat /\ Cardinality(below(m)) >= k
  OBVIOUS
<1>7. m # 0
  <2>1. below(0) = {}
    <3>1. \A j \in K : ~(j <= 0)
      BY <1>0
    <3> QED
      BY <3>1
  <2>2. Cardinality(below(0)) = 0
    BY <2>1, FS_EmptySet
  <2> QED
    BY <1>6, <2>2
<1>8. m - 1 \in Nat /\ m - 1 \notin T
  <2>1. m - 1 \in Nat /\ ~(m <= m - 1)
    BY <1>6, <1>7
  <2> HIDE DEF T
  <2> QED
    BY <1>5, <2>1
<1>9. Cardinality(below(m - 1)) \in Nat /\ Cardinality(below(m - 1)) < k
  <2>1. Cardinality(below(m - 1)) \in Nat /\ ~(Cardinality(below(m - 1)) >= k)
    BY <1>2, <1>8
  <2> HIDE DEF below
  <2> QED
    BY <1>1, <2>1
<1>10. \A j \in Nat : j <= m <=> j <= m - 1 \/ j = m
  BY <1>6, <1>7
<1>11. m \in K
  <2>1. m \notin K => below(m) = below(m - 1)
    BY <1>0, <1>10
  <2> HIDE DEF below
  <2> QED
    BY <1>1, <1>6, <1>9, <2>1
<1>12. Cardinality(below(m)) <= Cardinality(below(m - 1)) + 1
  <2>1. below(m) = below(m - 1) \cup {m}
    BY <1>0, <1>10, <1>11
  <2>2. IsFiniteSet(below(m - 1)) /\ Cardinality(below(m - 1)) \in Nat
    BY <1>2, <1>8
  <2> QED
    BY <2>1, <2>2, FS_AddElement
<1>13. Cardinality(below(m)) = k
  <2>1. Cardinality(below(m)) \in Nat
    BY <1>2, <1>6
  <2> HIDE DEF below
  <2> QED
    BY <1>1, <1>6, <1>9, <1>12, <2>1
<1> QED
  BY <1>11, <1>13

\* What is left of an answer: its records at places of their own, none of a call that is gone.
LEMMA WithoutFacts ==
    ASSUME NEW gone, answer \in Seq(Records)
    PROVE  /\ Without(gone) \in Seq(Records)
           /\ \E at \in [DOMAIN Without(gone) -> DOMAIN answer] :
                 /\ \A k \in DOMAIN at : /\ Without(gone)[k] = answer[at[k]]
                                         /\ answer[at[k]].call \notin gone
                 /\ \A k, l \in DOMAIN at : at[k] = at[l] => k = l
<1> DEFINE kept == {i \in DOMAIN answer : answer[i].call \notin gone}
           upTo(i) == Cardinality({j \in kept : j <= i})
           at == [k \in 1..Cardinality(kept) |-> CHOOSE i \in kept : upTo(i) = k]
<1>1. DOMAIN answer = 1..Len(answer) /\ Len(answer) \in Nat
  OBVIOUS
<1>2. kept \in SUBSET (1..Len(answer)) /\ Cardinality(kept) \in Nat
  <2>1. kept \in SUBSET (1..Len(answer)) /\ IsFiniteSet(1..Len(answer))
    BY <1>1, FS_Interval
  <2> QED
    BY <2>1, FS_Subset, FS_CardinalityType
<1>3. ASSUME NEW k \in 1..Cardinality(kept) PROVE at[k] \in kept /\ upTo(at[k]) = k
  <2>1. \E i \in kept : upTo(i) = k
    <3> HIDE DEF kept
    <3> QED
      BY <1>1, <1>2, CountsUp
  <2> QED
    BY <2>1
<1>4. Without(gone) = [k \in 1..Cardinality(kept) |-> answer[at[k]]]
  BY DEF Without
<1>5. \A k \in 1..Cardinality(kept) : answer[at[k]] \in Records
  <2>1. \A i \in DOMAIN answer : answer[i] \in Records
    OBVIOUS
  <2>2. \A k \in 1..Cardinality(kept) : at[k] \in DOMAIN answer
    BY <1>3
  <2> HIDE DEF at, kept
  <2> QED
    BY <2>1, <2>2
<1> HIDE DEF at
<1>6. [k \in 1..Cardinality(kept) |-> answer[at[k]]] \in [1..Cardinality(kept) -> Records]
  BY <1>5
<1>7. Without(gone) \in Seq(Records) /\ DOMAIN Without(gone) = 1..Cardinality(kept)
  BY <1>2, <1>4, <1>6, IsSequence
<1>8. at \in [1..Cardinality(kept) -> DOMAIN answer]
  BY <1>3 DEF at
<1>9. \A k, l \in 1..Cardinality(kept) : at[k] = at[l] => k = l
  BY <1>3
<1>10. \A k \in 1..Cardinality(kept) : Without(gone)[k] = answer[at[k]] /\ answer[at[k]].call \notin gone
  BY <1>3, <1>4
<1> QED
  BY <1>7, <1>8, <1>9, <1>10

(***************************************************************************)
(* What holds of the display in every state.                               *)
(***************************************************************************)

\* What the screen and the queue hold.
OnShow == {active} \cup {queued[i] : i \in DOMAIN queued}

\* A call that is stored has a version, and what no replay is a call of Calls.
KioskType ==
    /\ KioskTypeOK
    /\ \A i \in DOMAIN announced : ver[announced[i]] > 0
    /\ loading \in Calls => ver[loading] > 0
    /\ \A e \in OnShow : e.call = NoCall \/ e.review \/ e.call \in Calls

\* Calls are announced once each, so an answer names each once.
AnswersInv ==
    /\ \A i, j \in DOMAIN announced : announced[i] = announced[j] => i = j
    /\ \A i, j \in DOMAIN answer : answer[i].call = answer[j].call => i = j

\* A replay has the screen to itself unless it, or a restore, met a call there.
PlacesInv ==
    /\ NoCallTwice
    /\ active = NoEntry => queued = <<>>
    /\ ~crossed => /\ active.review => queued = <<>>
                   /\ \A i \in DOMAIN queued : ~queued[i].review

TakenInv == taken \subseteq LiveShown \cup dismissed \cup wiped

DismissedInv == ~crossed => LiveShown \cap (dismissed \ again) = {}

\* A correction of c is on its way, behind the event at position i.
DueAfter(c, i) ==
    \E j \in DOMAIN wire : j > i /\ wire[j].call = c /\ wire[j].event = "UPDATE"

\* Version v of c is what is stored, or the correction is still to come.
Current(c, v, i) == v = ver[c] \/ DueAfter(c, i)

\* Events are in order: a correction is the last word, and older news is followed by it.
WireInv ==
    \A i \in DOMAIN wire : \A c \in Calls : wire[i].call = c =>
        /\ wire[i].event = "UPDATE" => wire[i].ver = 2 /\ ver[c] = 2
        /\ Current(c, wire[i].ver, i)

LatestInv ==
    /\ \A e \in OnShow : e.call \in Calls \ missed => Current(e.call, e.ver, 0)
    /\ \A i \in DOMAIN answer : \A c \in Calls \ missed :
          answer[i].call = c => Current(c, answer[i].ver, 0)
    /\ fetch # "read" => answer = <<>>
    /\ loading \in Calls \ missed /\ copy # 0 => Current(loading, copy, 0)

KioskInv == KioskType /\ AnswersInv /\ PlacesInv /\ TakenInv /\ DismissedInv /\ WireInv /\ LatestInv

LEMMA EntryFacts ==
    /\ NoEntry \notin Entries /\ NoEntry.call = NoCall /\ ~NoEntry.review
    /\ \A e \in Entries : e.call # NoCall /\ e.call \in Calls \cup Past /\ e.ver \in 1..2 /\ e.review \in BOOLEAN
  BY KioskConstantsOK DEF Entries, NoEntry, Entry

LEMMA MergeFacts ==
    ASSUME NEW d \in Entries, NEW n \in Entries
    PROVE  /\ Merge(d, n) \in Entries /\ Merge(d, n).call = d.call /\ Merge(d, n).ver = n.ver
           /\ Merge(d, n).review = (d.review \/ n.review)
  BY DEF Entries, Entry, Merge

\* Which entries there are, and which calls are on show as such.
LEMMA OnShowIs ==
    /\ \A e : e \in OnShow <=> e = active \/ \E i \in DOMAIN queued : e = queued[i]
    /\ \A e : e \in OnShow' <=> e = active' \/ \E i \in DOMAIN queued' : e = queued'[i]
    /\ \A c : c \in LiveShown <=> \E e \in OnShow : ~e.review /\ e.call = c
    /\ \A c : c \in LiveShown' <=> \E e \in OnShow' : ~e.review /\ e.call = c
    /\ \A c : c \in Shown <=> \E e \in OnShow : e.call = c
    /\ \A e \in OnShow : e.call \in Shown
<1>1. \A e : e \in OnShow <=> e = active \/ \E i \in DOMAIN queued : e = queued[i]
  BY DEF OnShow
<1>2. \A e : e \in OnShow' <=> e = active' \/ \E i \in DOMAIN queued' : e = queued'[i]
  BY DEF OnShow
<1>3. ASSUME NEW c PROVE c \in LiveShown <=> \E e \in OnShow : ~e.review /\ e.call = c
  BY <1>1 DEF LiveShown
<1>4. ASSUME NEW c PROVE c \in LiveShown' <=> \E e \in OnShow' : ~e.review /\ e.call = c
  BY <1>2 DEF LiveShown
<1>5. ASSUME NEW c PROVE c \in Shown <=> \E e \in OnShow : e.call = c
  BY <1>1 DEF Shown
<1> QED
  BY <1>1, <1>2, <1>3, <1>4, <1>5

\* What the type invariant says of what the sequences and the screen hold.
LEMMA TypeFacts ==
    ASSUME KioskType
    PROVE  /\ active \in Entries \cup {NoEntry}
           /\ queued \in Seq(Entries) /\ Len(queued) \in Nat /\ DOMAIN queued = 1..Len(queued)
           /\ \A i \in DOMAIN queued : queued[i] \in Entries
           /\ \A e \in OnShow : e \in Entries \cup {NoEntry}
           /\ wire \in Seq(Events) /\ Len(wire) \in Nat /\ DOMAIN wire = 1..Len(wire)
           /\ \A i \in DOMAIN wire : wire[i] \in Events
           /\ announced \in Seq(Calls) /\ Len(announced) \in Nat /\ DOMAIN announced = 1..Len(announced)
           /\ \A i \in DOMAIN announced : announced[i] \in Calls
           /\ answer \in Seq(Records) /\ Len(answer) \in Nat /\ DOMAIN answer = 1..Len(answer)
           /\ \A i \in DOMAIN answer : answer[i] \in Records
           /\ ver \in [Calls -> 0..2]
<1>1. /\ active \in Entries \cup {NoEntry} /\ queued \in Seq(Entries) /\ wire \in Seq(Events)
      /\ announced \in Seq(Calls) /\ answer \in Seq(Records) /\ ver \in [Calls -> 0..2]
  BY DEF KioskType, KioskTypeOK
<1>2. /\ Len(queued) \in Nat /\ DOMAIN queued = 1..Len(queued)
      /\ \A i \in DOMAIN queued : queued[i] \in Entries
  BY <1>1
<1>3. /\ Len(wire) \in Nat /\ DOMAIN wire = 1..Len(wire)
      /\ \A i \in DOMAIN wire : wire[i] \in Events
  BY <1>1
<1>4. /\ Len(announced) \in Nat /\ DOMAIN announced = 1..Len(announced)
      /\ \A i \in DOMAIN announced : announced[i] \in Calls
  BY <1>1
<1>5. /\ Len(answer) \in Nat /\ DOMAIN answer = 1..Len(answer)
      /\ \A i \in DOMAIN answer : answer[i] \in Records
  BY <1>1
<1>6. \A e \in OnShow : e \in Entries \cup {NoEntry}
  BY <1>1, <1>2, OnShowIs
<1> QED
  BY <1>1, <1>2, <1>3, <1>4, <1>5, <1>6

(***************************************************************************)
(* What the handlers do to the screen and the queue.                       *)
(***************************************************************************)

\* A merge keeps the queue's places and their calls.
LEMMA MergeQueuedFacts ==
    ASSUME KioskType, NEW n \in Entries
    PROVE  /\ MergeQueued(n) \in Seq(Entries) /\ DOMAIN MergeQueued(n) = DOMAIN queued
           /\ \A i \in DOMAIN queued :
                 /\ MergeQueued(n)[i] = IF queued[i].call = n.call THEN Merge(queued[i], n) ELSE queued[i]
                 /\ MergeQueued(n)[i].call = queued[i].call
           /\ queued = <<>> => MergeQueued(n) = <<>>
<1>1. /\ queued \in Seq(Entries) /\ Len(queued) \in Nat /\ DOMAIN queued = 1..Len(queued)
      /\ \A i \in DOMAIN queued : queued[i] \in Entries
  BY TypeFacts
<1>2. MergeQueued(n) \in [1..Len(queued) -> Entries]
  BY <1>1, MergeFacts DEF MergeQueued
<1>3. MergeQueued(n) \in Seq(Entries) /\ DOMAIN MergeQueued(n) = DOMAIN queued
      /\ Len(MergeQueued(n)) = Len(queued)
  BY <1>1, <1>2, IsSequence
<1>4. \A i \in DOMAIN queued :
                 /\ MergeQueued(n)[i] = IF queued[i].call = n.call THEN Merge(queued[i], n) ELSE queued[i]
                 /\ MergeQueued(n)[i].call = queued[i].call
  BY <1>1, MergeFacts DEF MergeQueued
<1> QED
  BY <1>1, <1>3, <1>4

\* handleInsert: the screen is taken, or the call merged where it is, or put behind the others.
LEMMA InsertCases ==
    ASSUME KioskType, NEW n \in Entries, Insert(n)
    PROVE  \/ TakesOver(n) /\ active' = n /\ queued' = queued
           \/ /\ active \in Entries /\ ~TakesOver(n) /\ active.call = n.call
              /\ active' = Merge(active, n) /\ queued' = queued
           \/ /\ active \in Entries /\ ~TakesOver(n) /\ active.call # n.call
              /\ active' = active /\ queued' = MergeQueued(n)
           \/ /\ active \in Entries /\ ~TakesOver(n) /\ active.call # n.call
              /\ active' = active /\ queued' = Append(queued, n)
              /\ \A i \in DOMAIN queued : queued[i].call # n.call
<1>1. active \in Entries \cup {NoEntry}
  BY TypeFacts
<1>2. ~TakesOver(n) => active \in Entries
  BY <1>1 DEF TakesOver
<1> QED
  BY <1>2 DEF Insert, Enqueue

LEMMA AppendFacts ==
    ASSUME NEW S, NEW s \in Seq(S), NEW x \in S
    PROVE  /\ Append(s, x) \in Seq(S) /\ Len(Append(s, x)) = Len(s) + 1
           /\ DOMAIN Append(s, x) = 1..(Len(s) + 1)
           /\ \A i \in DOMAIN s : Append(s, x)[i] = s[i]
           /\ Append(s, x)[Len(s) + 1] = x
           /\ DOMAIN s = 1..Len(s) /\ Len(s) \in Nat
           /\ \A i \in DOMAIN Append(s, x) : i \in DOMAIN s \/ i = Len(s) + 1
  OBVIOUS

LEMMA TailFacts ==
    ASSUME NEW S, NEW s \in Seq(S), s # <<>>
    PROVE  /\ Head(s) \in S /\ Head(s) = s[1] /\ 1 \in DOMAIN s
           /\ Tail(s) \in Seq(S) /\ Len(Tail(s)) = Len(s) - 1
           /\ DOMAIN Tail(s) = 1..(Len(s) - 1)
           /\ \A i \in DOMAIN Tail(s) : Tail(s)[i] = s[i + 1] /\ i + 1 \in DOMAIN s
           /\ \A i \in DOMAIN s : i = 1 \/ (i - 1 \in DOMAIN Tail(s) /\ Tail(s)[i - 1] = s[i])
           /\ DOMAIN s = 1..Len(s) /\ Len(s) \in Nat \ {0}
  OBVIOUS

\* An entry stays, or is merged with the call that came in.
From(d, e, n) == e = d \/ (d.call = n.call /\ e = Merge(d, n))

\* What comes of an entry keeps its call, and is a replay only if one of the two was.
LEMMA FromFacts ==
    ASSUME NEW d \in Entries, NEW e, NEW n \in Entries, From(d, e, n)
    PROVE  /\ e \in Entries /\ e.call = d.call /\ (e = d \/ (e.ver = n.ver /\ d.call = n.call))
           /\ d.review => e.review
           /\ e.review => d.review \/ (n.review /\ n.call = d.call)
<1>1. CASE e = d
  BY <1>1, EntryFacts
<1>2. CASE d.call = n.call /\ e = Merge(d, n)
  <2>1. e \in Entries /\ e.call = d.call /\ e.ver = n.ver /\ e.review = (d.review \/ n.review)
    BY <1>2, MergeFacts
  <2>2. d.review \in BOOLEAN /\ n.review \in BOOLEAN /\ e.review \in BOOLEAN
    BY <2>1, EntryFacts
  <2> QED
    BY <1>2, <2>1, <2>2
<1> QED
  BY <1>1, <1>2 DEF From

\* The queue merged with a call: the same calls at the same places.
LEMMA MergedFrom ==
    ASSUME KioskType, NEW n \in Entries, queued' = MergeQueued(n)
    PROVE  /\ queued' \in Seq(Entries) /\ DOMAIN queued' = DOMAIN queued
           /\ \A i \in DOMAIN queued : From(queued[i], queued'[i], n) /\ queued[i] \in Entries
           /\ queued = <<>> => queued' = <<>>
<1>1. /\ MergeQueued(n) \in Seq(Entries) /\ DOMAIN MergeQueued(n) = DOMAIN queued
      /\ queued = <<>> => MergeQueued(n) = <<>>
  BY MergeQueuedFacts
<1>2. ASSUME NEW i \in DOMAIN queued PROVE From(queued[i], queued'[i], n) /\ queued[i] \in Entries
  <2>1. queued'[i] = IF queued[i].call = n.call THEN Merge(queued[i], n) ELSE queued[i]
    BY MergeQueuedFacts
  <2> QED
    BY <2>1, TypeFacts DEF From
<1> QED
  BY <1>1, <1>2

\* What comes of the entries on show when the one on the screen and those in the
\* queue stay or are merged, each at its place.
LEMMA MergedShows ==
    ASSUME KioskType, NEW n \in Entries, From(active, active', n),
           DOMAIN queued' = DOMAIN queued,
           \A i \in DOMAIN queued : From(queued[i], queued'[i], n)
    PROVE  /\ \A e \in OnShow' : \E d \in OnShow : From(d, e, n)
           /\ \A d \in OnShow \ {NoEntry} : ~d.review =>
                 \E e \in OnShow' : e.call = d.call /\ (~e.review \/ (n.review /\ n.call = d.call))
<1>1. \A e \in OnShow' : \E d \in OnShow : From(d, e, n)
  BY OnShowIs
<1>2. ASSUME NEW d \in OnShow \ {NoEntry}
      PROVE  d \in Entries /\ \E e \in OnShow' : From(d, e, n)
  BY OnShowIs, TypeFacts
<1>3. ASSUME NEW d \in OnShow \ {NoEntry}, ~d.review
      PROVE  \E e \in OnShow' : e.call = d.call /\ (~e.review \/ (n.review /\ n.call = d.call))
  <2>1. PICK e \in OnShow' : From(d, e, n)
    BY <1>2
  <2>2. d \in Entries
    BY <1>2
  <2> QED
    BY <1>3, <2>1, <2>2, FromFacts
<1> QED
  BY <1>1, <1>3

\* After handleInsert the display shows what it showed, merged at most, and the call that came in.
LEMMA InsertShows ==
    ASSUME KioskType, NEW n \in Entries, Insert(n)
    PROVE  /\ active' \in Entries /\ queued' \in Seq(Entries)
           /\ \A e \in OnShow' : e = n \/ \E d \in OnShow : From(d, e, n)
           /\ \A d \in OnShow \ {NoEntry} : ~d.review =>
                 \E e \in OnShow' : e.call = d.call /\ (~e.review \/ (n.review /\ n.call = d.call))
<1>a. /\ queued \in Seq(Entries) /\ \A i \in DOMAIN queued : queued[i] \in Entries
      /\ active \in Entries \cup {NoEntry}
  BY TypeFacts
<1>1. CASE TakesOver(n) /\ active' = n /\ queued' = queued
  <2>1. active = NoEntry \/ active.review
    BY <1>1 DEF TakesOver
  <2> QED
    BY <1>a, <1>1, <2>1, OnShowIs DEF From
<1>2. CASE active \in Entries /\ active.call = n.call /\ active' = Merge(active, n) /\ queued' = queued
  <2>1. active' \in Entries
    BY <1>2, MergeFacts
  <2>2. From(active, active', n) /\ \A i \in DOMAIN queued : From(queued[i], queued'[i], n)
    BY <1>2 DEF From
  <2> QED
    BY <1>a, <1>2, <2>1, <2>2, MergedShows
<1>3. CASE active \in Entries /\ active' = active /\ queued' = MergeQueued(n)
  <2>1. From(active, active', n)
    BY <1>3 DEF From
  <2> QED
    BY <1>3, <2>1, MergedFrom, MergedShows
<1>4. CASE active \in Entries /\ active' = active /\ queued' = Append(queued, n)
  <2>1. /\ queued' \in Seq(Entries)
        /\ \A i \in DOMAIN queued : queued'[i] = queued[i] /\ i \in DOMAIN queued'
        /\ \A i \in DOMAIN queued' : i \in DOMAIN queued \/ queued'[i] = n
    BY <1>a, <1>4, AppendFacts
  <2> QED
    BY <1>4, <2>1, OnShowIs DEF From
<1> QED
  BY <1>1, <1>2, <1>3, <1>4, InsertCases

LEMMA LiveEntry ==
    ASSUME NEW c \in Calls, NEW v \in 1..2
    PROVE  LET n == Entry(c, v, FALSE) IN n \in Entries /\ ~n.review /\ n.call = c /\ n.ver = v
  BY DEF Entry, Entries

\* handleUpdate: what is on show stays or is merged, each entry at its place.
LEMMA UpdateShows ==
    ASSUME KioskType, ReceiveUpdate,
           NEW n, n = Entry(Head(wire).call, Head(wire).ver, FALSE)
    PROVE  /\ n \in Entries /\ ~n.review /\ n.call \in Calls
           /\ active' \in Entries \cup {NoEntry} /\ From(active, active', n)
           /\ active' = NoEntry <=> active = NoEntry
           /\ queued' \in Seq(Entries) /\ DOMAIN queued' = DOMAIN queued
           /\ \A i \in DOMAIN queued : From(queued[i], queued'[i], n) /\ queued[i] \in Entries
           /\ queued = <<>> => queued' = <<>>
           /\ \A e \in OnShow' : \E d \in OnShow : From(d, e, n)
           /\ \A e \in OnShow' : e.call = n.call => e.ver = n.ver
           /\ \A d \in OnShow \ {NoEntry} : ~d.review => \E e \in OnShow' : e.call = d.call /\ ~e.review
<1>1. Head(wire) \in Events
  BY TypeFacts, TailFacts DEF ReceiveUpdate
<1>2. n \in Entries /\ ~n.review /\ n.call \in Calls /\ n.call = Head(wire).call
  <2>1. Head(wire).call \in Calls /\ Head(wire).ver \in 1..2
    BY <1>1 DEF Events
  <2> QED
    BY <2>1, LiveEntry
<1>3. queued' = MergeQueued(n)
  BY DEF ReceiveUpdate
<1>4. active' = IF active.call = n.call THEN Merge(active, n) ELSE active
  BY <1>2 DEF ReceiveUpdate
<1>5. From(active, active', n)
  BY <1>4 DEF From
<1>6. active' \in Entries \cup {NoEntry} /\ (active' = NoEntry <=> active = NoEntry)
  <2>1. active = NoEntry => active' = NoEntry
    BY <1>2, <1>4, EntryFacts, KioskConstantsOK
  <2>2. active \in Entries => active' \in Entries
    BY <1>2, <1>5, FromFacts
  <2> QED
    BY <2>1, <2>2, TypeFacts, EntryFacts
<1>7. \A d \in OnShow \ {NoEntry} : ~d.review => \E e \in OnShow' : e.call = d.call /\ ~e.review
  BY <1>2, <1>3, <1>5, MergedFrom, MergedShows
<1>8. ASSUME NEW e \in OnShow', e.call = n.call PROVE e.ver = n.ver
  <2>1. CASE e = active'
    <3>1. CASE active \in Entries
      <4>1. active'.call = active.call
        <5>1. n \in Entries
          BY <1>2
        <5> QED
          BY <1>5, <3>1, <5>1, FromFacts
      <4>2. active' = Merge(active, n)
        BY <1>4, <1>8, <2>1, <4>1
      <4> QED
        BY <1>2, <2>1, <3>1, <4>2, MergeFacts
    <3>2. active # NoEntry
      BY <1>2, <1>6, <1>8, <2>1, EntryFacts, KioskConstantsOK
    <3> QED
      BY <3>1, <3>2, TypeFacts
  <2>2. CASE \E i \in DOMAIN queued' : e = queued'[i]
    <3>1. PICK i \in DOMAIN queued : e = queued'[i]
      BY <1>2, <1>3, <2>2, MergedFrom
    <3>2. queued'[i] = IF queued[i].call = n.call THEN Merge(queued[i], n) ELSE queued[i]
      BY <1>2, <1>3, MergeQueuedFacts
    <3>3. queued[i] \in Entries
      BY TypeFacts
    <3>4. n \in Entries
      BY <1>2
    <3>5. queued'[i].call = queued[i].call
      BY <1>3, <3>4, MergeQueuedFacts
    <3>6. e = Merge(queued[i], n)
      BY <1>8, <3>1, <3>2, <3>5
    <3>7. Merge(queued[i], n).ver = n.ver
      BY <3>3, <3>4, MergeFacts
    <3> QED
      BY <3>6, <3>7
  <2> QED
    BY <2>1, <2>2, OnShowIs
<1> QED
  BY <1>2, <1>3, <1>5, <1>6, <1>7, <1>8, MergedFrom, MergedShows

\* The call on the screen goes, and every other moves up by one.
LEMMA LeaveShows ==
    ASSUME KioskType, active # NoEntry, Leave
    PROVE  /\ active' \in Entries \cup {NoEntry} /\ queued' \in Seq(Entries)
           /\ active' = NoEntry => queued' = <<>>
           /\ active' # NoEntry => active' = queued[1] /\ 1 \in DOMAIN queued
           /\ \A i \in DOMAIN queued' : queued'[i] = queued[i + 1] /\ i + 1 \in DOMAIN queued
           /\ queued = <<>> => queued' = <<>>
           /\ OnShow' \subseteq OnShow \cup {NoEntry}
           /\ \A i \in DOMAIN queued : queued[i] \in OnShow'
<1>1. active \in Entries /\ queued \in Seq(Entries)
  BY TypeFacts
<1>2. CASE queued = <<>>
  BY <1>1, <1>2, OnShowIs DEF Leave
<1>3. CASE queued # <<>>
  <2>1. /\ active' = Head(queued) /\ queued' = Tail(queued)
    BY <1>3 DEF Leave, AfterNext
  <2>2. /\ Head(queued) \in Entries /\ Head(queued) = queued[1] /\ 1 \in DOMAIN queued
        /\ Tail(queued) \in Seq(Entries)
        /\ \A i \in DOMAIN Tail(queued) : Tail(queued)[i] = queued[i + 1] /\ i + 1 \in DOMAIN queued
        /\ \A i \in DOMAIN queued : i = 1 \/ (i - 1 \in DOMAIN Tail(queued) /\ Tail(queued)[i - 1] = queued[i])
    BY <1>1, <1>3, TailFacts
  <2>3. active' \in Entries /\ active' # NoEntry
    BY <2>1, <2>2, EntryFacts
  <2>4. OnShow' \subseteq OnShow \cup {NoEntry}
    BY <2>1, <2>2, OnShowIs
  <2>5. \A i \in DOMAIN queued : queued[i] \in OnShow'
    BY <2>1, <2>2, OnShowIs
  <2> QED
    BY <1>3, <2>1, <2>2, <2>3, <2>4, <2>5
<1> QED
  BY <1>2, <1>3

LEMMA LiveFacts ==
    ASSUME NEW r, r.call \in Calls, r.ver \in 1..2
    PROVE  Live(r) \in Entries /\ ~Live(r).review /\ Live(r).call = r.call /\ Live(r).ver = r.ver
  BY LiveEntry DEF Live

\* What a restore does: m records of the answer, each from a place at[k] of its own, go to the
\* screen and the queue if they are empty.
RestoredAs(m, at) ==
    /\ \A k \in 1..m : /\ answer[at[k]].call \notin lapsed \cup dismissed
                       /\ Live(answer[at[k]]) \in Entries /\ ~Live(answer[at[k]]).review
                       /\ Live(answer[at[k]]).call = answer[at[k]].call
                       /\ Live(answer[at[k]]).ver = answer[at[k]].ver
                       /\ answer[at[k]].call \in Calls
    /\ \A k, l \in 1..m : at[k] = at[l] => k = l
    /\ active' = IF active = NoEntry /\ m > 0 THEN Live(answer[at[1]]) ELSE active
    /\ queued' \in Seq(Entries)
    /\ \/ queued' = queued /\ ~(m > 1 /\ queued = <<>>)
       \/ /\ m > 1 /\ queued = <<>> /\ DOMAIN queued' = 1..(m - 1)
          /\ \A k \in 1..(m - 1) : queued'[k] = Live(answer[at[k + 1]])
    /\ crossed' = (crossed \/ (active # NoEntry /\ m > 0))

\* A restore puts some of the answer's records there, from places of their own.
LEMMA RestoreShows ==
    ASSUME KioskType, Restore
    PROVE  \E m \in Nat : \E at \in [1..m -> DOMAIN answer] : RestoredAs(m, at)
<1> DEFINE gone == lapsed \cup dismissed
           live == Without(gone)
<1>1. answer \in Seq(Records) /\ \A i \in DOMAIN answer : answer[i] \in Records
  BY TypeFacts
<1>2. live \in Seq(Records)
  BY <1>1, WithoutFacts
<1>3. PICK at \in [DOMAIN live -> DOMAIN answer] :
                 /\ \A k \in DOMAIN at : live[k] = answer[at[k]] /\ answer[at[k]].call \notin gone
                 /\ \A k, l \in DOMAIN at : at[k] = at[l] => k = l
  BY <1>1, WithoutFacts
<1> DEFINE m == Len(live)
<1>4. StillLive = live
  BY DEF StillLive
<1> HIDE DEF live
<1>5. m \in Nat /\ DOMAIN live = 1..m /\ (live # <<>> <=> m > 0)
  BY <1>2
<1>6. at \in [1..m -> DOMAIN answer]
  BY <1>3, <1>5
<1>7. ASSUME NEW k \in 1..m
      PROVE  /\ live[k] = answer[at[k]] /\ at[k] \in DOMAIN answer /\ answer[at[k]].call \notin gone
             /\ Live(answer[at[k]]) \in Entries /\ ~Live(answer[at[k]]).review
             /\ Live(answer[at[k]]).call = answer[at[k]].call
             /\ Live(answer[at[k]]).ver = answer[at[k]].ver
             /\ answer[at[k]].call \in Calls
  <2>1. live[k] = answer[at[k]] /\ at[k] \in DOMAIN answer /\ answer[at[k]].call \notin gone
    BY <1>3, <1>5, <1>6
  <2>2. answer[at[k]].call \in Calls /\ answer[at[k]].ver \in 1..2
    BY <1>1, <2>1 DEF Records
  <2>3. /\ Live(answer[at[k]]) \in Entries /\ ~Live(answer[at[k]]).review
        /\ Live(answer[at[k]]).call = answer[at[k]].call
        /\ Live(answer[at[k]]).ver = answer[at[k]].ver
    BY <2>2, LiveFacts
  <2> QED
    BY <2>1, <2>2, <2>3
<1> DEFINE rest == [i \in 1..(Len(live) - 1) |-> Live(live[i + 1])]
<1>8. /\ active' = IF active = NoEntry /\ live # <<>> THEN Live(live[1]) ELSE active
      /\ queued' = IF Len(live) > 1 /\ queued = <<>> THEN rest ELSE queued
      /\ crossed' = (crossed \/ (active # NoEntry /\ live # <<>>))
  BY <1>4 DEF Restore
<1>9. active' = IF active = NoEntry /\ m > 0 THEN Live(answer[at[1]]) ELSE active
  BY <1>5, <1>7, <1>8
<1>10. m > 1 => /\ rest \in Seq(Entries) /\ DOMAIN rest = 1..(m - 1)
                /\ \A k \in 1..(m - 1) : rest[k] = Live(answer[at[k + 1]])
  <2> SUFFICES ASSUME m > 1 PROVE /\ rest \in Seq(Entries) /\ DOMAIN rest = 1..(m - 1)
                                  /\ \A k \in 1..(m - 1) : rest[k] = Live(answer[at[k + 1]])
    OBVIOUS
  <2>1. m - 1 \in Nat /\ \A k \in 1..(m - 1) : k + 1 \in 1..m
    BY <1>5
  <2>2. \A k \in 1..(m - 1) : rest[k] = Live(answer[at[k + 1]]) /\ rest[k] \in Entries
    BY <1>7, <2>1
  <2>3. rest \in [1..(m - 1) -> Entries]
    BY <2>2
  <2> QED
    BY <2>1, <2>2, <2>3, IsSequence
<1> HIDE DEF rest, m
<1>11. queued' = IF m > 1 /\ queued = <<>> THEN rest ELSE queued
  BY <1>8 DEF m
<1>12. crossed' = (crossed \/ (active # NoEntry /\ m > 0))
  BY <1>5, <1>8
<1>13. queued' \in Seq(Entries)
  BY <1>10, <1>11, TypeFacts
<1>14. \/ queued' = queued /\ ~(m > 1 /\ queued = <<>>)
       \/ /\ m > 1 /\ queued = <<>> /\ DOMAIN queued' = 1..(m - 1)
          /\ \A k \in 1..(m - 1) : queued'[k] = Live(answer[at[k + 1]])
  BY <1>10, <1>11
<1>15. \A k, l \in 1..m : at[k] = at[l] => k = l
  BY <1>3, <1>6
<1>16. RestoredAs(m, at)
  BY <1>7, <1>9, <1>12, <1>13, <1>14, <1>15 DEF RestoredAs
<1> QED
  BY <1>5, <1>6, <1>16

\* A restore takes nothing off, and what it puts there is neither lapsed nor dismissed.
LEMMA RestoreBrings ==
    ASSUME KioskType, Restore
    PROVE  /\ active' \in Entries \cup {NoEntry} /\ queued' \in Seq(Entries)
           /\ OnShow \ {NoEntry} \subseteq OnShow'
           /\ \A e \in OnShow' : \/ e \in OnShow
                                 \/ \E i \in DOMAIN answer :
                                       /\ e = Live(answer[i]) /\ e.call = answer[i].call /\ e.ver = answer[i].ver
                                       /\ ~e.review /\ e.call \in Calls \ dismissed
<1>0. PICK m \in Nat : \E at \in [1..m -> DOMAIN answer] : RestoredAs(m, at)
  BY RestoreShows
<1>a. PICK at \in [1..m -> DOMAIN answer] : RestoredAs(m, at)
  BY <1>0
<1>1. /\ \A k \in 1..m : /\ answer[at[k]].call \notin dismissed /\ at[k] \in DOMAIN answer
                         /\ Live(answer[at[k]]) \in Entries /\ ~Live(answer[at[k]]).review
                         /\ Live(answer[at[k]]).call = answer[at[k]].call
                         /\ Live(answer[at[k]]).ver = answer[at[k]].ver
                         /\ answer[at[k]].call \in Calls
      /\ active' = IF active = NoEntry /\ m > 0 THEN Live(answer[at[1]]) ELSE active
      /\ queued' \in Seq(Entries)
      /\ \/ queued' = queued
         \/ /\ m > 1 /\ queued = <<>> /\ DOMAIN queued' = 1..(m - 1)
            /\ \A k \in 1..(m - 1) : queued'[k] = Live(answer[at[k + 1]])
  BY <1>a DEF RestoredAs
<1> DEFINE New(e) == \E i \in DOMAIN answer :
                        /\ e = Live(answer[i]) /\ e.call = answer[i].call /\ e.ver = answer[i].ver
                        /\ ~e.review /\ e.call \in Calls \ dismissed
<1>2. \A k \in 1..m : New(Live(answer[at[k]]))
  BY <1>1
<1> HIDE DEF New
<1>3. active' = active \/ (New(active') /\ active = NoEntry /\ active' \in Entries)
  BY <1>1, <1>2
<1>4. \A i \in DOMAIN queued' : (\E j \in DOMAIN queued : queued'[i] = queued[j]) \/ New(queued'[i])
  <2>1. CASE queued' = queued
    BY <2>1
  <2>2. CASE /\ m > 1 /\ queued = <<>> /\ DOMAIN queued' = 1..(m - 1)
             /\ \A k \in 1..(m - 1) : queued'[k] = Live(answer[at[k + 1]])
    <3>1. \A k \in 1..(m - 1) : k + 1 \in 1..m
      OBVIOUS
    <3> QED
      BY <1>2, <2>2, <3>1
  <2> QED
    BY <1>1, <2>1, <2>2
<1>5. queued' = queued \/ queued = <<>>
  BY <1>1
<1>6. \A e \in OnShow' : e \in OnShow \/ New(e)
  BY <1>3, <1>4, OnShowIs
<1>7. OnShow \ {NoEntry} \subseteq OnShow'
  BY <1>3, <1>5, OnShowIs
<1>8. active' \in Entries \cup {NoEntry}
  BY <1>3, TypeFacts
<1> QED
  BY <1>1, <1>6, <1>7, <1>8 DEF New

(***************************************************************************)
(* Type correctness.                                                       *)
(***************************************************************************)

\* The steps that put a replay on show.
Reviews == ReplayLoads \/ \E c \in Calls \cup Past : ReplayCopy(c)

\* What both leave alone.
LEMMA ReviewFrame ==
    ASSUME Reviews
    PROVE  /\ reviewing' = TRUE /\ crossed' = (crossed \/ active # NoEntry)
           /\ wiped \subseteq wiped' /\ missed \subseteq missed'
           /\ UNCHANGED <<announced, ver, wire, dismissed, lapsed, fetch, answer, taken, again>>
<1>1. CASE ReplayLoads
  BY <1>1 DEF ReplayLoads, TriggerReview, server
<1>2. ASSUME NEW c, ReplayCopy(c)
      PROVE  /\ reviewing' = TRUE /\ crossed' = (crossed \/ active # NoEntry)
             /\ wiped \subseteq wiped' /\ missed \subseteq missed'
             /\ UNCHANGED <<announced, ver, wire, dismissed, lapsed, fetch, answer, taken, again>>
  BY <1>2 DEF ReplayCopy, TriggerReview, server
<1> QED
  BY <1>1, <1>2 DEF Reviews

\* The steps that change what is on show; the others leave the history of it alone.
LEMMA ScreenSteps ==
    ASSUME [Next]_vars
    PROVE  \/ ReceiveInsert
           \/ ReceiveUpdate
           \/ active # NoEntry /\ Leave
           \/ Reload
           \/ ExitReview
           \/ Restore
           \/ Reviews
           \/ UNCHANGED <<screen, dismissed, taken, wiped, again, crossed>>
<1>1. CASE UNCHANGED vars
  BY <1>1 DEF vars, screen, history
<1>2. ASSUME NEW c \in Calls, Announce(c) \/ Correct(c) \/ AnnounceAgain(c) \/ Lapse(c)
      PROVE  UNCHANGED <<screen, dismissed, taken, wiped, again, crossed>>
  BY <1>2 DEF Announce, Correct, AnnounceAgain, Lapse, history
<1>3. CASE LoseEvent \/ ServerReads \/ ServerReadsReplay \/ RestoreFails \/ ReplayFails
  BY <1>3 DEF LoseEvent, ServerReads, ServerReadsReplay, RestoreFails, ReplayFails, history
<1>4. ASSUME NEW c \in Calls \cup Past, AskReplay(c)
      PROVE  UNCHANGED <<screen, dismissed, taken, wiped, again, crossed>>
  BY <1>4 DEF AskReplay, history
<1>5. CASE Dismiss \/ Advance \/ CountdownEnds
  BY <1>5 DEF Dismiss, Advance, CountdownEnds, ClockRuns
<1> QED
  BY <1>1, <1>2, <1>3, <1>4, <1>5 DEF Next, Reviews

\* The call that an INSERT brings, and the one a replay brings.
LEMMA InsertBrings ==
    ASSUME KioskType
    PROVE  /\ ReceiveInsert => \E n \in Entries : /\ n = Entry(Head(wire).call, Head(wire).ver, FALSE)
                                                  /\ n.call = Head(wire).call /\ n.ver = Head(wire).ver
                                                  /\ n.call \in Calls /\ ~n.review /\ Insert(n)
           /\ Reviews => \E n \in Entries : /\ n.review /\ Insert(n) /\ wiped' = wiped \cup Replayed(n)
                                            /\ \/ n.call = loading /\ n.ver = copy /\ copy # 0
                                               \/ \E c : /\ n.call = c
                                                        /\ missed' = IF Behind(c, n.ver) THEN missed \cup {c} ELSE missed
<1>1. ASSUME ReceiveInsert
      PROVE  LET n == Entry(Head(wire).call, Head(wire).ver, FALSE)
             IN  /\ n \in Entries /\ n.call = Head(wire).call /\ n.ver = Head(wire).ver
                 /\ n.call \in Calls /\ ~n.review /\ Insert(n)
  <2>1. Head(wire) \in Events
    BY <1>1, TypeFacts, TailFacts DEF ReceiveInsert
  <2>2. Head(wire).call \in Calls /\ Head(wire).ver \in 1..2
    BY <2>1 DEF Events
  <2> QED
    BY <1>1, <2>2, LiveEntry DEF ReceiveInsert
<1>2. ASSUME NEW c \in Calls \cup Past, NEW v \in 1..2, TriggerReview(Entry(c, v, TRUE))
      PROVE  \E n \in Entries : /\ n.call = c /\ n.ver = v /\ n.review
                                /\ Insert(n) /\ wiped' = wiped \cup Replayed(n)
  <2>1. PICK n : n = Entry(c, v, TRUE)
    OBVIOUS
  <2>2. n \in Entries /\ n.call = c /\ n.ver = v /\ n.review
    BY <1>2, <2>1 DEF Entry, Entries
  <2>3. TriggerReview(n)
    BY <1>2, <2>1
  <2>4. Insert(n) /\ wiped' = wiped \cup Replayed(n)
    BY <2>3 DEF TriggerReview
  <2> QED
    BY <2>2, <2>4
<1>3. ASSUME ReplayLoads
      PROVE  \E n \in Entries : /\ n.call = loading /\ n.ver = copy /\ copy # 0 /\ n.review
                                /\ Insert(n) /\ wiped' = wiped \cup Replayed(n)
  <2>1. loading # NoCall /\ copy # 0
    BY <1>3 DEF ReplayLoads
  <2>2. loading \in Calls \cup Past \cup {NoCall} /\ copy \in 0..2
    BY DEF KioskType, KioskTypeOK
  <2>3. loading \in Calls \cup Past /\ copy \in 1..2
    BY <2>1, <2>2
  <2>4. PICK n : n = Entry(loading, copy, TRUE)
    OBVIOUS
  <2>5. n \in Entries /\ n.call = loading /\ n.ver = copy /\ n.review
    BY <2>3, <2>4 DEF Entry, Entries
  <2>6. TriggerReview(n)
    BY <1>3, <2>4 DEF ReplayLoads
  <2>7. Insert(n) /\ wiped' = wiped \cup Replayed(n)
    BY <2>6 DEF TriggerReview
  <2> QED
    BY <2>1, <2>5, <2>7
<1>4. ASSUME NEW c \in Calls \cup Past, ReplayCopy(c)
      PROVE  \E v \in 1..2 : /\ TriggerReview(Entry(c, v, TRUE))
                             /\ missed' = IF Behind(c, v) THEN missed \cup {c} ELSE missed
  <2>1. CopiesOf(c) \subseteq 1..2
    <3>1. c \in Calls => ver[c] \in 0..2
      BY TypeFacts
    <3> QED
      BY <3>1 DEF CopiesOf
  <2> QED
    BY <1>4, <2>1 DEF ReplayCopy
<1>5. Reviews => \E n \in Entries : /\ n.review /\ Insert(n) /\ wiped' = wiped \cup Replayed(n)
                                    /\ \/ n.call = loading /\ n.ver = copy /\ copy # 0
                                       \/ \E c : /\ n.call = c
                                                /\ missed' = IF Behind(c, n.ver) THEN missed \cup {c} ELSE missed
  <2>1. CASE ReplayLoads
    BY <1>3, <2>1
  <2>2. CASE \E c \in Calls \cup Past : ReplayCopy(c)
    <3>1. PICK c \in Calls \cup Past : ReplayCopy(c)
      BY <2>2
    <3>2. PICK v \in 1..2 : /\ TriggerReview(Entry(c, v, TRUE))
                            /\ missed' = IF Behind(c, v) THEN missed \cup {c} ELSE missed
      BY <1>4, <3>1
    <3>3. PICK n \in Entries : /\ n.call = c /\ n.ver = v /\ n.review
                               /\ Insert(n) /\ wiped' = wiped \cup Replayed(n)
      BY <1>2, <3>2
    <3>4. missed' = IF Behind(c, n.ver) THEN missed \cup {c} ELSE missed
      BY <3>2, <3>3
    <3> QED
      BY <3>3, <3>4
  <2> QED
    BY <2>1, <2>2 DEF Reviews
<1> QED
  BY <1>1, <1>5

\* Only a replay is of a call of an earlier day.
OfToday(e) == e.call = NoCall \/ e.review \/ e.call \in Calls

\* What comes of an entry of today is one.
LEMMA FromToday ==
    ASSUME NEW d \in Entries \cup {NoEntry}, NEW e, NEW n \in Entries, From(d, e, n), OfToday(d)
    PROVE  OfToday(e)
<1>1. CASE d \in Entries
  BY <1>1, FromFacts DEF OfToday
<1>2. CASE d = NoEntry
  <2>1. n.call # d.call
    BY <1>2, EntryFacts
  <2> QED
    BY <2>1 DEF From
<1> QED
  BY <1>1, <1>2

LEMMA EmptySeq ==
    ASSUME NEW S
    PROVE  <<>> \in Seq(S) /\ Len(<<>>) = 0
  OBVIOUS

\* Only entries are on show, and only replays are of earlier days.
LEMMA ScreenType ==
    ASSUME KioskType, [Next]_vars
    PROVE  /\ active' \in Entries \cup {NoEntry} /\ queued' \in Seq(Entries) /\ reviewing' \in BOOLEAN
           /\ \A e \in OnShow' : OfToday(e)
<1>a. /\ active \in Entries \cup {NoEntry} /\ queued \in Seq(Entries) /\ reviewing \in BOOLEAN
      /\ \A e \in OnShow : OfToday(e)
      /\ \A e \in OnShow : e \in Entries \cup {NoEntry}
  BY TypeFacts DEF KioskType, KioskTypeOK, OfToday
<1>1. ASSUME NEW n \in Entries, Insert(n), OfToday(n)
      PROVE  /\ active' \in Entries /\ queued' \in Seq(Entries)
             /\ \A e \in OnShow' : OfToday(e)
  <2>1. /\ active' \in Entries /\ queued' \in Seq(Entries)
        /\ \A e \in OnShow' : e = n \/ \E d \in OnShow : From(d, e, n)
    BY <1>1, InsertShows
  <2> QED
    BY <1>1, <1>a, <2>1, FromToday
<1>2. CASE ReceiveInsert
  <2>1. \E n \in Entries : Insert(n) /\ OfToday(n)
    BY <1>2, InsertBrings DEF OfToday
  <2> QED
    BY <1>1, <1>2, <2>1 DEF ReceiveInsert
<1>3. CASE Reviews
  <2>1. \E n \in Entries : Insert(n) /\ OfToday(n)
    BY <1>3, InsertBrings DEF OfToday
  <2> QED
    BY <1>1, <1>3, <2>1, ReviewFrame
<1>4. CASE ReceiveUpdate
  <2> DEFINE n == Entry(Head(wire).call, Head(wire).ver, FALSE)
  <2>1. /\ n \in Entries /\ active' \in Entries \cup {NoEntry} /\ queued' \in Seq(Entries)
        /\ \A e \in OnShow' : \E d \in OnShow : From(d, e, n)
    BY <1>4, UpdateShows
  <2>2. reviewing' = reviewing
    BY <1>4 DEF ReceiveUpdate
  <2> HIDE DEF n
  <2> QED
    BY <1>a, <2>1, <2>2, FromToday
<1>5. CASE active # NoEntry /\ Leave
  <2>1. OfToday(NoEntry)
    BY EntryFacts DEF OfToday
  <2>2. reviewing' = reviewing
    BY <1>5 DEF Leave
  <2> QED
    BY <1>5, <1>a, <2>1, <2>2, LeaveShows
<1>6. CASE Reload \/ ExitReview
  <2>1. active' = NoEntry /\ queued' = <<>> /\ reviewing' = FALSE
    BY <1>6 DEF Reload, ExitReview
  <2>2. OfToday(NoEntry)
    BY EntryFacts DEF OfToday
  <2>3. \A e \in OnShow' : e = NoEntry
    BY <2>1, OnShowIs
  <2>4. \A e \in OnShow' : OfToday(e)
    BY <2>2, <2>3
  <2> QED
    BY <2>1, <2>4, EmptySeq
<1>7. CASE Restore
  <2>1. reviewing' = reviewing
    BY <1>7 DEF Restore
  <2> QED
    BY <1>7, <1>a, <2>1, RestoreBrings DEF OfToday
<1>8. CASE UNCHANGED <<screen, dismissed, taken, wiped, again, crossed>>
  <2>1. active' = active /\ queued' = queued /\ reviewing' = reviewing
    BY <1>8 DEF screen
  <2>2. OnShow' = OnShow
    BY <2>1 DEF OnShow
  <2> QED
    BY <1>a, <2>1, <2>2
<1> QED
  BY <1>2, <1>3, <1>4, <1>5, <1>6, <1>7, <1>8, ScreenSteps

\* Only events are under way, no more than bounded.
LEMMA WireType ==
    ASSUME KioskType, [Next]_vars
    PROVE  wire' \in Seq(Events) /\ Len(wire') <= MaxEvents
<1>1. wire \in Seq(Events) /\ Len(wire) <= MaxEvents /\ MaxEvents \in Nat
  BY KioskConstantsOK DEF KioskType, KioskTypeOK
<1>2. ASSUME NEW c \in Calls, NEW v \in 1..2, Publish("INSERT", c, v) \/ Publish("UPDATE", c, v)
      PROVE  wire' \in Seq(Events) /\ Len(wire') <= MaxEvents
  <2>1. PICK e \in Events : Len(wire) < MaxEvents /\ wire' = Append(wire, e)
    BY <1>2 DEF Publish, Events
  <2> QED
    BY <1>1, <2>1, AppendFacts
<1>3. ASSUME NEW c \in Calls, Announce(c) \/ Correct(c) \/ AnnounceAgain(c)
      PROVE  wire' \in Seq(Events) /\ Len(wire') <= MaxEvents
  <2>1. ver \in [Calls -> 0..2]
    BY TypeFacts
  <2>2. \E v \in 1..2 : Publish("INSERT", c, v) \/ Publish("UPDATE", c, v)
    BY <1>3, <2>1 DEF Announce, Correct, AnnounceAgain
  <2> QED
    BY <1>2, <2>2
<1>4. CASE wire # <<>> /\ wire' = Tail(wire)
  BY <1>1, <1>4, TailFacts
<1>5. CASE wire' = <<>>
  BY <1>1, <1>5
<1>6. CASE UNCHANGED wire
  BY <1>1, <1>6
<1>7. CASE LoseEvent \/ ReceiveInsert \/ ReceiveUpdate
  BY <1>4, <1>7 DEF LoseEvent, ReceiveInsert, ReceiveUpdate
<1>8. CASE Reload
  BY <1>5, <1>8 DEF Reload
<1>9. CASE Dismiss \/ Advance \/ CountdownEnds \/ ExitReview
  BY <1>6, <1>9 DEF Dismiss, Advance, CountdownEnds, Leave, ExitReview
<1>10. CASE Restore \/ ServerReads \/ ServerReadsReplay \/ RestoreFails \/ ReplayFails \/ Reviews
  BY <1>6, <1>10, ReviewFrame DEF Restore, ServerReads, ServerReadsReplay, RestoreFails, ReplayFails
<1>11. ASSUME NEW c, Lapse(c) \/ AskReplay(c) PROVE UNCHANGED wire
  BY <1>11 DEF Lapse, AskReplay
<1>12. CASE UNCHANGED vars
  BY <1>6, <1>12 DEF vars
<1> QED
  BY <1>3, <1>6, <1>7, <1>8, <1>9, <1>10, <1>11, <1>12 DEF Next, Reviews

\* What is stored: a call's version grows, and only announced calls have one.
LEMMA ServerType ==
    ASSUME KioskType, [Next]_vars
    PROVE  /\ announced' \in Seq(Calls) /\ ver' \in [Calls -> 0..2]
           /\ \A c \in Calls : ver[c] <= ver'[c]
           /\ \A i \in DOMAIN announced' : ver'[announced'[i]] > 0
<1>a. /\ announced \in Seq(Calls) /\ ver \in [Calls -> 0..2] /\ \A i \in DOMAIN announced : announced[i] \in Calls
      /\ \A i \in DOMAIN announced : ver[announced[i]] > 0
  BY TypeFacts DEF KioskType
<1>1. ASSUME NEW c \in Calls, Announce(c)
      PROVE  /\ announced' \in Seq(Calls) /\ ver' \in [Calls -> 0..2]
             /\ \A b \in Calls : ver[b] <= ver'[b]
             /\ \A i \in DOMAIN announced' : ver'[announced'[i]] > 0
  <2>1. ver[c] = 0 /\ announced' = Append(announced, c) /\ ver' = [ver EXCEPT ![c] = 1]
    BY <1>1 DEF Announce
  <2>2. /\ announced' \in Seq(Calls)
        /\ \A i \in DOMAIN announced' : (i \in DOMAIN announced /\ announced'[i] = announced[i]) \/ announced'[i] = c
    BY <1>a, <2>1, AppendFacts
  <2>3. ver' \in [Calls -> 0..2] /\ \A b \in Calls : ver[b] <= ver'[b]
    BY <1>a, <2>1
  <2>4. ver'[c] = 1
    BY <1>a, <2>1
  <2> QED
    BY <1>a, <2>2, <2>3, <2>4
<1>2. ASSUME NEW c \in Calls, Correct(c)
      PROVE  /\ announced' \in Seq(Calls) /\ ver' \in [Calls -> 0..2]
             /\ \A b \in Calls : ver[b] <= ver'[b]
             /\ \A i \in DOMAIN announced' : ver'[announced'[i]] > 0
  <2>1. ver[c] = 1 /\ announced' = announced /\ ver' = [ver EXCEPT ![c] = 2]
    BY <1>2 DEF Correct
  <2>2. ver' \in [Calls -> 0..2] /\ \A b \in Calls : ver[b] <= ver'[b]
    BY <1>a, <2>1
  <2> QED
    BY <1>a, <2>1, <2>2
<1>3. CASE UNCHANGED server
  <2>1. announced' = announced /\ ver' = ver
    BY <1>3 DEF server
  <2> QED
    BY <1>a, <2>1
<1>4. CASE LoseEvent \/ ReceiveInsert \/ ReceiveUpdate \/ Reload \/ ExitReview
  BY <1>3, <1>4 DEF LoseEvent, ReceiveInsert, ReceiveUpdate, Reload, ExitReview
<1>5. CASE Dismiss \/ Advance \/ CountdownEnds
  BY <1>3, <1>5 DEF Dismiss, Advance, CountdownEnds, Leave
<1>6. CASE Restore \/ ServerReads \/ ServerReadsReplay \/ RestoreFails \/ ReplayFails \/ Reviews
  <2>1. CASE Reviews
    BY <1>3, <2>1, ReviewFrame DEF server
  <2>2. CASE Restore \/ ServerReads \/ ServerReadsReplay \/ RestoreFails \/ ReplayFails
    BY <1>3, <2>2 DEF Restore, ServerReads, ServerReadsReplay, RestoreFails, ReplayFails
  <2> QED
    BY <1>6, <2>1, <2>2
<1>7. ASSUME NEW c, Lapse(c) \/ AskReplay(c) \/ AnnounceAgain(c) PROVE UNCHANGED server
  BY <1>7 DEF Lapse, AskReplay, AnnounceAgain
<1>8. CASE UNCHANGED vars
  BY <1>3, <1>8 DEF vars
<1> QED
  BY <1>1, <1>2, <1>3, <1>4, <1>5, <1>6, <1>7, <1>8 DEF Next, Reviews

\* An answer is read, kept until it is used, or given up.
LEMMA AnswerSteps ==
    ASSUME [Next]_vars
    PROVE  \/ ServerReads
           \/ answer' = <<>> /\ fetch' \in {"sent", "done"}
           \/ answer' = answer /\ fetch' = fetch
<1>1. CASE LoseEvent \/ ReceiveInsert \/ ReceiveUpdate \/ Reload \/ ExitReview
  BY <1>1 DEF LoseEvent, ReceiveInsert, ReceiveUpdate, Reload, ExitReview, requests
<1>2. CASE Dismiss \/ Advance \/ CountdownEnds
  BY <1>2 DEF Dismiss, Advance, CountdownEnds, Leave, requests
<1>3. CASE Restore \/ RestoreFails \/ ServerReadsReplay \/ ReplayFails \/ Reviews
  BY <1>3, ReviewFrame DEF Restore, RestoreFails, ServerReadsReplay, ReplayFails
<1>4. ASSUME NEW c, Lapse(c) \/ Announce(c) \/ Correct(c) \/ AnnounceAgain(c)
      PROVE  fetch' = fetch /\ answer' = answer
  BY <1>4 DEF Lapse, Announce, Correct, AnnounceAgain, requests
<1>5. ASSUME NEW c, AskReplay(c) PROVE fetch' = fetch /\ answer' = answer
  BY <1>5 DEF AskReplay
<1>6. CASE UNCHANGED vars
  BY <1>6 DEF vars, requests
<1> QED
  BY <1>1, <1>2, <1>3, <1>4, <1>5, <1>6 DEF Next, Reviews

\* A record is asked for, read, kept until it is used, or given up.
LEMMA LoadingSteps ==
    ASSUME [Next]_vars
    PROVE  /\ loading' = loading \/ loading' = NoCall \/ \E c \in Calls \cup Past : AskReplay(c)
           /\ ServerReadsReplay \/ copy' = 0 \/ (copy' = copy /\ loading' = loading)
<1>1. CASE UNCHANGED <<loading, copy>>
  BY <1>1
<1>2. CASE loading' = NoCall /\ copy' = 0
  BY <1>2
<1>3. CASE LoseEvent \/ ReceiveInsert \/ ReceiveUpdate \/ ExitReview
  BY <1>1, <1>3 DEF LoseEvent, ReceiveInsert, ReceiveUpdate, ExitReview, requests
<1>4. CASE Dismiss \/ Advance \/ CountdownEnds
  BY <1>1, <1>4 DEF Dismiss, Advance, CountdownEnds, Leave, requests
<1>5. CASE Restore \/ ServerReads \/ RestoreFails
  BY <1>1, <1>5 DEF Restore, ServerReads, RestoreFails
<1>6. CASE Reload \/ ReplayLoads \/ ReplayFails
  BY <1>2, <1>6 DEF Reload, ReplayLoads, ReplayFails
<1>7. CASE ServerReadsReplay
  BY <1>7 DEF ServerReadsReplay
<1>8. ASSUME NEW c \in Calls \cup Past, AskReplay(c)
      PROVE  copy' = 0
  BY <1>8 DEF AskReplay
<1>9. ASSUME NEW c, Lapse(c) \/ Announce(c) \/ Correct(c) \/ AnnounceAgain(c) \/ ReplayCopy(c)
      PROVE  UNCHANGED <<loading, copy>>
  BY <1>9 DEF Lapse, Announce, Correct, AnnounceAgain, ReplayCopy, requests
<1>10. CASE UNCHANGED vars
  BY <1>1, <1>10 DEF vars, requests
<1> QED
  BY <1>1, <1>3, <1>4, <1>5, <1>6, <1>7, <1>8, <1>9, <1>10 DEF Next

\* The restore request, its answer and the record the review screen awaits.
LEMMA RequestsType ==
    ASSUME KioskType, [Next]_vars
    PROVE  /\ fetch' \in {"sent", "read", "done"} /\ answer' \in Seq(Records)
           /\ loading' \in Calls \cup Past \cup {NoCall} /\ copy' \in 0..2
           /\ loading' \in Calls => ver'[loading'] > 0
<1>a. /\ fetch \in {"sent", "read", "done"} /\ answer \in Seq(Records)
      /\ loading \in Calls \cup Past \cup {NoCall} /\ (loading \in Calls => ver[loading] > 0)
      /\ copy \in 0..2
  BY DEF KioskType, KioskTypeOK
<1>b. ver \in [Calls -> 0..2] /\ ver' \in [Calls -> 0..2] /\ \A c \in Calls : ver[c] <= ver'[c]
  BY ServerType, TypeFacts
<1>c. NoCall \notin Calls
  BY KioskConstantsOK
<1>2. ASSUME NEW c \in Calls \cup Past, AskReplay(c)
      PROVE  loading' \in Calls \cup Past /\ (loading' \in Calls => ver[loading'] > 0)
  BY <1>2, KioskConstantsOK DEF AskReplay, OpensReplay, Stored
<1>d. copy' \in 0..2
  <2>1. CASE ServerReadsReplay
    <3>1. loading \in Calls => ver[loading] \in 0..2
      BY <1>b
    <3> QED
      BY <2>1, <3>1 DEF ServerReadsReplay
  <2>2. CASE copy' \in {0, copy}
    BY <1>a, <2>2
  <2> QED
    BY <2>1, <2>2, LoadingSteps
<1>3. /\ loading' \in Calls \cup Past \cup {NoCall}
      /\ loading' \in Calls => ver'[loading'] > 0
  <2>1. loading' \in Calls \cup Past \cup {NoCall} /\ (loading' \in Calls => ver[loading'] > 0)
    BY <1>a, <1>2, <1>c, LoadingSteps
  <2> QED
    BY <1>b, <2>1
<1>4. CASE ServerReads
  <2> DEFINE read == [i \in DOMAIN announced |-> [call |-> announced[i], ver |-> ver[announced[i]]]]
  <2>1. /\ announced \in Seq(Calls) /\ Len(announced) \in Nat /\ DOMAIN announced = 1..Len(announced)
        /\ \A i \in DOMAIN announced : announced[i] \in Calls /\ ver[announced[i]] \in 1..2
    BY <1>b, TypeFacts DEF KioskType
  <2>2. \A i \in DOMAIN announced : read[i] \in Records
    BY <2>1 DEF Records
  <2>3. read \in [1..Len(announced) -> Records]
    BY <2>1, <2>2
  <2>4. read \in Seq(Records)
    BY <2>1, <2>3, IsSequence
  <2>5. fetch' = "read" /\ answer' = read
    BY <1>4 DEF ServerReads
  <2> QED
    BY <1>3, <1>d, <2>4, <2>5
<1>5. CASE ~ServerReads
  <2>1. answer' = answer \/ answer' = <<>>
    BY <1>5, AnswerSteps
  <2>2. fetch' \in {"sent", "read", "done"}
    BY <1>a, <1>5, AnswerSteps
  <2> QED
    BY <1>a, <1>3, <1>d, <2>1, <2>2, EmptySeq
<1> QED
  BY <1>4, <1>5

\* A live call on the screen is one of Calls.
LEMMA LiveActive ==
    ASSUME KioskType, active # NoEntry, ~active.review
    PROVE  active.call \in Calls
<1>1. active \in Entries /\ active \in OnShow
  BY TypeFacts, OnShowIs
<1> QED
  BY <1>1, EntryFacts DEF KioskType

\* What is dismissed and what the history holds are calls of today.
LEMMA HistoryType ==
    ASSUME KioskType, [Next]_vars
    PROVE  /\ dismissed' \subseteq Calls /\ lapsed' \subseteq Calls
           /\ bounds' \in [again : 0..MaxAgain, reloads : 0..MaxReloads, replays : 0..MaxReplays]
           /\ taken' \cup wiped' \cup again' \cup missed' \subseteq Calls
           /\ crossed' \in BOOLEAN
<1>a. /\ dismissed \subseteq Calls /\ lapsed \subseteq Calls
      /\ bounds \in [again : 0..MaxAgain, reloads : 0..MaxReloads, replays : 0..MaxReplays]
      /\ taken \subseteq Calls /\ wiped \subseteq Calls /\ again \subseteq Calls /\ missed \subseteq Calls
      /\ crossed \in BOOLEAN
  BY DEF KioskType, KioskTypeOK
<1>b. wire # <<>> => Head(wire).call \in Calls
  <2>1. wire # <<>> => Head(wire) \in Events
    BY TypeFacts, TailFacts
  <2> QED
    BY <2>1 DEF Events
<1>c. \A i \in DOMAIN wire : wire[i].call \in Calls
  <2>1. \A i \in DOMAIN wire : wire[i] \in Events
    BY TypeFacts
  <2> QED
    BY <2>1 DEF Events
<1>d. {MaxEvents, MaxAgain, MaxReloads, MaxReplays} \subseteq Nat
  BY KioskConstantsOK
<1>1. dismissed' \subseteq Calls /\ lapsed' \subseteq Calls
  <2>1. CASE active # NoEntry /\ Leave
    BY <1>a, <2>1, LiveActive DEF Leave
  <2>2. CASE Dismiss \/ Advance \/ CountdownEnds
    BY <2>1, <2>2 DEF Dismiss, Advance, CountdownEnds, ClockRuns
  <2>3. CASE LoseEvent \/ ReceiveInsert \/ ReceiveUpdate \/ Reload \/ ExitReview
    BY <1>a, <2>3 DEF LoseEvent, ReceiveInsert, ReceiveUpdate, Reload, ExitReview
  <2>4. CASE Restore \/ ServerReads \/ ServerReadsReplay \/ RestoreFails \/ ReplayFails \/ Reviews
    BY <1>a, <2>4, ReviewFrame DEF Restore, ServerReads, ServerReadsReplay, RestoreFails, ReplayFails
  <2>5. ASSUME NEW c, Announce(c) \/ Correct(c) \/ AnnounceAgain(c) \/ AskReplay(c)
        PROVE  UNCHANGED <<dismissed, lapsed>>
    BY <2>5 DEF Announce, Correct, AnnounceAgain, AskReplay
  <2>6. ASSUME NEW c \in Calls, Lapse(c) PROVE dismissed' \subseteq Calls /\ lapsed' \subseteq Calls
    BY <1>a, <2>6 DEF Lapse
  <2>7. CASE UNCHANGED vars
    BY <1>a, <2>7 DEF vars
  <2> QED
    BY <1>a, <2>2, <2>3, <2>4, <2>5, <2>6, <2>7 DEF Next, Reviews
<1>2. bounds' \in [again : 0..MaxAgain, reloads : 0..MaxReloads, replays : 0..MaxReplays]
  <2>1. CASE LoseEvent \/ ReceiveInsert \/ ReceiveUpdate \/ ExitReview
    BY <1>a, <2>1 DEF LoseEvent, ReceiveInsert, ReceiveUpdate, ExitReview
  <2>2. CASE Dismiss \/ Advance \/ CountdownEnds
    BY <1>a, <2>2 DEF Dismiss, Advance, CountdownEnds, Leave
  <2>3. CASE Restore \/ ServerReads \/ ServerReadsReplay \/ RestoreFails \/ ReplayFails \/ ReplayLoads
    BY <1>a, <2>3 DEF Restore, ServerReads, ServerReadsReplay, RestoreFails, ReplayFails, ReplayLoads
  <2>4. ASSUME NEW c, Announce(c) \/ Correct(c) \/ Lapse(c) PROVE UNCHANGED bounds
    BY <2>4 DEF Announce, Correct, Lapse
  <2>5. ASSUME NEW c, AnnounceAgain(c)
        PROVE  bounds' \in [again : 0..MaxAgain, reloads : 0..MaxReloads, replays : 0..MaxReplays]
    BY <1>a, <1>d, <2>5 DEF AnnounceAgain
  <2>6. ASSUME NEW c, AskReplay(c) \/ ReplayCopy(c)
        PROVE  bounds' \in [again : 0..MaxAgain, reloads : 0..MaxReloads, replays : 0..MaxReplays]
    <3>1. OpensReplay(c)
      BY <2>6 DEF AskReplay, ReplayCopy
    <3> QED
      BY <1>a, <1>d, <3>1 DEF OpensReplay
  <2>7. CASE Reload
    BY <1>a, <1>d, <2>7 DEF Reload
  <2>8. CASE UNCHANGED vars
    BY <1>a, <2>8 DEF vars
  <2> QED
    BY <1>a, <2>1, <2>2, <2>3, <2>4, <2>5, <2>6, <2>7, <2>8 DEF Next, Reviews
<1>3. taken' \cup wiped' \cup again' \cup missed' \subseteq Calls
  <2>1. CASE LoseEvent \/ ReceiveUpdate
    BY <1>a, <1>b, <2>1 DEF LoseEvent, ReceiveUpdate
  <2>2. CASE ReceiveInsert
    BY <1>a, <1>b, <2>2 DEF ReceiveInsert, TakesIn
  <2>3. CASE Dismiss \/ Advance \/ CountdownEnds
    BY <1>a, <2>3 DEF Dismiss, Advance, CountdownEnds, Leave
  <2>4. CASE Reload
    BY <1>a, <1>c, <2>4 DEF Reload
  <2>5. CASE ExitReview
    BY <1>a, <2>5 DEF ExitReview
  <2>6. CASE Restore
    BY <1>a, <2>6 DEF Restore, TakesIn
  <2>7. CASE Reviews
    <3>1. wiped' \subseteq Calls
      BY <1>a, <2>7, InsertBrings DEF Replayed
    <3>2. taken' = taken /\ again' = again
      BY <2>7, ReviewFrame
    <3>3. missed' \subseteq Calls
      BY <1>a, <2>7 DEF Reviews, ReplayLoads, ReplayCopy, Behind
    <3> QED
      BY <1>a, <3>1, <3>2, <3>3
  <2>8. CASE ServerReads \/ ServerReadsReplay \/ RestoreFails \/ ReplayFails
    BY <1>a, <2>8 DEF ServerReads, ServerReadsReplay, RestoreFails, ReplayFails, history
  <2>9. ASSUME NEW c, Announce(c) \/ Correct(c) \/ AnnounceAgain(c) \/ AskReplay(c) \/ Lapse(c)
        PROVE  UNCHANGED <<taken, wiped, again, missed>>
    BY <2>9 DEF Announce, Correct, AnnounceAgain, AskReplay, Lapse, history
  <2>10. CASE UNCHANGED vars
    BY <1>a, <2>10 DEF vars, history
  <2> QED
    BY <1>a, <2>1, <2>2, <2>3, <2>4, <2>5, <2>6, <2>7, <2>8, <2>9, <2>10 DEF Next, Reviews
<1>4. crossed' \in BOOLEAN
  <2>1. CASE ReceiveInsert \/ ReceiveUpdate \/ Reload \/ ExitReview
    BY <1>a, <2>1 DEF ReceiveInsert, ReceiveUpdate, Reload, ExitReview
  <2>2. CASE active # NoEntry /\ Leave
    BY <1>a, <2>2 DEF Leave
  <2>3. CASE Restore
    BY <1>a, <2>3 DEF Restore
  <2>4. CASE Reviews
    BY <1>a, <2>4, ReviewFrame
  <2> QED
    BY <1>a, <2>1, <2>2, <2>3, <2>4, ScreenSteps
<1> QED
  BY <1>1, <1>2, <1>3, <1>4

LEMMA KioskTypeStep ==
    ASSUME KioskType, [Next]_vars
    PROVE  KioskType'
<1>1. KioskTypeOK'
  BY ScreenType, WireType, ServerType, RequestsType, HistoryType DEF KioskTypeOK
<1> QED
  BY <1>1, ScreenType, ServerType, RequestsType DEF KioskType, OfToday

LEMMA InitFacts ==
    ASSUME Init
    PROVE  /\ announced = <<>> /\ wire = <<>> /\ active = NoEntry /\ queued = <<>> /\ answer = <<>>
           /\ \A i : i \notin DOMAIN <<>>
           /\ \A e \in OnShow : e = NoEntry
  BY DEF Init, OnShow

LEMMA KioskTypeInit == Init => KioskType
<1> SUFFICES ASSUME Init PROVE KioskType
  OBVIOUS
<1>a. {MaxEvents, MaxAgain, MaxReloads, MaxReplays} \subseteq Nat
  BY KioskConstantsOK
<1>b. /\ bounds \in [again : 0..MaxAgain, reloads : 0..MaxReloads, replays : 0..MaxReplays]
      /\ Len(wire) <= MaxEvents
  BY <1>a, EmptySeq DEF Init
<1>c. ver \in [Calls -> 0..2] /\ loading = NoCall /\ copy = 0 /\ fetch = "sent" /\ crossed = FALSE /\ reviewing = FALSE
  BY DEF Init
<1>d. /\ announced \in Seq(Calls) /\ wire \in Seq(Events) /\ queued \in Seq(Entries) /\ answer \in Seq(Records)
      /\ active = NoEntry
  BY InitFacts, EmptySeq
<1>e. /\ dismissed = {} /\ lapsed = {} /\ taken = {} /\ wiped = {} /\ again = {} /\ missed = {}
  BY DEF Init
<1>f. copy \in 0..2 /\ loading \in Calls \cup Past \cup {NoCall}
  BY <1>c
<1>1. KioskTypeOK
  BY <1>b, <1>c, <1>d, <1>e, <1>f DEF KioskTypeOK
<1>2. loading \notin Calls
  BY KioskConstantsOK DEF Init
<1> QED
  BY <1>1, <1>2, InitFacts, EntryFacts DEF KioskType

(***************************************************************************)
(* One incident, one place.                                                *)
(***************************************************************************)

\* No call is announced twice, so no answer names one twice.
LEMMA AnswersStep ==
    ASSUME KioskType, AnswersInv, [Next]_vars
    PROVE  AnswersInv'
<1>1. \A i, j \in DOMAIN announced' : announced'[i] = announced'[j] => i = j
  <2>1. ASSUME NEW c \in Calls, Announce(c)
        PROVE  \A i, j \in DOMAIN announced' : announced'[i] = announced'[j] => i = j
    <3>1. announced' = Append(announced, c) /\ ver[c] = 0 /\ announced \in Seq(Calls)
      BY <2>1, TypeFacts DEF Announce
    <3>2. \A i \in DOMAIN announced : announced[i] # c
      BY <3>1 DEF KioskType
    <3>3. /\ \A i \in DOMAIN announced : announced'[i] = announced[i]
          /\ announced'[Len(announced) + 1] = c
          /\ \A i \in DOMAIN announced' : i \in DOMAIN announced \/ i = Len(announced) + 1
      BY <3>1, AppendFacts
    <3>4. \A i, j \in DOMAIN announced : announced[i] = announced[j] => i = j
      BY DEF AnswersInv
    <3> QED
      BY <3>2, <3>3, <3>4
  <2>2. (\E c \in Calls : Announce(c)) \/ announced' = announced
    <3>1. ASSUME NEW c, Correct(c) PROVE announced' = announced
      BY <3>1 DEF Correct
    <3>2. CASE UNCHANGED server
      BY <3>2 DEF server
    <3>3. CASE LoseEvent \/ ReceiveInsert \/ ReceiveUpdate \/ Reload \/ ExitReview
      BY <3>2, <3>3 DEF LoseEvent, ReceiveInsert, ReceiveUpdate, Reload, ExitReview
    <3>4. CASE Dismiss \/ Advance \/ CountdownEnds
      BY <3>2, <3>4 DEF Dismiss, Advance, CountdownEnds, Leave
    <3>5. CASE Restore \/ ServerReads \/ ServerReadsReplay \/ RestoreFails \/ ReplayFails \/ Reviews
      BY <3>2, <3>5, ReviewFrame DEF Restore, ServerReads, ServerReadsReplay, RestoreFails, ReplayFails
    <3>6. ASSUME NEW c, Lapse(c) \/ AskReplay(c) \/ AnnounceAgain(c) PROVE UNCHANGED server
      BY <3>6 DEF Lapse, AskReplay, AnnounceAgain
    <3>7. CASE UNCHANGED vars
      BY <3>2, <3>7 DEF vars
    <3> QED
      BY <3>1, <3>2, <3>3, <3>4, <3>5, <3>6, <3>7 DEF Next, Reviews
  <2>3. CASE announced' = announced
    BY <2>3 DEF AnswersInv
  <2> QED
    BY <2>1, <2>2, <2>3
<1>2. \A i, j \in DOMAIN answer' : answer'[i].call = answer'[j].call => i = j
  <2>1. CASE ServerReads
    <3>1. answer' = [i \in DOMAIN announced |-> [call |-> announced[i], ver |-> ver[announced[i]]]]
      BY <2>1 DEF ServerReads
    <3>2. \A i \in DOMAIN answer' : i \in DOMAIN announced /\ answer'[i].call = announced[i]
      BY <3>1
    <3> QED
      BY <3>2 DEF AnswersInv
  <2>2. CASE answer' = answer
    BY <2>2 DEF AnswersInv
  <2>3. CASE answer' = <<>>
    BY <2>3
  <2>4. ServerReads \/ answer' = answer \/ answer' = <<>>
    BY AnswerSteps
  <2> QED
    BY <2>1, <2>2, <2>3, <2>4
<1> QED
  BY <1>1, <1>2 DEF AnswersInv

\* handleInsert, whether an event or a replay brings the call.
LEMMA InsertPlaces ==
    ASSUME KioskType, PlacesInv, NEW n \in Entries, Insert(n),
           crossed => crossed', n.review /\ active # NoEntry => crossed'
    PROVE  PlacesInv'
<1>a. /\ \A i, j \in DOMAIN queued : queued[i].call = queued[j].call => i = j
      /\ ~crossed => \A i \in DOMAIN queued : queued[i].call # active.call
      /\ active = NoEntry => queued = <<>>
      /\ ~crossed => /\ active.review => queued = <<>>
                     /\ \A i \in DOMAIN queued : ~queued[i].review
  BY DEF PlacesInv, NoCallTwice
<1>b. active' \in Entries /\ active' # NoEntry
  BY InsertShows, EntryFacts
<1>c. queued \in Seq(Entries) /\ \A i \in DOMAIN queued : queued[i] \in Entries
  BY TypeFacts
<1>1. CASE TakesOver(n) /\ active' = n /\ queued' = queued
  <2>1. ~crossed' => queued' = <<>>
    BY <1>a, <1>1 DEF TakesOver
  <2> QED
    BY <1>a, <1>b, <1>1, <2>1 DEF PlacesInv, NoCallTwice
<1>2. CASE active \in Entries /\ active.call = n.call /\ active' = Merge(active, n) /\ queued' = queued
  <2>1. From(active, active', n) /\ active # NoEntry
    BY <1>2, EntryFacts DEF From
  <2>2. active'.call = active.call /\ (active'.review => active.review \/ n.review)
    BY <1>2, <2>1, FromFacts
  <2> QED
    BY <1>a, <1>b, <1>2, <2>1, <2>2 DEF PlacesInv, NoCallTwice
<1>3. CASE active \in Entries /\ active' = active /\ queued' = MergeQueued(n)
  <2>1. active # NoEntry
    BY <1>3, EntryFacts
  <2>2. /\ DOMAIN queued' = DOMAIN queued
        /\ \A i \in DOMAIN queued : From(queued[i], queued'[i], n)
        /\ queued = <<>> => queued' = <<>>
    BY <1>3, MergedFrom
  <2>3. \A i \in DOMAIN queued : /\ queued'[i].call = queued[i].call
                                 /\ queued'[i].review => queued[i].review \/ n.review
    BY <1>c, <2>2, FromFacts
  <2> QED
    BY <1>a, <1>b, <1>3, <2>1, <2>2, <2>3 DEF PlacesInv, NoCallTwice
<1>4. CASE /\ active \in Entries /\ ~TakesOver(n) /\ active.call # n.call
           /\ active' = active /\ queued' = Append(queued, n)
           /\ \A i \in DOMAIN queued : queued[i].call # n.call
  <2>1. active # NoEntry
    BY <1>4, EntryFacts
  <2>2. /\ \A i \in DOMAIN queued : queued'[i] = queued[i]
        /\ queued'[Len(queued) + 1] = n
        /\ \A i \in DOMAIN queued' : i \in DOMAIN queued \/ i = Len(queued) + 1
    BY <1>c, <1>4, AppendFacts
  <2>3. ~n.review => ~active.review
    BY <1>4 DEF TakesOver
  <2>4. NoCallTwice'
    BY <1>a, <1>4, <2>2 DEF NoCallTwice
  <2>5. ~crossed' => ~active'.review /\ \A i \in DOMAIN queued' : ~queued'[i].review
    BY <1>a, <1>4, <2>1, <2>2, <2>3
  <2> QED
    BY <1>b, <2>4, <2>5 DEF PlacesInv
<1> QED
  BY <1>1, <1>2, <1>3, <1>4, InsertCases

\* No record of an answer is put in two places.
LEMMA RestorePlaces ==
    ASSUME KioskType, AnswersInv, PlacesInv, Restore
    PROVE  PlacesInv'
<1>a. /\ \A i, j \in DOMAIN queued : queued[i].call = queued[j].call => i = j
      /\ ~crossed => \A i \in DOMAIN queued : queued[i].call # active.call
      /\ active = NoEntry => queued = <<>>
      /\ ~crossed => /\ active.review => queued = <<>>
                     /\ \A i \in DOMAIN queued : ~queued[i].review
  BY DEF PlacesInv, NoCallTwice
<1>1. PICK m \in Nat : \E at \in [1..m -> DOMAIN answer] : RestoredAs(m, at)
  BY RestoreShows
<1>2. PICK at \in [1..m -> DOMAIN answer] : RestoredAs(m, at)
  BY <1>1
<1> DEFINE r(k) == Live(answer[at[k]])
<1>3. /\ \A k \in 1..m : r(k) \in Entries /\ ~r(k).review /\ r(k).call = answer[at[k]].call
      /\ active' = IF active = NoEntry /\ m > 0 THEN r(1) ELSE active
      /\ \/ queued' = queued /\ ~(m > 1 /\ queued = <<>>)
         \/ /\ m > 1 /\ queued = <<>> /\ DOMAIN queued' = 1..(m - 1)
            /\ \A k \in 1..(m - 1) : queued'[k] = r(k + 1)
      /\ crossed' = (crossed \/ (active # NoEntry /\ m > 0))
  BY <1>2 DEF RestoredAs
<1>4. \A k, l \in 1..m : r(k).call = r(l).call => k = l
  <2>1. \A k, l \in 1..m : answer[at[k]].call = answer[at[l]].call => at[k] = at[l]
    BY <1>2 DEF AnswersInv
  <2>2. \A k, l \in 1..m : at[k] = at[l] => k = l
    BY <1>2 DEF RestoredAs
  <2> QED
    BY <1>3, <2>1, <2>2
<1> HIDE DEF r
<1>5. CASE queued' = queued /\ ~(m > 1 /\ queued = <<>>)
  <2>1. CASE active = NoEntry /\ m > 0
    <3>1. queued' = <<>> /\ active' = r(1) /\ r(1) # NoEntry
      BY <1>a, <1>3, <1>5, <2>1, EntryFacts
    <3> QED
      BY <3>1 DEF PlacesInv, NoCallTwice
  <2>2. CASE ~(active = NoEntry /\ m > 0)
    <3>1. active' = active
      BY <1>3, <2>2
    <3> QED
      BY <1>a, <1>3, <1>5, <3>1 DEF PlacesInv, NoCallTwice
  <2> QED
    BY <2>1, <2>2
<1>6. CASE /\ m > 1 /\ queued = <<>> /\ DOMAIN queued' = 1..(m - 1)
           /\ \A k \in 1..(m - 1) : queued'[k] = r(k + 1)
  <2>1. \A k \in 1..(m - 1) : k + 1 \in 1..m /\ k + 1 # 1 /\ 1 \in 1..m
    BY <1>6
  <2>2. \A i, j \in DOMAIN queued' : queued'[i].call = queued'[j].call => i = j
    <3> TAKE i, j \in DOMAIN queued'
    <3>1. i \in 1..(m - 1) /\ j \in 1..(m - 1)
      BY <1>6
    <3>2. queued'[i].call = queued'[j].call => i + 1 = j + 1
      BY <1>4, <1>6, <2>1, <3>1
    <3> QED
      BY <3>1, <3>2
  <2>3. active' # NoEntry
    BY <1>3, <1>6, <2>1, EntryFacts
  <2>4. ~crossed' => /\ active' = r(1) /\ ~active'.review
                     /\ \A i \in DOMAIN queued' : queued'[i].call # active'.call /\ ~queued'[i].review
    <3> SUFFICES ASSUME ~crossed'
                 PROVE  /\ active' = r(1) /\ ~active'.review
                        /\ \A i \in DOMAIN queued' : queued'[i].call # active'.call /\ ~queued'[i].review
      OBVIOUS
    <3>1. m > 0 /\ 1 \in 1..m
      BY <1>6
    <3>2. active' = r(1)
      BY <1>3, <3>1
    <3> QED
      BY <1>3, <1>4, <1>6, <2>1, <3>1, <3>2
  <2> QED
    BY <2>2, <2>3, <2>4 DEF PlacesInv, NoCallTwice
<1> QED
  BY <1>3, <1>5, <1>6

\* Every step keeps the places apart.
LEMMA PlacesStep ==
    ASSUME KioskType, AnswersInv, PlacesInv, [Next]_vars
    PROVE  PlacesInv'
<1>a. /\ \A i, j \in DOMAIN queued : queued[i].call = queued[j].call => i = j
      /\ ~crossed => \A i \in DOMAIN queued : queued[i].call # active.call
      /\ active = NoEntry => queued = <<>>
      /\ ~crossed => /\ active.review => queued = <<>>
                     /\ \A i \in DOMAIN queued : ~queued[i].review
  BY DEF PlacesInv, NoCallTwice
<1>1. CASE ReceiveInsert
  <2>1. PICK n \in Entries : ~n.review /\ Insert(n)
    BY <1>1, InsertBrings
  <2>2. crossed' = crossed
    BY <1>1 DEF ReceiveInsert
  <2> QED
    BY <2>1, <2>2, InsertPlaces
<1>2. CASE Reviews
  <2>1. PICK n \in Entries : Insert(n)
    BY <1>2, InsertBrings
  <2>2. crossed' = (crossed \/ active # NoEntry)
    BY <1>2, ReviewFrame
  <2> QED
    BY <2>1, <2>2, InsertPlaces
<1>3. CASE ReceiveUpdate
  <2> DEFINE n == Entry(Head(wire).call, Head(wire).ver, FALSE)
  <2>1. /\ n \in Entries /\ ~n.review
        /\ From(active, active', n)
        /\ active' = NoEntry <=> active = NoEntry
        /\ DOMAIN queued' = DOMAIN queued
        /\ \A i \in DOMAIN queued : From(queued[i], queued'[i], n) /\ queued[i] \in Entries
        /\ queued = <<>> => queued' = <<>>
    BY <1>3, UpdateShows
  <2>2. crossed' = crossed /\ active \in Entries \cup {NoEntry}
    BY <1>3, TypeFacts DEF ReceiveUpdate
  <2> HIDE DEF n
  <2>3. \A i \in DOMAIN queued : /\ queued'[i].call = queued[i].call
                                 /\ queued'[i].review => queued[i].review
    BY <2>1, FromFacts
  <2>4. active'.call = active.call /\ (active'.review => active.review)
    <3>1. CASE active \in Entries
      BY <2>1, <3>1, FromFacts
    <3>2. CASE active = NoEntry
      BY <2>1, <3>2
    <3> QED
      BY <2>2, <3>1, <3>2
  <2> QED
    BY <1>a, <2>1, <2>2, <2>3, <2>4 DEF PlacesInv, NoCallTwice
<1>4. CASE active # NoEntry /\ Leave
  <2>1. /\ active' = NoEntry => queued' = <<>>
        /\ active' # NoEntry => active' = queued[1] /\ 1 \in DOMAIN queued
        /\ \A i \in DOMAIN queued' : queued'[i] = queued[i + 1] /\ i + 1 \in DOMAIN queued
        /\ queued' \in Seq(Entries) /\ crossed' = crossed
    BY <1>4, LeaveShows DEF Leave
  <2>2. \A i \in DOMAIN queued' : i \in Nat /\ i # 0 /\ i + 1 # 1
    BY <2>1
  <2>3. \A i, j \in DOMAIN queued' : queued'[i].call = queued'[j].call => i = j
    <3> TAKE i, j \in DOMAIN queued'
    <3>1. queued'[i].call = queued'[j].call => i + 1 = j + 1
      BY <1>a, <2>1
    <3> QED
      BY <2>2, <3>1
  <2>4. ~crossed' => /\ \A i \in DOMAIN queued' : queued'[i].call # active'.call
                     /\ active'.review => queued' = <<>>
                     /\ \A i \in DOMAIN queued' : ~queued'[i].review
    <3>1. CASE active' = NoEntry
      BY <2>1, <3>1
    <3>2. CASE active' # NoEntry
      BY <1>a, <2>1, <2>2, <3>2
    <3> QED
      BY <3>1, <3>2
  <2> QED
    BY <2>1, <2>3, <2>4 DEF PlacesInv, NoCallTwice
<1>5. CASE Reload \/ ExitReview
  <2>1. active' = NoEntry /\ queued' = <<>>
    BY <1>5 DEF Reload, ExitReview
  <2> QED
    BY <2>1, EntryFacts DEF PlacesInv, NoCallTwice
<1>6. CASE UNCHANGED <<screen, dismissed, taken, wiped, again, crossed>>
  BY <1>a, <1>6 DEF screen, PlacesInv, NoCallTwice
<1> QED
  BY <1>1, <1>2, <1>3, <1>4, <1>5, <1>6, RestorePlaces, ScreenSteps

(***************************************************************************)
(* None is lost, and none comes back.                                      *)
(***************************************************************************)

\* A call that is on show as such goes only to be remembered as dismissed or wiped.
LEMMA LiveStays ==
    ASSUME KioskType, [Next]_vars, NEW c \in Calls, c \in LiveShown
    PROVE  c \in LiveShown' \cup dismissed' \cup wiped'
<1>a. PICK d \in OnShow : ~d.review /\ d.call = c
  BY OnShowIs
<1>b. d \in OnShow \ {NoEntry}
  BY <1>a, EntryFacts, KioskConstantsOK
<1>1. CASE ReceiveInsert
  <2>1. PICK n \in Entries : ~n.review /\ Insert(n)
    BY <1>1, InsertBrings
  <2>2. \E e \in OnShow' : e.call = d.call /\ ~e.review
    BY <1>a, <1>b, <2>1, InsertShows
  <2> QED
    BY <1>a, <2>2, OnShowIs
<1>2. CASE Reviews
  <2>1. PICK n \in Entries : n.review /\ Insert(n) /\ wiped' = wiped \cup Replayed(n)
    BY <1>2, InsertBrings
  <2>2. \E e \in OnShow' : e.call = d.call /\ (~e.review \/ n.call = d.call)
    BY <1>a, <1>b, <2>1, InsertShows
  <2>4. n.call = c => c \in wiped'
    BY <2>1 DEF Replayed
  <2> QED
    BY <1>a, <2>2, <2>4, OnShowIs
<1>3. CASE ReceiveUpdate
  <2>1. \E e \in OnShow' : e.call = d.call /\ ~e.review
    BY <1>3, <1>a, <1>b, UpdateShows
  <2> QED
    BY <1>a, <2>1, OnShowIs
<1>4. CASE active # NoEntry /\ Leave
  <2>1. CASE d = active
    <3>1. dismissed' = dismissed \cup {active.call}
      BY <1>4, <1>a, <2>1 DEF Leave
    <3> QED
      BY <1>a, <2>1, <3>1
  <2>2. CASE d # active
    <3>1. d \in OnShow'
      BY <1>4, <2>2, LeaveShows, OnShowIs
    <3> QED
      BY <1>a, <3>1, OnShowIs
  <2> QED
    BY <2>1, <2>2
<1>5. CASE Reload \/ ExitReview
  <2>1. wiped' = wiped \cup (Shown \cap Calls)
    BY <1>5 DEF Reload, ExitReview
  <2> QED
    BY <1>a, <2>1, OnShowIs
<1>6. CASE Restore
  BY <1>6, <1>a, <1>b, RestoreBrings, OnShowIs
<1>7. CASE UNCHANGED <<screen, dismissed, taken, wiped, again, crossed>>
  <2>1. active' = active /\ queued' = queued
    BY <1>7 DEF screen
  <2>2. OnShow' = OnShow
    BY <2>1 DEF OnShow
  <2> QED
    BY <1>a, <2>2, OnShowIs
<1> QED
  BY <1>1, <1>2, <1>3, <1>4, <1>5, <1>6, <1>7, ScreenSteps

\* What is taken in is on show then, and what was wiped is forgotten only when it is on show again.
LEMMA TakenSteps ==
    ASSUME [Next]_vars
    PROVE  /\ dismissed \subseteq dismissed'
           /\ taken' \subseteq taken \cup LiveShown'
           /\ wiped \subseteq wiped' \cup LiveShown'
<1>1. CASE ReceiveInsert
  BY <1>1 DEF ReceiveInsert, TakesIn
<1>2. CASE Restore
  BY <1>2 DEF Restore, TakesIn
<1>3. CASE ReceiveUpdate \/ Reviews \/ Reload \/ ExitReview
  BY <1>3, ReviewFrame DEF ReceiveUpdate, Reload, ExitReview
<1>4. CASE active # NoEntry /\ Leave
  BY <1>4 DEF Leave
<1>5. CASE UNCHANGED <<screen, dismissed, taken, wiped, again, crossed>>
  BY <1>5
<1> QED
  BY <1>1, <1>2, <1>3, <1>4, <1>5, ScreenSteps

\* Every step keeps the calls that were taken in.
LEMMA TakenStep ==
    ASSUME KioskType, TakenInv, [Next]_vars
    PROVE  TakenInv'
<1> SUFFICES ASSUME NEW c \in taken'
             PROVE  c \in LiveShown' \cup dismissed' \cup wiped'
  BY DEF TakenInv
<1>1. CASE c \in taken
  <2>1. c \in LiveShown \cup dismissed \cup wiped /\ c \in Calls
    BY <1>1 DEF TakenInv, KioskType, KioskTypeOK
  <2> QED
    BY <2>1, LiveStays, TakenSteps
<1> QED
  BY <1>1, TakenSteps

\* What was on show as such before what came of it: the same call.
LEMMA FromLive ==
    ASSUME NEW d \in Entries \cup {NoEntry}, NEW e, NEW n \in Entries, From(d, e, n), ~e.review
    PROVE  ~d.review /\ d.call = e.call
<1>1. CASE d \in Entries
  BY <1>1, FromFacts
<1>2. CASE d = NoEntry
  <2>1. n.call # d.call
    BY <1>2, EntryFacts
  <2> QED
    BY <2>1 DEF From
<1> QED
  BY <1>1, <1>2

\* Every step keeps dismissed calls off the display.
LEMMA DismissedStep ==
    ASSUME KioskType, PlacesInv, DismissedInv, [Next]_vars
    PROVE  DismissedInv'
<1> SUFFICES ASSUME ~crossed', NEW c \in LiveShown', c \in dismissed', c \notin again'
             PROVE  FALSE
  BY DEF DismissedInv
<1>a. PICK d \in OnShow' : ~d.review /\ d.call = c
  BY OnShowIs
<1>b. d # NoEntry
  <2>1. c \in Calls
    BY HistoryType
  <2> QED
    BY <1>a, <2>1, EntryFacts, KioskConstantsOK
<1>c. \A e \in OnShow : e \in Entries \cup {NoEntry}
  BY TypeFacts
<1>0. ASSUME ~crossed, NEW b \in OnShow, ~b.review, b.call = c, dismissed' = dismissed, again \subseteq again'
      PROVE  FALSE
  BY <1>0, OnShowIs DEF DismissedInv
<1>1. CASE ReceiveInsert
  <2>1. PICK n \in Entries : n.call = Head(wire).call /\ Insert(n)
    BY <1>1, InsertBrings
  <2>2. /\ crossed' = crossed /\ dismissed' = dismissed /\ again \subseteq again'
        /\ n.call \in dismissed => n.call \in again'
    BY <1>1, <2>1 DEF ReceiveInsert
  <2>3. d = n \/ \E b \in OnShow : From(b, d, n)
    BY <2>1, InsertShows
  <2>4. d # n
    BY <1>a, <2>2
  <2> QED
    BY <1>0, <1>a, <1>c, <2>2, <2>3, <2>4, FromLive
<1>2. CASE Reviews
  <2>1. PICK n \in Entries : n.review /\ Insert(n)
    BY <1>2, InsertBrings
  <2>2. ~crossed /\ dismissed' = dismissed /\ again' = again
    BY <1>2, ReviewFrame
  <2>3. d = n \/ \E b \in OnShow : From(b, d, n)
    BY <2>1, InsertShows
  <2> QED
    BY <1>0, <1>a, <1>c, <2>1, <2>2, <2>3, FromLive
<1>3. CASE ReceiveUpdate
  <2> DEFINE n == Entry(Head(wire).call, Head(wire).ver, FALSE)
  <2>1. n \in Entries /\ \E b \in OnShow : From(b, d, n)
    BY <1>3, UpdateShows
  <2>2. ~crossed /\ dismissed' = dismissed /\ again' = again
    BY <1>3 DEF ReceiveUpdate
  <2> HIDE DEF n
  <2> QED
    BY <1>0, <1>a, <1>c, <2>1, <2>2, FromLive
<1>4. CASE active # NoEntry /\ Leave
  <2>1. \E i \in DOMAIN queued : d = queued[i]
    <3>1. d = active' \/ \E i \in DOMAIN queued' : d = queued'[i]
      BY OnShowIs
    <3> QED
      BY <1>4, <1>b, <3>1, LeaveShows
  <2>2. d \in OnShow
    BY <2>1, OnShowIs
  <2>3. ~crossed
    BY <1>4 DEF Leave
  <2>4. CASE active.review
    <3>1. dismissed' = dismissed /\ again' = again
      BY <1>4, <2>4 DEF Leave
    <3> QED
      BY <1>0, <1>a, <2>2, <2>3, <3>1
  <2>5. CASE ~active.review
    <3>1. dismissed' = dismissed \cup {active.call} /\ again' = again \ {active.call}
      BY <1>4, <2>5 DEF Leave
    <3>2. c # active.call
      BY <1>a, <2>1, <2>3 DEF PlacesInv, NoCallTwice
    <3>3. c \in dismissed /\ c \notin again
      BY <3>1, <3>2
    <3> QED
      BY <1>a, <2>2, <2>3, <3>3, OnShowIs DEF DismissedInv
  <2> QED
    BY <2>4, <2>5
<1>5. CASE Reload \/ ExitReview
  <2>1. active' = NoEntry /\ queued' = <<>>
    BY <1>5 DEF Reload, ExitReview
  <2> QED
    BY <1>b, <2>1, OnShowIs
<1>6. CASE Restore
  <2>1. ~crossed /\ dismissed' = dismissed /\ again' = again
    BY <1>6 DEF Restore
  <2>2. d \in OnShow \/ d.call \notin dismissed
    BY <1>6, RestoreBrings
  <2> QED
    BY <1>0, <1>a, <2>1, <2>2
<1>7. CASE UNCHANGED <<screen, dismissed, taken, wiped, again, crossed>>
  <2>1. OnShow' = OnShow
    BY <1>7 DEF screen, OnShow
  <2> QED
    BY <1>0, <1>7, <1>a, <2>1
<1> QED
  BY <1>1, <1>2, <1>3, <1>4, <1>5, <1>6, <1>7, ScreenSteps

(***************************************************************************)
(* What is shown is what is stored, or its correction is still to come.    *)
(***************************************************************************)

\* The steps that change what is under way or stored; none takes back that a call was missed.
LEMMA WireSteps ==
    ASSUME [Next]_vars
    PROVE  /\ \/ \E c \in Calls : Announce(c) \/ Correct(c) \/ AnnounceAgain(c)
              \/ LoseEvent
              \/ ReceiveInsert
              \/ ReceiveUpdate
              \/ Reload
              \/ UNCHANGED <<wire, ver>>
           /\ missed \subseteq missed'
<1>1. ASSUME NEW c \in Calls, Announce(c) \/ Correct(c) \/ AnnounceAgain(c) PROVE missed' = missed
  BY <1>1 DEF Announce, Correct, AnnounceAgain, history
<1>2. CASE LoseEvent \/ ReceiveInsert \/ ReceiveUpdate \/ Reload
  BY <1>2 DEF LoseEvent, ReceiveInsert, ReceiveUpdate, Reload
<1>3. CASE Dismiss \/ Advance \/ CountdownEnds \/ ExitReview
  BY <1>3 DEF Dismiss, Advance, CountdownEnds, Leave, ExitReview, server
<1>4. CASE Restore \/ ServerReads \/ ServerReadsReplay \/ RestoreFails \/ ReplayFails \/ Reviews
  BY <1>4, ReviewFrame DEF Restore, ServerReads, ServerReadsReplay, RestoreFails, ReplayFails, server, history
<1>5. ASSUME NEW c, Lapse(c) \/ AskReplay(c) PROVE UNCHANGED <<wire, ver, missed>>
  BY <1>5 DEF Lapse, AskReplay, server, history
<1>6. CASE UNCHANGED vars
  BY <1>6 DEF vars, server, history
<1> QED
  BY <1>1, <1>2, <1>3, <1>4, <1>5, <1>6 DEF Next, Reviews

\* An event behind the others: what they say is as current as before, and so is what it says.
LEMMA PublishedBehind ==
    ASSUME KioskType, WireInv, NEW n \in Events, wire' = Append(wire, n), UNCHANGED ver,
           n.ver = ver[n.call], n.event = "UPDATE" => n.ver = 2
    PROVE  /\ WireInv'
           /\ \A c, v : Current(c, v, 0) => Current(c, v, 0)'
<1>1. /\ \A i \in DOMAIN wire : wire'[i] = wire[i] /\ i \in DOMAIN wire'
      /\ wire'[Len(wire) + 1] = n
      /\ \A i \in DOMAIN wire' : i \in DOMAIN wire \/ i = Len(wire) + 1
  BY TypeFacts, AppendFacts
<1>2. \A c, i : DueAfter(c, i) => DueAfter(c, i)'
  BY <1>1 DEF DueAfter
<1>3. \A c, v, i : Current(c, v, i) => Current(c, v, i)'
  BY <1>2 DEF Current
<1>4. ASSUME NEW i \in DOMAIN wire', NEW c \in Calls, wire'[i].call = c
      PROVE  /\ wire'[i].event = "UPDATE" => wire'[i].ver = 2 /\ ver'[c] = 2
             /\ wire'[i].ver = ver'[c] \/ DueAfter(c, i)'
  <2>1. CASE i \in DOMAIN wire
    <3>1. wire[i].call = c /\ wire'[i] = wire[i]
      BY <1>1, <1>4, <2>1
    <3>2. Current(c, wire[i].ver, i)
      BY <2>1, <3>1 DEF WireInv
    <3> QED
      BY <1>2, <2>1, <3>1, <3>2 DEF WireInv, Current
  <2>2. CASE i = Len(wire) + 1
    BY <1>1, <1>4, <2>2
  <2> QED
    BY <1>1, <2>1, <2>2
<1>5. WireInv'
  BY <1>4 DEF WireInv, Current
<1> QED
  BY <1>3, <1>5

\* A call without a version has no correction coming.
LEMMA NotYetCorrected ==
    ASSUME WireInv, NEW c \in Calls, ver[c] # 2, NEW i
    PROVE  ~DueAfter(c, i)
  BY DEF WireInv, DueAfter

\* Announce: nothing spoke of the call before.
LEMMA AnnounceCurrent ==
    ASSUME KioskType, WireInv, NEW b \in Calls, Announce(b)
    PROVE  /\ WireInv'
           /\ \A c \in Calls, v \in 1..2 : Current(c, v, 0) => Current(c, v, 0)'
<1> DEFINE n == [event |-> "INSERT", call |-> b, ver |-> 1]
<1>1. ver[b] = 0 /\ ver' = [ver EXCEPT ![b] = 1] /\ wire' = Append(wire, n) /\ ver \in [Calls -> 0..2]
  BY TypeFacts DEF Announce, Publish
<1>2. n \in Events /\ n.call = b /\ n.ver = 1 /\ n.event = "INSERT"
  BY DEF Events
<1> HIDE DEF n
<1>3. /\ \A i \in DOMAIN wire : wire'[i] = wire[i] /\ i \in DOMAIN wire' /\ wire[i] \in Events
      /\ wire'[Len(wire) + 1] = n
      /\ \A i \in DOMAIN wire' : i \in DOMAIN wire \/ i = Len(wire) + 1
  BY <1>1, <1>2, TypeFacts, AppendFacts
<1>4. \A c, i : DueAfter(c, i) => DueAfter(c, i)'
  BY <1>3 DEF DueAfter
<1>5. \A c \in Calls : c # b => ver'[c] = ver[c]
  BY <1>1
<1>6. ver'[b] = 1
  BY <1>1
<1>7. \A i : ~DueAfter(b, i)
  BY <1>1, NotYetCorrected
<1>8. ASSUME NEW c \in Calls, NEW v \in 1..2, NEW i, Current(c, v, i)
      PROVE  c # b /\ (v = ver'[c] \/ DueAfter(c, i)')
  BY <1>1, <1>4, <1>5, <1>7, <1>8 DEF Current
<1>9. ASSUME NEW i \in DOMAIN wire', NEW c \in Calls, wire'[i].call = c
      PROVE  /\ wire'[i].event = "UPDATE" => wire'[i].ver = 2 /\ ver'[c] = 2
             /\ wire'[i].ver = ver'[c] \/ DueAfter(c, i)'
  <2>1. CASE i \in DOMAIN wire
    <3>1. wire'[i] = wire[i] /\ wire[i].call = c /\ wire[i].ver \in 1..2
      BY <1>3, <1>9, <2>1 DEF Events
    <3>2. Current(c, wire[i].ver, i)
      BY <2>1, <3>1 DEF WireInv
    <3>3. c # b /\ (wire[i].ver = ver'[c] \/ DueAfter(c, i)')
      BY <1>8, <3>1, <3>2
    <3>4. wire[i].event = "UPDATE" => wire[i].ver = 2 /\ ver[c] = 2
      BY <2>1, <3>1 DEF WireInv
    <3> QED
      BY <1>5, <3>1, <3>3, <3>4
  <2>2. CASE i = Len(wire) + 1
    BY <1>2, <1>3, <1>6, <1>9, <2>2
  <2> QED
    BY <1>3, <2>1, <2>2
<1>10. WireInv'
  BY <1>9 DEF WireInv, Current
<1>11. \A c \in Calls, v \in 1..2 : Current(c, v, 0) => Current(c, v, 0)'
  BY <1>8 DEF Current
<1> QED
  BY <1>10, <1>11

\* Correct: whatever spoke of the call has the correction behind it.
LEMMA CorrectCurrent ==
    ASSUME KioskType, WireInv, NEW b \in Calls, Correct(b)
    PROVE  /\ WireInv'
           /\ \A c \in Calls, v \in 1..2 : Current(c, v, 0) => Current(c, v, 0)'
<1> DEFINE n == [event |-> "UPDATE", call |-> b, ver |-> 2]
<1>1. ver' = [ver EXCEPT ![b] = 2] /\ wire' = Append(wire, n) /\ ver \in [Calls -> 0..2]
  BY TypeFacts DEF Correct, Publish
<1>2. n \in Events /\ n.call = b /\ n.ver = 2 /\ n.event = "UPDATE"
  BY DEF Events
<1> HIDE DEF n
<1>3. /\ \A i \in DOMAIN wire : wire'[i] = wire[i] /\ i \in DOMAIN wire' /\ wire[i] \in Events
      /\ wire'[Len(wire) + 1] = n /\ Len(wire) + 1 \in DOMAIN wire'
      /\ \A i \in DOMAIN wire' : i \in DOMAIN wire \/ i = Len(wire) + 1
      /\ DOMAIN wire = 1..Len(wire) /\ Len(wire) \in Nat
  BY <1>1, <1>2, TypeFacts, AppendFacts
<1>4. \A c, i : DueAfter(c, i) => DueAfter(c, i)'
  BY <1>3 DEF DueAfter
<1>5. \A c \in Calls : c # b => ver'[c] = ver[c]
  BY <1>1
<1>6. ver'[b] = 2
  BY <1>1
<1>7. \A i \in 0..Len(wire) : DueAfter(b, i)'
  <2>1. \A i \in 0..Len(wire) : Len(wire) + 1 > i
    BY <1>3
  <2> QED
    BY <1>2, <1>3, <2>1 DEF DueAfter
<1>8. ASSUME NEW c \in Calls, NEW v \in 1..2, NEW i \in 0..Len(wire), Current(c, v, i)
      PROVE  v = ver'[c] \/ DueAfter(c, i)'
  BY <1>4, <1>5, <1>7, <1>8 DEF Current
<1>9. ASSUME NEW i \in DOMAIN wire', NEW c \in Calls, wire'[i].call = c
      PROVE  /\ wire'[i].event = "UPDATE" => wire'[i].ver = 2 /\ ver'[c] = 2
             /\ wire'[i].ver = ver'[c] \/ DueAfter(c, i)'
  <2>1. CASE i \in DOMAIN wire
    <3>1. wire'[i] = wire[i] /\ wire[i].call = c /\ wire[i].ver \in 1..2
      BY <1>3, <1>9, <2>1 DEF Events
    <3>2. Current(c, wire[i].ver, i) /\ i \in 0..Len(wire)
      BY <1>3, <2>1, <3>1 DEF WireInv
    <3>3. wire[i].ver = ver'[c] \/ DueAfter(c, i)'
      BY <1>8, <3>1, <3>2
    <3>4. wire[i].event = "UPDATE" => wire[i].ver = 2 /\ ver[c] = 2
      BY <2>1, <3>1 DEF WireInv
    <3> QED
      BY <1>5, <1>6, <3>1, <3>3, <3>4
  <2>2. CASE i = Len(wire) + 1
    BY <1>2, <1>3, <1>6, <1>9, <2>2
  <2> QED
    BY <1>3, <2>1, <2>2
<1>10. WireInv'
  BY <1>9 DEF WireInv, Current
<1>11. 0 \in 0..Len(wire)
  BY <1>3
<1>12. \A c \in Calls, v \in 1..2 : Current(c, v, 0) => Current(c, v, 0)'
  BY <1>8, <1>11 DEF Current
<1> QED
  BY <1>10, <1>12

\* The oldest event goes: what was due is still due, unless that event was it.
LEMMA HeadGone ==
    ASSUME KioskType, WireInv, wire # <<>>, wire' = Tail(wire), UNCHANGED ver,
           NEW b, b = Head(wire)
    PROVE  /\ WireInv'
           /\ \A c, v : Current(c, v, 0) =>
                 Current(c, v, 0)' \/ (b.event = "UPDATE" /\ b.call = c)
           /\ Current(b.call, b.ver, 0)'
           /\ b.event = "UPDATE" => b.ver = 2 /\ ver[b.call] = 2
<1>1. /\ b = wire[1] /\ b \in Events /\ 1 \in DOMAIN wire
      /\ DOMAIN Tail(wire) = 1..(Len(wire) - 1)
      /\ \A i \in DOMAIN Tail(wire) : Tail(wire)[i] = wire[i + 1] /\ i + 1 \in DOMAIN wire
      /\ \A i \in DOMAIN wire : i = 1 \/ (i - 1 \in DOMAIN Tail(wire) /\ Tail(wire)[i - 1] = wire[i])
      /\ DOMAIN wire = 1..Len(wire) /\ Len(wire) \in Nat
  BY TypeFacts, TailFacts
<1>2. ASSUME NEW c, NEW i \in Nat, DueAfter(c, i + 1) PROVE DueAfter(c, i)'
  <2>1. PICK j \in DOMAIN wire : j > i + 1 /\ wire[j].call = c /\ wire[j].event = "UPDATE"
    BY <1>2 DEF DueAfter
  <2>2. j - 1 \in DOMAIN wire' /\ wire'[j - 1] = wire[j] /\ j - 1 > i
    BY <1>1, <2>1
  <2> QED
    BY <2>1, <2>2 DEF DueAfter
<1>3. ASSUME NEW i \in DOMAIN wire', NEW c \in Calls, wire'[i].call = c
      PROVE  /\ wire'[i].event = "UPDATE" => wire'[i].ver = 2 /\ ver'[c] = 2
             /\ wire'[i].ver = ver'[c] \/ DueAfter(c, i)'
  <2>1. wire'[i] = wire[i + 1] /\ i + 1 \in DOMAIN wire /\ i \in Nat
    BY <1>1
  <2>2. Current(c, wire[i + 1].ver, i + 1)
    BY <1>3, <2>1 DEF WireInv
  <2>3. wire[i + 1].ver = ver[c] \/ DueAfter(c, i)'
    BY <1>2, <2>1, <2>2 DEF Current
  <2>4. wire[i + 1].event = "UPDATE" => wire[i + 1].ver = 2 /\ ver[c] = 2
    BY <1>3, <2>1 DEF WireInv
  <2> QED
    BY <2>1, <2>3, <2>4
<1>4. WireInv'
  BY <1>3 DEF WireInv, Current
<1>5. ASSUME NEW c, NEW v, Current(c, v, 0), ~(b.event = "UPDATE" /\ b.call = c)
      PROVE  v = ver[c] \/ DueAfter(c, 0)'
  <2>1. CASE DueAfter(c, 0)
    <3>1. PICK j \in DOMAIN wire : j > 0 /\ wire[j].call = c /\ wire[j].event = "UPDATE"
      BY <2>1 DEF DueAfter
    <3>2. j # 1
      BY <1>1, <1>5, <3>1
    <3>3. j > 0 + 1
      BY <1>1, <3>1, <3>2
    <3>4. DueAfter(c, 0 + 1)
      BY <3>1, <3>3 DEF DueAfter
    <3> QED
      BY <1>2, <3>4
  <2> QED
    BY <1>5, <2>1 DEF Current
<1>6. b.ver = ver[b.call] \/ DueAfter(b.call, 0)'
  <2>1. b.call \in Calls
    BY <1>1 DEF Events
  <2>2. Current(b.call, wire[1].ver, 1)
    BY <1>1, <2>1 DEF WireInv
  <2>3. wire[1].ver = ver[b.call] \/ DueAfter(b.call, 0 + 1)
    BY <2>2 DEF Current
  <2> QED
    BY <1>1, <1>2, <2>3
<1>7. b.event = "UPDATE" => b.ver = 2 /\ ver[b.call] = 2
  BY <1>1 DEF WireInv, Events
<1>8. \A c, v : Current(c, v, 0) =>
         Current(c, v, 0)' \/ (b.event = "UPDATE" /\ b.call = c)
  BY <1>5 DEF Current
<1>9. Current(b.call, b.ver, 0)'
  BY <1>6 DEF Current
<1> QED
  BY <1>4, <1>7, <1>8, <1>9

\* What was current stays so, unless an event about it is missed or the display has just got it.
LEMMA StaysCurrent ==
    ASSUME KioskType, WireInv, [Next]_vars
    PROVE  /\ WireInv'
           /\ \A c \in Calls \ missed', v \in 1..2 : Current(c, v, 0) =>
                 \/ Current(c, v, 0)'
                 \/ ReceiveUpdate /\ Head(wire).call = c
<1>a. missed \subseteq missed'
  BY WireSteps
<1>1. ASSUME NEW b \in Calls, AnnounceAgain(b)
      PROVE  WireInv' /\ \A c \in Calls, v \in 1..2 : Current(c, v, 0) => Current(c, v, 0)'
  <2> DEFINE n == [event |-> "INSERT", call |-> b, ver |-> ver[b]]
  <2>1. wire' = Append(wire, n) /\ UNCHANGED ver /\ ver[b] > 0
    BY <1>1 DEF AnnounceAgain, Publish, server
  <2>2. ver[b] \in 1..2
    BY <2>1, TypeFacts
  <2>3. n \in Events /\ n.ver = ver[n.call] /\ n.event # "UPDATE"
    BY <2>2 DEF Events
  <2> HIDE DEF n
  <2> QED
    BY <2>1, <2>3, PublishedBehind
<1>2. CASE LoseEvent
  <2>1. wire # <<>> /\ wire' = Tail(wire) /\ UNCHANGED ver /\ Head(wire).call \in missed'
    BY <1>2 DEF LoseEvent, server
  <2> QED
    BY <2>1, HeadGone
<1>3. CASE ReceiveInsert
  <2>1. wire # <<>> /\ wire' = Tail(wire) /\ UNCHANGED ver /\ Head(wire).event = "INSERT"
    BY <1>3 DEF ReceiveInsert, server
  <2> QED
    BY <2>1, HeadGone
<1>4. CASE ReceiveUpdate
  <2>1. wire # <<>> /\ wire' = Tail(wire) /\ UNCHANGED ver
    BY <1>4 DEF ReceiveUpdate, server
  <2> QED
    BY <1>4, <2>1, HeadGone
<1>5. CASE Reload
  <2>1. wire' = <<>> /\ UNCHANGED ver /\ \A i \in DOMAIN wire : wire[i].call \in missed'
    BY <1>5 DEF Reload, server
  <2>2. WireInv'
    BY <2>1 DEF WireInv
  <2>3. ASSUME NEW c \in Calls \ missed', NEW v, Current(c, v, 0)
        PROVE  v = ver'[c]
    BY <2>1, <2>3 DEF Current, DueAfter
  <2>4. \A c \in Calls \ missed', v \in 1..2 : Current(c, v, 0) => Current(c, v, 0)'
    BY <2>3 DEF Current
  <2> QED
    BY <2>2, <2>4
<1>6. CASE UNCHANGED <<wire, ver>>
  BY <1>6 DEF WireInv, Current, DueAfter
<1> QED
  BY <1>1, <1>2, <1>3, <1>4, <1>5, <1>6, WireSteps, AnnounceCurrent, CorrectCurrent

\* What a handler merged is as current as what was there or what came in.
LEMMA FromCurrent ==
    ASSUME NEW d \in Entries \cup {NoEntry}, NEW e, NEW n \in Entries, From(d, e, n)
    PROVE  e = d \/ (e.call = n.call /\ e.ver = n.ver)
<1>1. CASE d \in Entries
  BY <1>1, FromFacts
<1>2. CASE d = NoEntry
  <2>1. n.call # d.call
    BY <1>2, EntryFacts
  <2> QED
    BY <2>1 DEF From
<1> QED
  BY <1>1, <1>2

\* Every step keeps what is on show current.
LEMMA ShowsStep ==
    ASSUME KioskType, WireInv, LatestInv, [Next]_vars
    PROVE  \A e \in OnShow' : e.call \in Calls \ missed' => Current(e.call, e.ver, 0)'
<1> SUFFICES ASSUME NEW e \in OnShow', e.call \in Calls \ missed'
             PROVE  Current(e.call, e.ver, 0)'
  OBVIOUS
<1>a. missed \subseteq missed'
  BY WireSteps
<1>b. \A d \in OnShow : d \in Entries \cup {NoEntry} /\ NoEntry.call \notin Calls
  BY TypeFacts, EntryFacts, KioskConstantsOK
<1>c. ASSUME e \in OnShow, ~ReceiveUpdate
      PROVE  Current(e.call, e.ver, 0)'
  <2>1. e.ver \in 1..2
    BY <1>b, <1>c, EntryFacts
  <2>2. Current(e.call, e.ver, 0)
    BY <1>a, <1>c DEF LatestInv
  <2> QED
    BY <1>c, <2>1, <2>2, StaysCurrent
<1>d. ASSUME NEW n \in Entries, \E d \in OnShow : From(d, e, n)
      PROVE  e \in OnShow \/ (e.call = n.call /\ e.ver = n.ver)
  BY <1>b, <1>d, FromCurrent
<1>1. CASE ReceiveInsert
  <2>1. PICK n \in Entries : n.call = Head(wire).call /\ n.ver = Head(wire).ver /\ Insert(n)
    BY <1>1, InsertBrings
  <2>2. wire # <<>> /\ wire' = Tail(wire) /\ UNCHANGED ver /\ ~ReceiveUpdate
    BY <1>1 DEF ReceiveInsert, ReceiveUpdate, server
  <2>3. Current(n.call, n.ver, 0)'
    BY <2>1, <2>2, HeadGone
  <2>4. e = n \/ \E d \in OnShow : From(d, e, n)
    BY <2>1, InsertShows
  <2>5. e \in OnShow \/ (e.call = n.call /\ e.ver = n.ver)
    BY <1>d, <2>4
  <2> QED
    BY <1>c, <2>2, <2>3, <2>5
<1>2. CASE Reviews
  <2>1. PICK n \in Entries : /\ Insert(n)
                             /\ \/ n.call = loading /\ n.ver = copy /\ copy # 0
                                \/ \E c : /\ n.call = c
                                         /\ missed' = IF Behind(c, n.ver) THEN missed \cup {c} ELSE missed
    BY <1>2, InsertBrings
  <2>2. UNCHANGED <<wire, ver>>
    BY <1>2, ReviewFrame
  <2>3. e = n \/ \E d \in OnShow : From(d, e, n)
    BY <2>1, InsertShows
  <2>4. e \in OnShow \/ (e.call = n.call /\ e.ver = n.ver)
    BY <1>d, <2>3
  <2>5. CASE e.call = n.call /\ e.ver = n.ver
    <3>1. CASE n.call = loading /\ n.ver = copy /\ copy # 0
      <4>1. Current(loading, copy, 0)
        BY <1>a, <2>5, <3>1 DEF LatestInv
      <4>2. Current(e.call, e.ver, 0)
        BY <2>5, <3>1, <4>1
      <4> QED
        BY <2>2, <4>2 DEF Current, DueAfter
    <3>2. CASE missed' = IF Behind(n.call, n.ver) THEN missed \cup {n.call} ELSE missed
      <4>1. ~Behind(e.call, e.ver)
        BY <2>5, <3>2
      <4>2. \A i \in DOMAIN wire : i > 0
        BY TypeFacts
      <4>3. Current(e.call, e.ver, 0)
        BY <4>1, <4>2 DEF Behind, Current, DueAfter
      <4> QED
        BY <2>2, <4>3 DEF Current, DueAfter
    <3> QED
      BY <2>1, <3>1, <3>2
  <2>7. CASE e \in OnShow
    <3>1. Current(e.call, e.ver, 0)
      BY <1>a, <2>7 DEF LatestInv
    <3> QED
      BY <2>2, <2>7, <3>1 DEF Current, DueAfter
  <2> QED
    BY <2>4, <2>5, <2>7
<1>3. CASE ReceiveUpdate
  <2> DEFINE n == Entry(Head(wire).call, Head(wire).ver, FALSE)
  <2>1. /\ n \in Entries /\ \E d \in OnShow : From(d, e, n)
        /\ e.call = n.call => e.ver = n.ver
    BY <1>3, UpdateShows
  <2>2. wire # <<>> /\ wire' = Tail(wire) /\ UNCHANGED ver
    BY <1>3 DEF ReceiveUpdate, server
  <2>3. n.call = Head(wire).call /\ n.ver = Head(wire).ver
    BY DEF Entry
  <2> HIDE DEF n
  <2>4. \A b : b = Head(wire) => Current(b.call, b.ver, 0)'
    BY <2>2, HeadGone
  <2>5. CASE e.call = n.call
    <3>1. e.call = Head(wire).call /\ e.ver = Head(wire).ver
      BY <2>1, <2>3, <2>5
    <3>2. PICK b : b = Head(wire)
      OBVIOUS
    <3>3. Current(b.call, b.ver, 0)' /\ e.call = b.call /\ e.ver = b.ver
      BY <2>4, <3>1, <3>2
    <3> QED
      BY <3>3
  <2>6. CASE e.call # n.call
    <3>1. e \in OnShow
      BY <1>d, <2>1, <2>6
    <3>2. e.ver \in 1..2
      BY <1>b, <3>1, EntryFacts
    <3>3. Current(e.call, e.ver, 0)
      BY <1>a, <3>1 DEF LatestInv
    <3> QED
      BY <2>3, <2>6, <3>2, <3>3, StaysCurrent
  <2> QED
    BY <2>5, <2>6
<1>4. CASE active # NoEntry /\ Leave
  <2>1. e \in OnShow
    BY <1>4, LeaveShows, EntryFacts, KioskConstantsOK
  <2>2. UNCHANGED <<wire, ver>>
    BY <1>4 DEF Leave, server
  <2>3. Current(e.call, e.ver, 0)
    BY <1>a, <2>1 DEF LatestInv
  <2> QED
    BY <2>2, <2>3 DEF Current, DueAfter
<1>5. CASE Reload \/ ExitReview
  <2>1. active' = NoEntry /\ queued' = <<>>
    BY <1>5 DEF Reload, ExitReview
  <2>2. e = NoEntry
    BY <2>1, OnShowIs
  <2> QED
    BY <2>2, EntryFacts, KioskConstantsOK
<1>6. CASE Restore
  <2>1. UNCHANGED <<wire, ver, missed>>
    BY <1>6 DEF Restore, server
  <2>2. Current(e.call, e.ver, 0)
    <3>1. CASE e \in OnShow
      BY <1>a, <3>1 DEF LatestInv
    <3>2. CASE e \notin OnShow
      <4>1. PICK i \in DOMAIN answer : e.call = answer[i].call /\ e.ver = answer[i].ver
        BY <1>6, <3>2, RestoreBrings
      <4> QED
        BY <1>a, <4>1 DEF LatestInv
    <3> QED
      BY <3>1, <3>2
  <2> QED
    BY <2>1, <2>2 DEF Current, DueAfter
<1>7. CASE UNCHANGED <<screen, dismissed, taken, wiped, again, crossed>> /\ ~ReceiveUpdate
  <2>1. OnShow' = OnShow
    BY <1>7 DEF screen, OnShow
  <2> QED
    BY <1>7, <1>c, <2>1
<1> QED
  BY <1>1, <1>2, <1>3, <1>4, <1>5, <1>6, <1>7, ScreenSteps

\* Every step keeps an answer current until it is used.
LEMMA AnswerLatest ==
    ASSUME KioskType, WireInv, LatestInv, [Next]_vars
    PROVE  /\ \A i \in DOMAIN answer' : \A c \in Calls \ missed' :
                 answer'[i].call = c => Current(c, answer[i].ver, 0)'
           /\ fetch' # "read" => answer' = <<>>
<1>1. CASE ServerReads
  <2>1. /\ fetch' = "read" /\ UNCHANGED <<wire, ver>>
        /\ answer' = [i \in DOMAIN announced |-> [call |-> announced[i], ver |-> ver[announced[i]]]]
    BY <1>1 DEF ServerReads, server
  <2>2. \A i \in DOMAIN answer' : answer'[i].ver = ver'[answer'[i].call]
    BY <2>1
  <2> QED
    BY <2>1, <2>2 DEF Current
<1>2. CASE answer' = <<>>
  BY <1>2
<1>3. CASE answer' = answer /\ fetch' = fetch
  <2>1. ASSUME NEW i \in DOMAIN answer, NEW c \in Calls \ missed', answer[i].call = c
        PROVE  answer[i].ver = ver'[c] \/ DueAfter(c, 0)'
    <3>1. fetch = "read"
      BY <2>1 DEF LatestInv
    <3>2. ReceiveUpdate => Head(wire).call \in missed'
      BY <3>1 DEF ReceiveUpdate
    <3>3. Current(c, answer[i].ver, 0)
      BY <2>1, WireSteps DEF LatestInv
    <3>4. answer[i].ver \in 1..2
      BY <2>1, TypeFacts DEF Records
    <3> DEFINE v == answer[i].ver
    <3>5. Current(c, v, 0) /\ v \in 1..2
      BY <3>3, <3>4
    <3> HIDE DEF v
    <3>6. v = ver'[c] \/ DueAfter(c, 0)'
      BY <2>1, <3>2, <3>5, StaysCurrent DEF Current
    <3> QED
      BY <3>6 DEF v
  <2> QED
    BY <1>3, <2>1 DEF Current, LatestInv
<1> QED
  BY <1>1, <1>2, <1>3, AnswerSteps

\* Every step keeps the record read for a replay current until it is used.
LEMMA CopyLatest ==
    ASSUME KioskType, WireInv, LatestInv, [Next]_vars
    PROVE  (loading \in Calls \ missed /\ copy # 0 => Current(loading, copy, 0))'
<1> SUFFICES ASSUME loading' \in Calls \ missed', copy' # 0
             PROVE  copy' = ver'[loading'] \/ DueAfter(loading, 0)'
  BY DEF Current
<1>1. CASE ServerReadsReplay
  BY <1>1 DEF ServerReadsReplay, server
<1>2. CASE copy' = copy /\ loading' = loading
  <2>1. Current(loading, copy, 0) /\ loading \in Calls \ missed' /\ copy # 0
    BY <1>2, WireSteps DEF LatestInv
  <2>2. copy \in 1..2
    BY <2>1 DEF KioskType, KioskTypeOK
  <2>3. CASE ~(ReceiveUpdate /\ Head(wire).call = loading)
    <3>1. ASSUME NEW c \in Calls \ missed', NEW v \in 1..2, Current(c, v, 0), c = loading
          PROVE  v = ver'[c] \/ \E j \in DOMAIN wire' : j > 0 /\ wire'[j].call = c /\ wire'[j].event = "UPDATE"
      BY <2>3, <3>1, StaysCurrent DEF Current, DueAfter
    <3> QED
      BY <1>2, <2>1, <2>2, <3>1 DEF DueAfter
  <2>4. CASE ReceiveUpdate /\ Head(wire).call = loading
    <3>1. copy = Head(wire).ver
      BY <2>1, <2>4 DEF ReceiveUpdate, Overtakes
    <3>2. wire # <<>> /\ wire' = Tail(wire) /\ UNCHANGED ver /\ Head(wire).event = "UPDATE"
      BY <2>4 DEF ReceiveUpdate, server
    <3>3. Head(wire).ver = 2 /\ ver[Head(wire).call] = 2
      BY <3>2, HeadGone
    <3> QED
      BY <1>2, <2>4, <3>1, <3>2, <3>3
  <2> QED
    BY <2>3, <2>4
<1> QED
  BY <1>1, <1>2, LoadingSteps

LEMMA LatestStep ==
    ASSUME KioskType, WireInv, LatestInv, [Next]_vars
    PROVE  WireInv' /\ LatestInv'
  BY StaysCurrent, ShowsStep, AnswerLatest, CopyLatest DEF LatestInv

(***************************************************************************)
(* Theorems.                                                               *)
(***************************************************************************)

LEMMA KioskInvInit == Init => KioskInv
<1> SUFFICES ASSUME Init PROVE KioskInv
  OBVIOUS
<1>1. KioskType
  BY KioskTypeInit
<1>2. AnswersInv /\ PlacesInv
  BY InitFacts, EntryFacts DEF AnswersInv, PlacesInv, NoCallTwice
<1>3. TakenInv /\ DismissedInv
  BY DEF Init, TakenInv, DismissedInv
<1>4. WireInv /\ LatestInv
  <2>1. copy = 0
    BY DEF Init
  <2> QED
    BY <2>1, InitFacts, EntryFacts, KioskConstantsOK DEF WireInv, LatestInv
<1> QED
  BY <1>1, <1>2, <1>3, <1>4 DEF KioskInv

LEMMA KioskInvStep == KioskInv /\ [Next]_vars => KioskInv'
  BY KioskTypeStep, AnswersStep, PlacesStep, TakenStep, DismissedStep, LatestStep DEF KioskInv

LEMMA KioskInvAlways == Spec => []KioskInv
  BY KioskInvInit, KioskInvStep, PTL DEF Spec

\* The display's state has its types: no more events under way than bounded, only entries on the
\* screen and in the queue (activeCall and queuedCalls of useKioskQueue).
THEOREM KioskTypeCorrect == Spec => []KioskTypeOK
<1>1. KioskInv => KioskTypeOK
  BY DEF KioskInv, KioskType
<1> QED
  BY <1>1, KioskInvAlways, PTL

\* A call neither waits behind itself nor waits twice, however often it is broadcast, unless a
\* restore or a replay came back to a screen that was taken in the meantime.
THEOREM NoCallTwiceCorrect == Spec => []NoCallTwice
<1>1. KioskInv => NoCallTwice
  BY DEF KioskInv, PlacesInv
<1> QED
  BY <1>1, KioskInvAlways, PTL

\* A call the display took in is on it, waits, was dismissed, or was wiped by a reload or a replay;
\* and nothing waits behind an empty screen.
THEOREM NoneLostCorrect == Spec => []NoneLost
<1>1. KioskInv => NoneLost
  <2> SUFFICES ASSUME KioskInv PROVE NoneLost
    OBVIOUS
  <2>1. LiveShown \subseteq Shown
    BY OnShowIs
  <2> QED
    BY <2>1 DEF KioskInv, PlacesInv, TakenInv, NoneLost
<1> QED
  BY <1>1, KioskInvAlways, PTL

\* A call the crew dismissed comes back only with another INSERT, even across reloads and restores
\* whose answers were read before it was dismissed.
THEOREM StaysDismissedCorrect == Spec => []StaysDismissed
<1>1. KioskInv => StaysDismissed
  BY DEF KioskInv, DismissedInv, LiveShown, StaysDismissed
<1> QED
  BY <1>1, KioskInvAlways, PTL

\* A call is shown as it is stored once its events have arrived, unless one of them was lost, came
\* between the reading of a record and its answer, or was past when the console replayed its copy.
THEOREM ShowsLatestCorrect == Spec => []ShowsLatest
<1>1. KioskInv => ShowsLatest
  <2> SUFFICES ASSUME KioskInv, NEW c \in Calls \ missed, \A i \in DOMAIN wire : wire[i].call # c
               PROVE  /\ active.call = c => active.ver = ver[c]
                      /\ \A i \in DOMAIN queued : queued[i].call = c => queued[i].ver = ver[c]
    BY DEF ShowsLatest
  <2>1. ~DueAfter(c, 0)
    BY DEF DueAfter
  <2>2. \A e \in OnShow : e.call = c => e.ver = ver[c]
    BY <2>1 DEF KioskInv, LatestInv, Current
  <2> QED
    BY <2>2, OnShowIs
<1> QED
  BY <1>1, KioskInvAlways, PTL
=============================================================================
