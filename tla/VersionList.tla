----------------------------- MODULE VersionList ------------------------------
(***************************************************************************)
(* The versions of one document as their list shows them: numbering,       *)
(* publication, marks and their retries, retention and deletion            *)
(* (history/repository.rs, automatic.rs, commands/history.rs) beside a     *)
(* reader who goes through the list page by page (history/query.rs), on a  *)
(* clock that may be set back.                                             *)
(***************************************************************************)
EXTENDS Naturals, FiniteSetsExt

CONSTANTS
  MaxVersions,  \* bound: versions ever published
  MaxTime,      \* bound: the clock's values
  Interval,     \* AUTOMATIC_INTERVAL_SECONDS
  Retained,     \* RETAINED_VERSION_LIMIT
  Page,         \* limit of a page
  Request,      \* requests to mark or unmark
  None

VARIABLES
  versions,  \* history_versions
  used,      \* ids ever used: a version's id is a random number
  baseline,  \* last_automatic_at
  clock,
  mark,      \* history: a manual version whose sequence was read, not yet stored
  receipt,   \* history_mark_requests
  told,      \* history: what each request was ever answered
  cursor,    \* the reader's: None before the first page
  reading,
  listed,    \* history: how often the reader has been given each version
  there      \* history: versions that have been there since the first page

listVars == <<versions, used, baseline, clock, mark, receipt, told, cursor, reading, listed, there>>

Id == 1..MaxVersions
Version == [id : Id, at : 0..MaxTime, sequence : 1..MaxVersions, marked : BOOLEAN]
Receipt == [id : Id, marked : BOOLEAN, retained : BOOLEAN]
Key == (0..MaxTime) \X (1..MaxVersions) \X Id

ListTypeOK ==
  /\ versions \subseteq Version /\ used \subseteq Id
  /\ \A u, v \in versions : u.id = v.id => u = v
  /\ baseline \in 0..MaxTime \union {None} /\ clock \in 0..MaxTime
  /\ mark = None \/ mark \in 1..(MaxVersions + 1)
  /\ receipt \in [Request -> Receipt \union {None}]
  /\ told \in [Request -> SUBSET BOOLEAN]
  /\ cursor = None \/ cursor \in Key
  /\ reading \in {"no", "yes", "done"}
  /\ listed \in [Id -> Nat]
  /\ there \subseteq Id

ListInit ==
  /\ versions = {} /\ used = {} /\ baseline = None /\ clock \in 0..MaxTime /\ mark = None
  /\ receipt = [r \in Request |-> None] /\ told = [r \in Request |-> {}]
  /\ cursor = None /\ reading = "no" /\ listed = [i \in Id |-> 0] /\ there = {}

-----------------------------------------------------------------------------
KeyOf(v) == <<v.at, v.sequence, v.id>>
Before(a, b) ==   \* a < b as SQL compares rows
  \/ a[1] < b[1]
  \/ a[1] = b[1] /\ a[2] < b[2]
  \/ a[1] = b[1] /\ a[2] = b[2] /\ a[3] < b[3]

Later(u, v) == Before(KeyOf(v), KeyOf(u))

\* The first n of a set of versions, latest first.
Newest(S, n) == {v \in S : Cardinality({u \in S : Later(u, v)}) < n}

Ids(S) == {v.id : v \in S}
NextSequence == Max({v.sequence : v \in versions} \union {0}) + 1

\* prune_unmarked; versions that protect an open replacement are HistoryObjects'.
Prune(S) ==
  LET unmarked == {v \in S : ~v.marked}
  IN S \ (unmarked \ Newest(unmarked, Retained))

Becomes(S) == versions' = S /\ there' = there \intersect Ids(S)

New(i, sequence, marked) ==
  /\ i \in Id \ used /\ used' = used \union {i}
  /\ sequence <= MaxVersions
  /\ LET new == [id |-> i, at |-> clock, sequence |-> sequence, marked |-> marked]
     IN Becomes(IF marked THEN versions \union {new} ELSE Prune(versions \union {new}))

readerVars == <<cursor, reading, listed>>

-----------------------------------------------------------------------------
(* Publication *)

\* after_successful_checkpoint_with_assets, under the document's lock; a
\* checkpoint that has changed nothing is left out.
Automatic ==
  /\ \/ baseline = None /\ baseline' = clock /\ UNCHANGED <<versions, used, there>>
     \/ /\ baseline # None /\ clock >= baseline + Interval
        /\ \E i \in Id : New(i, NextSequence, FALSE)
        /\ baseline' = clock
  /\ UNCHANGED <<clock, mark, receipt, told, readerVars>>

\* The version that protects a replacement, under the same lock.
Protect ==
  /\ \E i \in Id : New(i, NextSequence, FALSE)
  /\ UNCHANGED <<baseline, clock, mark, receipt, told, readerVars>>

\* Mark the current scene: without the lock, the number is read before.
BeginMark ==
  /\ mark = None /\ mark' = NextSequence
  /\ UNCHANGED <<versions, used, baseline, clock, receipt, told, readerVars, there>>

\* A marked version of the same scene, if there is one, is used again
\* (reusable_marked_version).
Mark ==
  /\ mark # None /\ mark' = None
  /\ \/ (\E v \in versions : v.marked) /\ UNCHANGED <<versions, used, there>>
     \/ \E i \in Id : New(i, mark, TRUE)
  /\ UNCHANGED <<baseline, clock, receipt, told, readerVars>>

(* Marks of single versions, and deletions *)

\* set_marked: a repeated request gets the first one's answer, and changes nothing.
SetMarked(r, i, marked) ==
  /\ IF receipt[r] # None
       THEN /\ receipt[r].id = i /\ receipt[r].marked = marked
            /\ told' = [told EXCEPT ![r] = @ \union {receipt[r].retained}]
            /\ UNCHANGED <<versions, receipt, there>>
       ELSE /\ i \in Ids(versions)
            /\ LET set == {IF v.id = i THEN [v EXCEPT !.marked = marked] ELSE v : v \in versions}
                   left == IF marked THEN set ELSE Prune(set)
               IN /\ Becomes(left)
                  /\ receipt' = [receipt EXCEPT ![r] = [id |-> i, marked |-> marked,
                                                        retained |-> i \in Ids(left)]]
                  /\ told' = [told EXCEPT ![r] = @ \union {i \in Ids(left)}]
  /\ UNCHANGED <<used, baseline, clock, mark, readerVars>>

\* delete_version
Delete(v) ==
  /\ Becomes(versions \ {v})
  /\ UNCHANGED <<used, baseline, clock, mark, receipt, told, readerVars>>

SetClock ==
  /\ clock' \in 0..MaxTime /\ clock' # clock
  /\ UNCHANGED <<versions, used, baseline, mark, receipt, told, readerVars, there>>

-----------------------------------------------------------------------------
(* The reader *)

Unread == {v \in versions : cursor = None \/ Before(KeyOf(v), cursor)}

Gives(page) ==
  /\ listed' = [i \in Id |-> IF i \in Ids(page) THEN listed[i] + 1 ELSE listed[i]]
  /\ there' = IF reading = "no" THEN Ids(versions) ELSE there
  /\ UNCHANGED <<versions, used, baseline, clock, mark, receipt, told>>

LastPage == reading' = "done" /\ UNCHANGED cursor
NextPage(v) == reading' = "yes" /\ cursor' = KeyOf(v)

PageSkipping ==     \* A slip of ReadPage: the cursor is the first row not given.
  LET page == Newest(Unread, Page) IN
  /\ reading # "done" /\ Gives(page)
  /\ IF page = Unread THEN LastPage ELSE \E next \in Newest(Unread, Page + 1) \ page : NextPage(next)

\* query_list: one row more than the page holds is read, to know whether there
\* are more, and the cursor names the last one that is given.
ReadPage ==
  LET page == Newest(Unread, Page) IN
  /\ reading # "done" /\ Gives(page)
  /\ IF page = Unread THEN LastPage
     ELSE \E last \in page : (\A v \in page : v = last \/ Later(v, last)) /\ NextPage(last)

ListNext ==
  /\ reading # "done"     \* bound: nothing is read after the last page
  /\ \/ Automatic \/ Protect \/ BeginMark \/ Mark \/ SetClock \/ ReadPage
     \/ \E r \in Request, i \in used, marked \in BOOLEAN : SetMarked(r, i, marked)
     \/ \E v \in versions : Delete(v)

ListSpec == ListInit /\ [][ListNext]_listVars

-----------------------------------------------------------------------------
(* Properties *)

\* Whatever is published, evicted and deleted between two pages, with numbers
\* given twice and a clock set back: a reader is given no version twice, and
\* each one that was there all the time (query_list's cursor and its order).
ListIsComplete ==
  /\ \A i \in Id : listed[i] <= 1
  /\ reading = "done" => \A i \in there : listed[i] = 1

\* What it rests on: what the reader has been given was there once, and while
\* there is more to read, it is what lies before the cursor.
ReadAreListed ==
  /\ there \subseteq Ids(versions) /\ Ids(versions) \subseteq used
  /\ \A i \in Id : listed[i] > 0 => i \in used
  /\ reading = "no" => cursor = None /\ \A i \in Id : listed[i] = 0
  /\ reading = "yes" => cursor # None
  /\ reading = "yes" => \A v \in versions :
       /\ listed[v.id] = 1 => v \notin Unread
       /\ v.id \in there /\ v \notin Unread => listed[v.id] = 1

\* A request to mark or unmark that is sent again is answered as it was,
\* though the version may have been evicted by it, or changed since.
RetriesAgree == \A r \in Request : Cardinality(told[r]) <= 1

ListInv == ListTypeOK /\ ListIsComplete /\ ReadAreListed
===============================================================================
