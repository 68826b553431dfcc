---------------------------- MODULE IncidentFeed ----------------------------
(***************************************************************************)
(* The incident history as one person reads it: pages of a newest-first    *)
(* feed, each continued from a cursor, while incidents are opened and      *)
(* deleted, and while the whole list is read again from its first page.    *)
(* An incident starts with the first failed check of its outage, so a new  *)
(* one may start before some that are already listed, or with them.        *)
(***************************************************************************)
EXTENDS Naturals, SequencesExt

CONSTANTS
  MaxIncidents,  \* bound on the incidents ever opened
  MaxStart,      \* bound on the times they start at
  PageSize       \* rows of a page

ASSUME FeedAssumption ==
  MaxIncidents \in Nat /\ MaxStart \in Nat \ {0} /\ PageSize \in Nat \ {0}

VARIABLES
  started,  \* the start of every incident ever opened; the index is its id, which grows
  kept,     \* the incidents that still match the list
  listed,   \* the list: [rows: its ids, pages: how many pages, next: where it goes on,
            \* failed: an error hides it]
  reread,   \* the list as it is being read again, page by page, or Nowhere
  base      \* history: the incidents there were when the first page was read

feedVars == <<started, kept, listed, reread, base>>

\* A cursor is the start and the id of the last row; the first page has none.
First == <<0, 0>>
End == <<0, 1>>
Nothing == [rows |-> <<>>, pages |-> 0, next |-> First, base |-> {}, upTo |-> 0]

FeedInit ==
  /\ started \in UNION {[1..n -> 1..MaxStart] : n \in 0..MaxIncidents}
  /\ kept = DOMAIN started
  /\ listed = [rows |-> <<>>, pages |-> 0, next |-> First, failed |-> FALSE]
  /\ reread = Nothing /\ base = {}

----------------------------------------------------------------------------
(* One page.                                                               *)

\* The sort of the feed: newest first, and the later id first among equals.
Newer(i, j) == started[i] > started[j] \/ (started[i] = started[j] /\ i > j)

\* Mutant of After: the cursor's time alone, so that its equals are skipped.
AfterTime(cursor, i) == cursor = First \/ started[i] < cursor[1]

\* cursorFilter: strictly older than the cursor, or as old with an earlier id.
After(cursor, i) ==
  cursor = First \/ started[i] < cursor[1] \/ (started[i] = cursor[1] /\ i < cursor[2])

\* The rows the database returns: one more than the page, to tell whether there are more.
Place(i, rows) == Cardinality({j \in rows : Newer(j, i)}) + 1
Fetched(cursor) ==
  LET rows == {i \in kept : After(cursor, i)}
      all == Cardinality(rows)
  IN [n \in 1..IF all > PageSize THEN PageSize + 1 ELSE all |->
        CHOOSE i \in rows : Place(i, rows) = n]

Page(cursor) ==
  LET rows == Fetched(cursor)
      more == Len(rows) > PageSize
      items == IF more THEN SubSeq(rows, 1, PageSize) ELSE rows
  IN [rows |-> items, next |-> IF more THEN <<started[Last(items)], Last(items)>> ELSE End]

----------------------------------------------------------------------------
(* Reading.                                                                *)

\* The first page, or "Load older incidents", which abandons a reading again under way.
LoadMore ==
  /\ listed.next # End /\ ~listed.failed
  /\ LET page == Page(listed.next)
     IN listed' = [listed EXCEPT !.rows = @ \o page.rows, !.pages = @ + 1, !.next = page.next]
  /\ base' = IF listed.pages = 0 THEN kept ELSE base
  /\ reread' = Nothing
  /\ UNCHANGED <<started, kept>>

\* The list is stale when the person comes back to it, or "Try again": as many pages are
\* read again, each from the cursor of the one before.
StartOver ==
  /\ listed.pages > 0 /\ reread = Nothing
  /\ reread' = [Nothing EXCEPT !.base = kept, !.upTo = listed.pages]
  /\ UNCHANGED <<started, kept, listed, base>>

\* One of those pages; the list is replaced when the last has been read.
ReadAgain ==
  /\ reread.upTo > 0
  /\ LET page == Page(reread.next)
         rows == reread.rows \o page.rows
         pages == reread.pages + 1
         first == IF reread.pages = 0 THEN kept ELSE reread.base
     IN IF pages = reread.upTo \/ page.next = End
        THEN /\ listed' = [rows |-> rows, pages |-> pages, next |-> page.next,
                           failed |-> FALSE]
             /\ base' = first /\ reread' = Nothing
        ELSE /\ reread' = [reread EXCEPT !.rows = rows, !.pages = pages, !.next = page.next,
                                         !.base = first]
             /\ UNCHANGED <<listed, base>>
  /\ UNCHANGED <<started, kept>>

\* A page cannot be read: an error hides the list, and a reading again is abandoned.
ReadFails ==
  /\ listed.pages > 0
  /\ reread # Nothing \/ (listed.next # End /\ ~listed.failed)
  /\ reread' = Nothing
  /\ listed' = [listed EXCEPT !.failed = TRUE]
  /\ UNCHANGED <<started, kept, base>>

----------------------------------------------------------------------------
(* The worker and the rest of the API.                                     *)

IncidentOpens(start) ==
  /\ Len(started) < MaxIncidents
  /\ started' = Append(started, start)
  /\ kept' = kept \cup {Len(started')}
  /\ UNCHANGED <<listed, reread, base>>

\* Deleted with its website, or resolved while open incidents alone are listed.
IncidentGoes(i) ==
  /\ i \in kept
  /\ kept' = kept \ {i}
  /\ UNCHANGED <<started, listed, reread, base>>

FeedNext ==
  \/ LoadMore \/ StartOver \/ ReadAgain \/ ReadFails
  \/ \E start \in 1..MaxStart : IncidentOpens(start)
  \/ \E i \in 1..MaxIncidents : IncidentGoes(i)

FeedSpec == FeedInit /\ [][FeedNext]_feedVars

----------------------------------------------------------------------------
(* Properties.                                                             *)

\* The variables have their types.
FeedTypeOK ==
  LET ids == 1..MaxIncidents
      cursors == {First, End} \cup ((1..MaxStart) \X ids)
  IN /\ Len(started) <= MaxIncidents /\ \A i \in DOMAIN started : started[i] \in 1..MaxStart
     /\ kept \subseteq DOMAIN started /\ base \subseteq ids
     /\ \A list \in {listed, reread} : ToSet(list.rows) \subseteq ids /\ list.next \in cursors
     /\ listed.failed \in BOOLEAN

\* The list shows every incident at most once, newest first, and at its end every incident
\* there was when its first page was read that is still there: those opened, or gone, while
\* it was being read, with ties between their starts, skip and repeat none of the others.
IncidentsReadOnce ==
  LET rows == listed.rows
  IN /\ \A m, n \in DOMAIN rows : m < n => Newer(rows[m], rows[n])
     /\ listed.next = End => base \cap kept \subseteq ToSet(rows)
=============================================================================
