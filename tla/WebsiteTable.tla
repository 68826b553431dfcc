---------------------------- MODULE WebsiteTable ----------------------------
(***************************************************************************)
(* The table of websites: numbered pages of a filtered list, while         *)
(* websites are added and removed.  A page is answered from two reads, of  *)
(* its rows and of the number of all rows, and the page before stays on    *)
(* screen until then.  Only the number of websites matters, and how many   *)
(* of them match the filter.                                               *)
(***************************************************************************)
EXTENDS Naturals

CONSTANTS
  MaxWebsites,  \* bound on the websites of the organization
  RowsPerPage   \* rows of a page

ASSUME TableAssumption == MaxWebsites \in Nat /\ RowsPerPage \in Nat \ {0}

VARIABLES
  sites,    \* [all: the websites of the organization, some: those that match the filter]
  wanted,    \* what the table asks for: [filtered, page]
  reading,  \* the request under way: what its two reads have found so far
  screen,   \* the last answer: [rows, pages]
  shrunk    \* history: a website was removed, or no longer matches

tableVars == <<sites, wanted, reading, screen, shrunk>>

\* What a read of rows finds: "none" (no website matches), "beyond" (the page lies past the
\* end) or "some"; the program sees no difference between the first two.
Unread == [going |-> TRUE, rows |-> "unread", counted |-> FALSE, total |-> 0]
NotReading == [Unread EXCEPT !.going = FALSE]
NoAnswer == [rows |-> "unread", pages |-> 0]

TableInit ==
  /\ sites \in [all : 0..MaxWebsites, some : 0..MaxWebsites] /\ sites.some <= sites.all
  /\ wanted = [filtered |-> FALSE, page |-> 1]
  /\ reading = Unread /\ screen = NoAnswer /\ shrunk = FALSE

Matching == IF wanted.filtered THEN sites.some ELSE sites.all

----------------------------------------------------------------------------
(* The request.                                                            *)

\* website.repository list: two reads, in either order.
ReadRows ==
  /\ reading.going /\ reading.rows = "unread"
  /\ reading' = [reading EXCEPT !.rows =
       CASE Matching = 0 -> "none"
         [] Matching > (wanted.page - 1) * RowsPerPage -> "some"
         [] OTHER -> "beyond"]
  /\ UNCHANGED <<sites, wanted, screen, shrunk>>

ReadTotal ==
  /\ reading.going /\ ~reading.counted
  /\ reading' = [reading EXCEPT !.counted = TRUE, !.total = Matching]
  /\ UNCHANGED <<sites, wanted, screen, shrunk>>

\* buildOffsetMeta.
PagesOf(total) == (total + RowsPerPage - 1) \div RowsPerPage

Answered ==
  /\ reading.rows # "unread" /\ reading.counted
  /\ reading' = NotReading
  /\ screen' = [rows |-> reading.rows, pages |-> PagesOf(reading.total)]
  /\ UNCHANGED <<sites, wanted, shrunk>>

----------------------------------------------------------------------------
(* The table.                                                              *)

Settled == ~reading.going

\* What the table says of an answer without rows.
Says ==
  IF screen.rows \in {"unread", "some"} THEN "rows"
  ELSE IF wanted.filtered THEN "No websites match" ELSE "No websites yet"

Ask(filtered, page) ==
  /\ wanted' = [filtered |-> filtered, page |-> page]
  /\ reading' = Unread
  /\ UNCHANGED <<screen, shrunk>>

\* Mutant of Filter: the page is kept.
FilterThisPage(filtered) == Ask(filtered, wanted.page)

\* A change of the search or of the status asks for the first page.
Filter(filtered) == Ask(filtered, 1)

\* Whatever was typed, any number of the websites may match it.
TypeFilter ==
  /\ Says # "No websites yet"
  /\ \/ Filter(FALSE) /\ UNCHANGED sites
     \/ Filter(TRUE) /\ sites' \in [all : {sites.all}, some : 0..sites.all]

ClearFilters ==
  /\ Says = "No websites match"
  /\ Filter(FALSE) /\ UNCHANGED sites

\* The buttons, which an empty unfiltered table does not show.
NextPage ==
  /\ Settled /\ Says # "No websites yet"
  /\ screen.pages > 1 /\ wanted.page < screen.pages
  /\ Ask(wanted.filtered, wanted.page + 1) /\ UNCHANGED sites

PreviousPage ==
  /\ Settled /\ Says # "No websites yet"
  /\ screen.pages > 1 /\ wanted.page > 1
  /\ Ask(wanted.filtered, wanted.page - 1) /\ UNCHANGED sites

\* The list is asked for again: it is stale, a website was added from the dialog, or the
\* request failed.
ReadListAgain == Ask(wanted.filtered, wanted.page) /\ UNCHANGED sites

----------------------------------------------------------------------------
(* The rest of the organization.                                           *)

\* A website is added, or one begins to match.
Grow ==
  /\ sites' \in [all : {sites.all, sites.all + 1}, some : {sites.some, sites.some + 1}]
  /\ sites' # sites /\ sites'.all <= MaxWebsites /\ sites'.some <= sites'.all
  /\ UNCHANGED <<wanted, reading, screen, shrunk>>

Shrink ==
  /\ sites' \in [all : {sites.all, sites.all - 1}, some : {sites.some, sites.some - 1}]
  /\ sites' # sites /\ sites'.some \in 0..sites'.all
  /\ shrunk' = TRUE
  /\ UNCHANGED <<wanted, reading, screen>>

TableNext ==
  \/ ReadRows \/ ReadTotal \/ Answered
  \/ TypeFilter \/ ClearFilters \/ NextPage \/ PreviousPage \/ ReadListAgain
  \/ Grow \/ Shrink

TableSpec == TableInit /\ [][TableNext]_tableVars

----------------------------------------------------------------------------
(* Properties.                                                             *)

\* The variables have their types.
TableTypeOK ==
  /\ sites \in [all : 0..MaxWebsites, some : 0..MaxWebsites] /\ sites.some <= sites.all
  /\ wanted.filtered \in BOOLEAN /\ wanted.page \in 1..PagesOf(MaxWebsites) + 1
  /\ reading \in [going : BOOLEAN, rows : {"unread", "none", "some", "beyond"},
                  counted : BOOLEAN, total : 0..MaxWebsites]
  /\ screen \in [rows : {"unread", "none", "some", "beyond"}, pages : 0..PagesOf(MaxWebsites)]
  /\ shrunk \in BOOLEAN

\* When the table says "No websites yet" or "No websites match those filters" at rest, the
\* rows it read were of a list that had none, as long as no website was removed and none
\* stopped matching: no page past the end is asked for, whatever was typed, turned or added
\* while its answer was awaited.  A website added after the rows were read is not shown, and
\* the message stands until they are read again.
NothingIsTrue == Settled /\ ~shrunk /\ Says # "rows" => screen.rows = "none"
=============================================================================
