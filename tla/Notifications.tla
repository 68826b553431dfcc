--------------------------- MODULE Notifications ---------------------------
(***************************************************************************)
(* How ONE incident of one website is announced to the members of its      *)
(* organization (apps/worker/src/monitoring/notification-service.ts), with *)
(* the preferences the members write meanwhile (apps/api/src/monitoring/   *)
(* notification-settings.service.ts).  Monitoring takes a dispatch as one  *)
(* step after the claim; here it is the sequence of awaited calls it is.   *)
(* A run of a worker may fail at any call or die with its process.         *)
(***************************************************************************)
EXTENDS Integers, FiniteSets

CONSTANTS
  People,      \* accounts that may belong to the organization
  Dispatchers, \* runs of workers that may announce the incident
  MaxChanges     \* BOUND: joins, departures, preference writes and failures of runs

ASSUME NotifyAssumption == IsFiniteSet(People) /\ MaxChanges \in Nat

VARIABLES
  claimed,     \* the events whose flag on the incident is set
  outage,      \* the incident document: "open", "resolved" or "deleted"
  joined,      \* who is a member, with a verified address
  settings,    \* People -> the stored preferences, NoRow when there are none
  notice,      \* Events -> People -> status of the Notification document
  mailed,      \* Events -> People -> messages the provider delivered
  dispatch,    \* Dispatchers -> what the run holds and where it waits
  changes,     \* changes and failures so far (bound)
  willing,     \* history: who could be told all the time since the claim
  unwilling,   \* history: who could not, all the time since the claim
  interrupted  \* history: the events whose dispatch failed or died half-way

notifyVars == <<claimed, outage, joined, settings, notice, mailed, dispatch, changes,
                willing, unwilling, interrupted>>

Events == {"down", "recovered"}
Rows == [stored : BOOLEAN, on : SUBSET Events]
NoRow == [stored |-> FALSE, on |-> {}]
Defaults == {"down", "recovered"}
Resting == [at |-> "idle", event |-> "down", todo |-> {}, to |-> {}, result |-> "none"]

\* The preference of an event, the default when the member never set one.
Wants(row, e) == e \in (IF row.stored THEN row.on ELSE Defaults)

\* Who is to be told of an event now; the histories are kept with it.
Listening(e, members, rows) ==
  {u \in members : IF rows[u].stored THEN e \in rows[u].on ELSE TRUE}

NotifyInit ==
  /\ claimed = {}
  /\ outage = "open"
  /\ joined \in SUBSET People
  /\ settings = [u \in People |-> NoRow]
  /\ notice = [e \in Events |-> [u \in People |-> "none"]]
  /\ mailed = [e \in Events |-> [u \in People |-> 0]]
  /\ dispatch = [d \in Dispatchers |-> Resting]
  /\ changes = 0
  /\ willing = [e \in Events |-> {}]
  /\ unwilling = [e \in Events |-> {}]
  /\ interrupted = {}

----------------------------------------------------------------------------
(* A dispatch: claim, read the incident, resolve the recipients, then one  *)
(* recipient after the other: insert, send, record.                        *)

Waits(d, place) == dispatch[d].at = place
Moves(d, r) == dispatch' = [dispatch EXCEPT ![d] = r]

\* claimDispatch: the conditional update that lets one run through per event.
ClaimDispatch(d, e) ==
  /\ Waits(d, "idle")
  /\ outage = "resolved" \/ (outage = "open" /\ e = "down")
  /\ e \notin claimed
  /\ claimed' = claimed \cup {e}
  /\ Moves(d, [Resting EXCEPT !.at = "incident", !.event = e])
  /\ willing' = [willing EXCEPT ![e] = Listening(e, joined, settings)]
  /\ unwilling' = [unwilling EXCEPT ![e] = People \ Listening(e, joined, settings)]
  /\ UNCHANGED <<outage, joined, settings, notice, mailed, changes, interrupted>>

\* The incident is read back; a dispatch of a deleted one stops here.
ReadIncident(d) ==
  /\ Waits(d, "incident")
  /\ Moves(d, IF outage = "deleted" \/ (dispatch[d].event = "recovered" /\ outage # "resolved")
              THEN Resting ELSE [dispatch[d] EXCEPT !.at = "members"])
  /\ UNCHANGED <<claimed, outage, joined, settings, notice, mailed, changes, willing,
                 unwilling, interrupted>>

\* resolveRecipients, first query: the members of the organization.
ListMembers(d) ==
  /\ Waits(d, "members")
  /\ Moves(d, IF joined = {} THEN Resting
              ELSE [dispatch[d] EXCEPT !.at = "settings", !.todo = joined])
  /\ UNCHANGED <<claimed, outage, joined, settings, notice, mailed, changes, willing,
                 unwilling, interrupted>>

\* resolveRecipients, second round: accounts and preferences of those members.
ReadSettings(d) ==
  LET told == {u \in dispatch[d].todo : Wants(settings[u], dispatch[d].event)}
  IN /\ Waits(d, "settings")
     /\ Moves(d, IF told = {} THEN Resting
                 ELSE [dispatch[d] EXCEPT !.at = "insert", !.todo = told])
     /\ UNCHANGED <<claimed, outage, joined, settings, notice, mailed, changes, willing,
                    unwilling, interrupted>>

\* The record of a run that is through with the recipients in `done`.
Proceed(r, done) ==
  IF r.todo \subseteq done THEN Resting
  ELSE [r EXCEPT !.at = "insert", !.todo = @ \ done, !.to = {}, !.result = "none"]

\* The Notification document of the next recipient; the unique dedupeKey makes a
\* second insert fail, and the loop goes on with the next recipient.
InsertNotice(d, u) ==
  LET r == dispatch[d]
      fresh == notice[r.event][u] = "none"
  IN /\ Waits(d, "insert")
     /\ u \in r.todo
     /\ notice' = IF fresh THEN [notice EXCEPT ![r.event][u] = "pending"] ELSE notice
     /\ Moves(d, IF fresh THEN [r EXCEPT !.at = "send", !.to = {u}] ELSE Proceed(r, {u}))
     /\ UNCHANGED <<claimed, outage, joined, settings, mailed, changes, willing, unwilling,
                    interrupted>>

\* EmailService.send reports and never throws.  A message the provider took may
\* still be reported as failed, when its answer is lost.
MailOutcomes == {[arrives |-> 1, says |-> "delivered"], [arrives |-> 0, says |-> "refused"],
                 [arrives |-> 1, says |-> "refused"]}

\* Mutant of SendMail: a message reported as failed is tried a second time.
SendMailTwice(d, u) ==
  /\ Waits(d, "send")
  /\ u \in dispatch[d].to
  /\ \E first, second \in MailOutcomes :
       /\ mailed' = [mailed EXCEPT ![dispatch[d].event][u] =
                       @ + first.arrives + (IF first.says = "refused" THEN second.arrives ELSE 0)]
       /\ Moves(d, [dispatch[d] EXCEPT !.at = "record", !.result = second.says])
  /\ UNCHANGED <<claimed, outage, joined, settings, notice, changes, willing, unwilling,
                 interrupted>>

SendMail(d, u) ==
  /\ Waits(d, "send")
  /\ u \in dispatch[d].to
  /\ \E sent \in MailOutcomes :
       /\ mailed' = [mailed EXCEPT ![dispatch[d].event][u] = @ + sent.arrives]
       /\ Moves(d, [dispatch[d] EXCEPT !.at = "record", !.result = sent.says])
  /\ UNCHANGED <<claimed, outage, joined, settings, notice, changes, willing, unwilling,
                 interrupted>>

\* Mutant of StatusOf: whatever was handed to the provider counts as sent.
AlwaysSent(result) == "sent"

StatusOf(result) == IF result = "delivered" THEN "sent" ELSE "failed"

\* Mutant of RecordResult: a refused message ends the dispatch.
RecordAndGiveUp(d, u) ==
  LET r == dispatch[d]
  IN /\ Waits(d, "record")
     /\ u \in r.to
     /\ notice' = [notice EXCEPT ![r.event][u] = StatusOf(r.result)]
     /\ Moves(d, IF r.result = "delivered" THEN Proceed(r, {u}) ELSE Resting)
     /\ UNCHANGED <<claimed, outage, joined, settings, mailed, changes, willing, unwilling,
                    interrupted>>

RecordResult(d, u) ==
  LET r == dispatch[d]
  IN /\ Waits(d, "record")
     /\ u \in r.to
     /\ notice' = [notice EXCEPT ![r.event][u] = StatusOf(r.result)]
     /\ Moves(d, Proceed(r, {u}))
     /\ UNCHANGED <<claimed, outage, joined, settings, mailed, changes, willing, unwilling,
                    interrupted>>

\* A database call throws (check-runner logs it and goes on to release the lease),
\* or the process dies: the flag stays set and nobody takes the dispatch up again.
Interrupt(d) ==
  /\ ~Waits(d, "idle")
  /\ changes < MaxChanges
  /\ changes' = changes + 1
  /\ interrupted' = interrupted \cup {dispatch[d].event}
  /\ Moves(d, Resting)
  /\ UNCHANGED <<claimed, outage, joined, settings, notice, mailed, willing, unwilling>>

----------------------------------------------------------------------------
(* What the API does meanwhile.                                            *)

\* The histories lose whoever changed sides.
Witness(members, rows) ==
  /\ willing' = [e \in Events |-> willing[e] \cap Listening(e, members, rows)]
  /\ unwilling' = [e \in Events |-> unwilling[e] \ Listening(e, members, rows)]

\* update: only the supplied fields are set; the first write of a member creates the
\* row, with the defaults for the fields it does not set.
UpdatePreferences(u, supplied, value) ==
  LET before == IF settings[u].stored THEN settings[u].on ELSE Defaults
      row == [stored |-> TRUE,
              on |-> IF value THEN before \cup supplied ELSE before \ supplied]
  IN /\ u \in joined
     /\ supplied # {}
     /\ changes < MaxChanges
     /\ changes' = changes + 1
     /\ settings' = [settings EXCEPT ![u] = row]
     /\ Witness(joined, settings')
     /\ UNCHANGED <<claimed, outage, joined, notice, mailed, dispatch, interrupted>>

\* An account joins or leaves the organization (module Membership); its preferences stay.
ChangeMember(u) ==
  /\ changes < MaxChanges
  /\ changes' = changes + 1
  /\ joined' = IF u \in joined THEN joined \ {u} ELSE joined \cup {u}
  /\ Witness(joined', settings)
  /\ UNCHANGED <<claimed, outage, settings, notice, mailed, dispatch, interrupted>>

\* The incident is resolved by a recovery, or deleted with its website.
EndOutage(o) ==
  /\ outage # "deleted"
  /\ <<outage, o>> \in {<<"open", "resolved">>, <<"open", "deleted">>, <<"resolved", "deleted">>}
  /\ outage' = o
  /\ UNCHANGED <<claimed, joined, settings, notice, mailed, dispatch, changes, willing,
                 unwilling, interrupted>>

NotifyWork(d) ==
  \/ ReadIncident(d) \/ ListMembers(d) \/ ReadSettings(d)
  \/ \E u \in People : InsertNotice(d, u) \/ SendMail(d, u) \/ RecordResult(d, u)

NotifyNext ==
  \/ \E d \in Dispatchers : \E e \in Events : ClaimDispatch(d, e)
  \/ \E d \in Dispatchers : NotifyWork(d) \/ Interrupt(d)
  \/ \E u \in People, s \in SUBSET Events, v \in BOOLEAN : UpdatePreferences(u, s, v)
  \/ \E u \in People : ChangeMember(u)
  \/ \E o \in {"resolved", "deleted"} : EndOutage(o)

NotifySpec == NotifyInit /\ [][NotifyNext]_notifyVars

----------------------------------------------------------------------------
(* Properties.                                                             *)

NotifyTypeOK ==
  /\ claimed \in SUBSET {"down", "recovered"}
  /\ outage \in {"open", "resolved", "deleted"}
  /\ joined \in SUBSET People
  /\ settings \in [People -> [stored : BOOLEAN, on : SUBSET {"down", "recovered"}]]
  /\ notice \in [Events -> [People -> {"none", "pending", "sent", "failed"}]]
  /\ mailed \in [Events -> [People -> Nat]]
  /\ dispatch \in [Dispatchers ->
       [at : {"idle", "incident", "members", "settings", "insert", "send", "record"},
        event : {"down", "recovered"}, todo : SUBSET People, to : SUBSET People,
        result : {"none", "delivered", "refused"}]]
  /\ changes \in 0..MaxChanges
  /\ willing \in [Events -> SUBSET People]
  /\ unwilling \in [Events -> SUBSET People]
  /\ interrupted \in SUBSET {"down", "recovered"}

\* One message per person and event, however the runs interleave and fail ("a unique index
\* ... makes duplicate delivery impossible", database/models/notification.ts), and none to
\* somebody who, from the claim on, was no member or had switched the event off.
AtMostOneEmail ==
  \A e \in Events, u \in People : mailed[e][u] <= IF u \in unwilling[e] THEN 0 ELSE 1

\* What the collection calls sent has arrived, and a document that is still pending
\* belongs to a dispatch under way or to one that was cut short.
NoticesAreTrue ==
  \A e \in Events, u \in People :
    /\ notice[e][u] = "sent" => mailed[e][u] = 1
    /\ notice[e][u] = "pending" =>
         e \in interrupted \/ \E d \in Dispatchers : dispatch[d].event = e /\ u \in dispatch[d].to

\* A dispatch that was not cut short has settled everybody who could be told since the
\* claim: one refused address never keeps the alert from the others.
EverybodyTold ==
  \A e \in claimed \ interrupted :
    (outage # "deleted" /\ \A d \in Dispatchers : Waits(d, "idle") \/ dispatch[d].event # e)
      => \A u \in willing[e] : notice[e][u] \in {"sent", "failed"}
=============================================================================
