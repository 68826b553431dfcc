--------------------------- MODULE ServicesProofs ---------------------------
(***************************************************************************)
(* The components around the monitoring pipeline as module MCServices puts *)
(* them together, for every value of the constants of all of them: a       *)
(* behaviour of the whole is one of every component, so that the theorems  *)
(* about each hold of the specification that is model-checked.             *)
(***************************************************************************)
EXTENDS MCServices, WorkerProofs, UrlProofs, WebProofs, StatisticsProofs

(* The whole starts where every component may start, and moves each of     *)
(* them by a step of its own or not at all.                                *)
LEMMA PartsStart ==
  Init => /\ NotifyInit /\ HttpInit /\ WorkerInit /\ NavInit /\ DashInit /\ FeedInit
          /\ TableInit /\ LimiterInit /\ StatsInit
BY DEF Init

LEMMA PartsStep ==
  [Next]_vars => /\ [NotifyNext]_notifyVars /\ [HttpNext]_httpVars /\ [WorkerNext]_workerVars
                 /\ [NavNext]_navVars /\ [DashNext]_dashVars /\ [FeedNext]_feedVars
                 /\ [TableNext]_tableVars /\ [LimiterNext]_limiterVars /\ [StatsNext]_statsVars
<1>1. CASE UNCHANGED vars
  BY <1>1 DEF vars
<1>2. CASE Next
  BY <1>2 DEF Next
<1> QED BY <1>1, <1>2

(* The history never holds more incidents than are opened.                 *)
FeedSized == FeedInv /\ Len(started) <= MaxIncidents

LEMMA FeedSizedStart == FeedInit => FeedSized
<1> SUFFICES ASSUME FeedInit PROVE FeedSized
  OBVIOUS
<1>1. PICK n \in 0..MaxIncidents : started \in [1..n -> 1..MaxStart]
  BY DEF FeedInit
<1>2. Len(started) = n
  BY <1>1, FeedBounds
<1> QED BY <1>1, <1>2, FeedBounds, InitFeed DEF FeedSized

LEMMA FeedSizedStep == FeedSized /\ [FeedNext]_feedVars => FeedSized'
<1> SUFFICES ASSUME FeedSized, [FeedNext]_feedVars PROVE FeedSized'
  OBVIOUS
<1>1. FeedInv /\ FeedInv' /\ Len(started) <= MaxIncidents
  BY FeedStep DEF FeedSized
<1>2. Len(started') <= MaxIncidents
  <2>1. CASE UNCHANGED started
    BY <1>1, <2>1
  <2>2. ASSUME NEW start \in 1..MaxStart, IncidentOpens(start)
        PROVE  Len(started') <= MaxIncidents
    <3>1. started \in Seq(1..MaxStart) /\ MaxIncidents \in Nat
      BY <1>1, FeedBounds DEF FeedInv
    <3> QED BY <2>2, <3>1 DEF IncidentOpens
  <2> QED BY <2>1, <2>2 DEF FeedNext, feedVars, LoadMore, StartOver, ReadAgain, ReadFails, IncidentGoes
<1> QED BY <1>1, <1>2 DEF FeedSized

LEMMA FeedTyped == FeedSized => FeedTypeOK
<1> SUFFICES ASSUME FeedSized PROVE FeedTypeOK
  OBVIOUS
<1> DEFINE ids == 1..MaxIncidents
           cursors == {First, End} \cup ((1..MaxStart) \X ids)
<1>1. started \in Seq(1..MaxStart) /\ Len(started) <= MaxIncidents /\ kept \subseteq DOMAIN started
  BY DEF FeedSized, FeedInv
<1>2. /\ DOMAIN started = 1..Len(started) /\ Len(started) \in Nat /\ MaxIncidents \in Nat
      /\ \A i \in DOMAIN started : started[i] \in 1..MaxStart
  BY <1>1, FeedBounds
<1>3. DOMAIN started \subseteq ids
  BY <1>1, <1>2
<1>4. ASSUME NEW rows, NEW next, NEW from, ReadSoFar(started, kept, rows, next, from)
      PROVE  ToSet(rows) \subseteq ids /\ next \in cursors /\ from \subseteq ids
  <2>1. /\ rows \in Seq(DOMAIN started) /\ from \subseteq DOMAIN started
        /\ \/ next \in {First, End}
           \/ Len(rows) > 0 /\ next = <<started[rows[Len(rows)]], rows[Len(rows)]>>
    BY <1>4 DEF ReadSoFar
  <2>2. \A n \in DOMAIN rows : rows[n] \in DOMAIN started
    BY <2>1
  <2>3. ToSet(rows) \subseteq ids
    BY <1>3, <2>2 DEF ToSet
  <2>4. ASSUME Len(rows) > 0 PROVE rows[Len(rows)] \in DOMAIN started
    BY <2>1, <2>4
  <2>5. next \in cursors
    BY <1>2, <1>3, <2>1, <2>4
  <2> QED BY <1>3, <2>1, <2>3, <2>5
<1>5. /\ ReadSoFar(started, kept, listed.rows, listed.next, base)
      /\ ReadSoFar(started, kept, reread.rows, reread.next, reread.base)
      /\ listed.failed \in BOOLEAN
  BY DEF FeedSized, FeedInv
<1>6. /\ ToSet(listed.rows) \subseteq ids /\ listed.next \in cursors /\ base \subseteq ids
      /\ ToSet(reread.rows) \subseteq ids /\ reread.next \in cursors
  BY <1>4, <1>5
<1> QED BY <1>1, <1>2, <1>5, <1>6 DEF FeedTypeOK

----------------------------------------------------------------------------
(* A behaviour of the whole is a behaviour of each of its components.      *)
THEOREM ServicesImplement ==
  Spec => /\ NotifySpec /\ HttpSpec /\ WorkerSpec /\ NavSpec /\ DashSpec /\ FeedSpec
          /\ TableSpec /\ LimiterSpec /\ StatsSpec
BY PartsStart, PartsStep, PTL
DEF Spec, NotifySpec, HttpSpec, WorkerSpec, NavSpec, DashSpec, FeedSpec, TableSpec, LimiterSpec,
    StatsSpec

(* Addresses and URLs are asked about only in behaviours of their own.     *)
RulesAsked == IF part = "rules" THEN AddressInv /\ RulesInv ELSE answer = <<>>

LEMMA RulesAskedAlways == Spec => []RulesAsked
<1>1. Init => RulesAsked
  BY AddressStart, RulesStart DEF Init, RulesAsked
<1>2. RulesAsked /\ [Next]_vars => RulesAsked'
  <2>1. CASE UNCHANGED <<part, ruleVars>>
    BY <2>1, AddressStep, RulesStep DEF RulesAsked, ruleVars
  <2>2. CASE part = "rules" /\ UNCHANGED part /\ RulesNext
    BY <2>2, AddressStep, RulesStep DEF RulesAsked
  <2> QED BY <2>1, <2>2 DEF Next, vars
<1> QED BY <1>1, <1>2, PTL DEF Spec

LEMMA NothingAnswered == answer = <<>> => AddressesAgree /\ KeysNameWebsites
BY DEF AddressesAgree, KeysNameWebsites

(* ServicesTypeOK: the variables of every component have their types in    *)
(* every behaviour of the run, whichever component it follows.             *)
THEOREM ServicesTyped == Spec => []ServicesTypeOK
<1>1. NotifySpec => []NotifyTypeOK
  BY AnnouncedAlways, PTL DEF Announced
<1>2. NavSpec => []NavTypeOK
  BY NavStart, NavStep, PTL DEF NavSpec
<1>3. FeedSpec => []FeedTypeOK
  BY FeedSizedStart, FeedSizedStep, FeedTyped, PTL DEF FeedSpec
<1>4. TableSpec => []TableTypeOK
  <2>1. TableInv => TableTypeOK
    BY DEF TableInv
  <2> QED BY <2>1, InitTable, TableStep, PTL DEF TableSpec
<1>5. LimiterSpec => []LimiterTypeOK
  <2>1. LimiterInv => LimiterTypeOK
    BY DEF LimiterInv
  <2> QED BY <2>1, InitLimiter, LimiterStep, PTL DEF LimiterSpec
<1>6. StatsSpec => []StatsTypeOK
  <2>1. AnswerIsCurrent => StatsTypeOK
    BY DEF AnswerIsCurrent
  <2> QED BY <2>1, StatsStart, StatsStep, PTL DEF StatsSpec
<1>7. Spec => [](part \in Components)
  <2>1. Init => part \in Components
    BY DEF Init
  <2>2. part \in Components /\ [Next]_vars => (part \in Components)'
    BY DEF Next, vars, Components
  <2> QED BY <2>1, <2>2, PTL DEF Spec
<1>8. /\ part \in Components
      /\ NotifyTypeOK /\ HttpTypeOK /\ WorkerTypeOK /\ NavTypeOK /\ DashTypeOK /\ FeedTypeOK
      /\ TableTypeOK /\ LimiterTypeOK /\ StatsTypeOK
      => ServicesTypeOK
  BY DEF ServicesTypeOK
<1> QED BY <1>1, <1>2, <1>3, <1>4, <1>5, <1>6, <1>7, <1>8, ServicesImplement, HttpTyped, WorkerTyped,
           DashTyped, PTL

(* Every behaviour of the run has the safety properties that are proved of *)
(* its components: announcements, connections, addresses and keys, views   *)
(* that never go back, a history read once, tables, budgets and figures,   *)
(* and the drain before an exit.                                           *)
THEOREM ServicesSafe ==
  Spec => /\ []AtMostOneEmail /\ []NoticesAreTrue /\ []EverybodyTold
          /\ []ConnectsWhereAllowed /\ []CheckFitsLease
          /\ []AddressesAgree /\ []KeysNameWebsites
          /\ []NeverGoesBack /\ []IncidentsReadOnce /\ []NothingIsTrue /\ []BudgetRespected
          /\ []FiguresAgree
          /\ DrainsBeforeExit
<1>1. RulesAsked => AddressesAgree /\ KeysNameWebsites
  BY AddressFollow, KeysFollow, NothingAnswered DEF RulesAsked
<1>2. Spec => []AddressesAgree /\ []KeysNameWebsites
  BY <1>1, RulesAskedAlways, PTL
<1> QED BY <1>2, ServicesImplement, NobodyIsMailedTwice, TheCollectionIsTrue, NobodyIsLeftOut,
           OnlyAllowedSockets, LeaseOutlastsRequests, NothingGoesBack, ReadOnce, EmptyIsTrue,
           BudgetsHold, FiguresAreTrue, DrainedBeforeExit, PTL
=============================================================================
