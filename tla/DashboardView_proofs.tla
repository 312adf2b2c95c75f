------------------------ MODULE DashboardView_proofs ------------------------
(***************************************************************************)
(* Proofs about DashboardView, for all hosts, reports and bounds.          *)
(***************************************************************************)
EXTENDS DashboardView, TLAPS

(* The inductive invariant *)

\* Before the first report nothing is asked for but the dashboard.
NothingBefore ==
    ~Connected => histories = {} /\ ~historyLoading /\ tabEvent = NoTab

\* An automatic request was made for the selection.  It is out, it was answered,
\* or it failed and is remembered.
TriesInv ==
    /\ tries <= 1
    /\ tries = 1 =>
         IF historyLoading
         THEN \E r \in histories : r.serial = historyRequestSerial
                                   /\ r.key = selection
         ELSE ~NeedsHistory(selection) \/ historyFailedKey = selection

IInv ==
    /\ TypeOK
    /\ SelectionOffered
    /\ LoadingIsOutstanding
    /\ SettledOrAsking
    /\ NothingBefore
    /\ TriesInv
    /\ historyData.serial <= historyRequestSerial

-----------------------------------------------------------------------------
(* Reports and renderings *)

LEMMA ReportFacts ==
    ASSUME NEW v \in 1..Len(Reports), NEW g \in Granularities
    PROVE  /\ Reports[v].hosts \in SUBSET Hosts
           /\ Reports[v].usage_periods[g] \in Seq(Nat)
           /\ Head(Reports[v].usage_periods[g])
                  \in Range(Reports[v].usage_periods[g])
           /\ Range(Reports[v].usage_periods[g]) \subseteq Periods \cap Nat
<1> DEFINE options == Reports[v].usage_periods[g]
<1> DEFINE R == [hosts : SUBSET Hosts,
                 usage_periods : [Granularities -> Seq(Nat) \ {<<>>}]]
<1>1. v \in DOMAIN Reports /\ Reports[v] \in R
  <2>1. Reports \in Seq(R)
    BY ViewAssumption
  <2> HIDE DEF R
  <2> QED
    BY <2>1
<1>2. Reports[v].hosts \in SUBSET Hosts /\ options \in Seq(Nat) \ {<<>>}
  BY <1>1
<1>3. Head(options) = options[1] /\ 1 \in DOMAIN options
  BY <1>2
<1>4. Range(options) \subseteq Nat
  BY <1>2 DEF Range
<1>5. Range(options) \subseteq Periods
  BY <1>1 DEF Periods
<1> QED
  BY <1>2, <1>3, <1>4, <1>5 DEF Range

LEMMA SeqLen == Len(Reports) \in Nat \ {0}
BY ViewAssumption

\* What a rendering of a report leaves.
LEMMA RenderFacts ==
    ASSUME NEW data \in Dashboard, NEW host \in Hosts \cup {NoHost},
           NEW tab \in Tabs, NEW g \in Granularities, NEW p,
           Render(data, host, tab, g, p)
    PROVE  /\ lastData' \in Dashboard /\ Connected'
           /\ selectedHostID' \in Hosts \cup {NoHost}
           /\ activeTab' \in Tabs /\ tabEvent' = activeTab'
           /\ historyGranularity' \in Granularities
           /\ historyPeriod' \in Nat /\ selection' \in Keys
           /\ SelectionOffered'
           /\ historyGranularity' = g
           /\ p \in Range(Offered(data, g)) => historyPeriod' = p
<1>1. data.version \in 1..Len(Reports) /\ data.version > 0
  BY SeqLen DEF Dashboard
<1>2. /\ Reports[data.version].hosts \in SUBSET Hosts
      /\ Head(Offered(data, g)) \in Range(Offered(data, g))
      /\ Range(Offered(data, g)) \subseteq Periods \cap Nat
  BY <1>1, ReportFacts DEF Offered
<1>3. /\ historyPeriod' \in Range(Offered(data, g))
      /\ p \in Range(Offered(data, g)) => historyPeriod' = p
  BY <1>2 DEF Render, OfferedPeriod
<1>4. lastData' = data /\ historyGranularity' = g /\ tabEvent' = activeTab'
  BY DEF Render
<1>5. /\ selectedHostID' \in Hosts \cup {NoHost}
      /\ selectedHostID' # NoHost =>
            selectedHostID' \in Reports[data.version].hosts
      /\ activeTab' \in Tabs
  BY <1>2 DEF Render, Tabs
<1>6. SelectionOffered'
  BY <1>3, <1>4, <1>5 DEF SelectionOffered, Offered
<1>7. selection' \in Keys
  BY <1>2, <1>3, <1>4 DEF selection, Keys
<1> QED
  BY <1>1, <1>2, <1>3, <1>4, <1>5, <1>6, <1>7 DEF Connected

\* Rendering the report again, with a period it offers, selects that period.
LEMMA Again ==
    ASSUME IInv, Connected, NEW host \in Hosts \cup {NoHost}, NEW tab \in Tabs,
           Render(lastData, host, tab, historyGranularity, historyPeriod)
    PROVE  selection' = selection
<1>1. lastData \in Dashboard /\ historyGranularity \in Granularities
  BY DEF IInv, TypeOK, Connected, NoDashboard
<1>2. historyPeriod \in Range(Offered(lastData, historyGranularity))
  BY DEF IInv, SelectionOffered
<1> QED
  BY <1>1, <1>2, RenderFacts DEF selection

\* While a report is shown the selection is one that can be asked for.
LEMMA SelectionIsKey == IInv /\ Connected => selection \in Keys
<1> SUFFICES ASSUME IInv, Connected PROVE selection \in Keys
  OBVIOUS
<1>1. lastData.version \in 1..Len(Reports)
      /\ historyGranularity \in Granularities
  BY SeqLen DEF IInv, TypeOK, Connected, NoDashboard, Dashboard
<1>2. historyPeriod \in Range(Offered(lastData, historyGranularity))
  BY DEF IInv, SelectionOffered
<1> QED
  BY <1>1, <1>2, ReportFacts DEF selection, Keys, Offered

-----------------------------------------------------------------------------
(* The invariant is inductive *)

LEMMA IInvInit == Init => IInv
<1> SUFFICES ASSUME Init PROVE IInv
  OBVIOUS
<1>1. /\ 1 \in 1..Len(Reports)
      /\ "month" \in Granularities
  BY SeqLen, ViewAssumption
<1>2. LET options == Reports[1].usage_periods["month"]
      IN  Head(options) \in Range(options) /\ Head(options) \in Nat
  BY <1>1, ReportFacts
<1>3. /\ lastData \in Dashboard \cup {NoDashboard}
      /\ historyPeriod \in Nat
      /\ tabEvent \in Tabs \cup {NoTab}
  BY <1>1, <1>2 DEF Init, Tabs, Dashboard
<1>5. historyData \in [key : Keys \cup {NoKey}, serial : Nat]
  BY DEF Init, NoData
<1>6. TypeOK
  BY <1>1, <1>3, <1>5 DEF Init, TypeOK, Tabs
<1>4. SelectionOffered
  BY <1>2 DEF Init, SelectionOffered, Connected, Offered, NoDashboard
<1>7. NothingBefore
  BY DEF Init, NothingBefore, Connected
<1>8. historyData.serial <= historyRequestSerial /\ TriesInv
  BY DEF Init, NoData, TriesInv
<1> QED
  BY <1>4, <1>6, <1>7, <1>8 DEF Init, IInv, LoadingIsOutstanding, SettledOrAsking

\* An answer with a report, whichever was made since the request.
LEMMA DashboardStep ==
    ASSUME IInv, NEW request \in DashboardRequests, DashboardAnswer(request)
    PROVE  IInv'
<1>1. PICK v \in request.since..version :
          Render([version |-> v, of |-> request.of], selectedHostID,
                 activeTab, historyGranularity, historyPeriod)
  BY DEF DashboardAnswer
<1>2. [version |-> v, of |-> request.of] \in Dashboard
  BY SeqLen DEF IInv, TypeOK, DashboardRequests, Dashboard
<1>3. /\ lastData' \in Dashboard /\ Connected'
      /\ selectedHostID' \in Hosts \cup {NoHost}
      /\ activeTab' \in Tabs /\ tabEvent' = activeTab'
      /\ historyGranularity' \in Granularities
      /\ historyPeriod' \in Nat
      /\ SelectionOffered'
  BY <1>1, <1>2, RenderFacts DEF IInv, TypeOK
<1>4. /\ dashboards' \subseteq dashboards
      /\ tries' = IF selection' = selection THEN tries ELSE 0
      /\ UNCHANGED <<version, historyLoading, historyRequestSerial,
                     historyFailedKey, histories, historyData, choices>>
  BY DEF DashboardAnswer, CountTries, IInv, TypeOK
<1>5. TypeOK'
  BY <1>3, <1>4 DEF IInv, TypeOK
<1>6. TriesInv'
  BY <1>4 DEF IInv, TriesInv, NeedsHistory
<1> QED
  BY <1>3, <1>4, <1>5, <1>6 DEF IInv, LoadingIsOutstanding, SettledOrAsking,
       NothingBefore

\* A request for a history, by the page or by the user.
LEMMA RequestStep ==
    ASSUME IInv, Connected, NEW g \in Granularities,
           NEW p \in Range(Offered(lastData, g)),
           NEW automatic \in BOOLEAN, NEW tab \in Tabs,
           RequestHistory(g, p, automatic, tab),
           automatic => /\ ~historyLoading /\ NeedsHistory(selection)
                        /\ ~Suppressed(selection, TRUE),
           UNCHANGED <<version, dashboards, historyData>>, choices' \in Nat
    PROVE  IInv'
<1>1. lastData \in Dashboard
  BY DEF IInv, TypeOK, Connected, NoDashboard
<1>2. /\ lastData' \in Dashboard /\ Connected'
      /\ selectedHostID' \in Hosts \cup {NoHost}
      /\ activeTab' \in Tabs /\ tabEvent' = activeTab'
      /\ historyGranularity' = g /\ historyPeriod' = p
      /\ historyPeriod' \in Nat /\ selection' \in Keys
      /\ SelectionOffered'
  BY <1>1, RenderFacts DEF IInv, TypeOK, RequestHistory
<1> DEFINE new == [serial |-> historyRequestSerial + 1, key |-> <<g, p>>]
<1>3. /\ historyLoading' = TRUE
      /\ historyRequestSerial' = historyRequestSerial + 1
      /\ histories' = histories \cup {new}
      /\ historyFailedKey' \in {historyFailedKey, NoKey}
  BY DEF RequestHistory, NextSerial
<1>4. new.key = selection' /\ new.key \in Keys
  BY <1>2 DEF selection
<1>5. historyRequestSerial \in Nat
  BY DEF IInv, TypeOK
<1>6. tries' \in Nat /\ tries' <= 1
  <2>1. CASE automatic
    <3>1. tries = 0
      BY <2>1 DEF IInv, TypeOK, TriesInv, Suppressed
    <3> QED
      BY <2>1, <3>1 DEF RequestHistory, CountTries
  <2>2. CASE ~automatic
    BY <2>2 DEF RequestHistory, CountTries
  <2> QED
    BY <2>1, <2>2
<1>7. histories' \subseteq [serial : 1..historyRequestSerial', key : Keys]
  <2>1. histories \subseteq [serial : 1..historyRequestSerial, key : Keys]
    BY DEF IInv, TypeOK
  <2> QED
    BY <1>3, <1>4, <1>5, <2>1
<1>8. \A r, q \in histories' : r.serial = q.serial => r = q
  <2>1. \A r \in histories : r.serial # new.serial
    BY <1>5 DEF IInv, TypeOK
  <2> QED
    BY <1>3, <2>1 DEF IInv, TypeOK
<1>9. TypeOK'
  BY <1>2, <1>3, <1>5, <1>6, <1>7, <1>8 DEF IInv, TypeOK
<1>10. TriesInv' /\ LoadingIsOutstanding'
  <2>1. new \in histories' /\ new.serial = historyRequestSerial'
    BY <1>3
  <2>2. \E r \in histories' : r.serial = historyRequestSerial'
                             /\ r.key = selection'
    BY <1>4, <2>1
  <2> QED
    BY <1>3, <1>6, <2>1, <2>2 DEF TriesInv, LoadingIsOutstanding
<1>11. historyData'.serial <= historyRequestSerial'
  BY <1>3, <1>5 DEF IInv, TypeOK
<1> QED
  BY <1>2, <1>9, <1>10, <1>11 DEF IInv, SettledOrAsking, NothingBefore

\* The listener of the tabs, for the tab that was rendered or clicked.
LEMMA TabStep ==
    ASSUME IInv, Connected, NEW tab \in Tabs, NEW later \in Tabs \cup {NoTab},
           TabActive(tab, later),
           UNCHANGED <<version, dashboards, historyData, choices>>
    PROVE  IInv'
<1>1. historyGranularity \in Granularities /\ choices \in Nat
      /\ historyPeriod \in Range(Offered(lastData, historyGranularity))
  BY DEF IInv, TypeOK, SelectionOffered
<1>2. CASE tab = "history" /\ ~historyLoading /\ NeedsHistory(selection)
           /\ ~Suppressed(selection, TRUE)
  <2>1. RequestHistory(historyGranularity, historyPeriod, TRUE, tab)
    BY <1>2 DEF TabActive
  <2> QED
    BY <1>1, <1>2, <2>1, RequestStep
<1>3. CASE ~(tab = "history" /\ ~historyLoading /\ NeedsHistory(selection)
             /\ ~Suppressed(selection, TRUE))
  <2>1. /\ activeTab' = tab /\ tabEvent' = later
        /\ UNCHANGED <<selectedHostID, lastData, selection, requests>>
    BY <1>3 DEF TabActive
  <2>2. SettledOrAsking'
    <3>1. tab = "history" => \/ historyLoading
                             \/ historyData.key = selection
                             \/ historyFailedKey = selection
      BY <1>3 DEF NeedsHistory, Suppressed
    <3> QED
      BY <2>1, <3>1 DEF SettledOrAsking, Matches, requests, selection
  <2>3. TypeOK'
    BY <2>1 DEF IInv, TypeOK, requests, selection
  <2>4. TriesInv' /\ SelectionOffered' /\ LoadingIsOutstanding'
    BY <2>1 DEF IInv, TriesInv, NeedsHistory, SelectionOffered, Connected,
         Offered, LoadingIsOutstanding, requests, selection
  <2>5. NothingBefore' /\ historyData'.serial <= historyRequestSerial'
    BY <2>1 DEF IInv, NothingBefore, Connected, requests
  <2> QED
    BY <2>2, <2>3, <2>4, <2>5 DEF IInv
<1> QED
  BY <1>2, <1>3

\* Outstanding requests belong to a page with a report.
LEMMA AskedConnected ==
    /\ IInv /\ histories # {} => Connected
    /\ IInv /\ tabEvent # NoTab => Connected
BY DEF IInv, NothingBefore

\* A late answer or failure changes nothing but the requests.
LEMMA LateStep ==
    ASSUME IInv, NEW request \in histories, ~Newest(request),
           histories' = histories \ {request},
           UNCHANGED <<version, activeTab, selectedHostID, lastData,
                       dashboards, selection, historyLoading,
                       historyRequestSerial, historyFailedKey, historyData,
                       tabEvent, choices, tries>>
    PROVE  IInv'
<1>1. TypeOK'
  BY DEF IInv, TypeOK, selection
<1>2. TriesInv' /\ LoadingIsOutstanding'
  BY DEF IInv, TriesInv, LoadingIsOutstanding, NeedsHistory, selection, Newest
<1>3. SelectionOffered' /\ SettledOrAsking'
  BY DEF IInv, SelectionOffered, SettledOrAsking, Connected, Offered, Matches,
       selection
<1>4. NothingBefore' /\ historyData'.serial <= historyRequestSerial'
  BY DEF IInv, NothingBefore, Connected
<1> QED
  BY <1>1, <1>2, <1>3, <1>4 DEF IInv

\* The newest request is over, with data or with a failure.
LEMMA FinishStep ==
    ASSUME IInv, NEW request \in histories, Newest(request),
           NEW key \in Keys \cup {NoKey}, Finished(key),
           \/ historyData' = [key |-> request.key, serial |-> request.serial]
           \/ historyData' = historyData /\ key = request.key,
           histories' = histories \ {request},
           UNCHANGED <<version, dashboards, historyRequestSerial, tries,
                       choices>>
    PROVE  IInv'
<1>1. Connected /\ lastData \in Dashboard
  BY AskedConnected DEF IInv, TypeOK, Connected, NoDashboard
<1>2. Render(lastData, selectedHostID, activeTab, historyGranularity,
             historyPeriod)
      /\ historyLoading' = FALSE /\ historyFailedKey' = key
  BY DEF Finished
<1>3. /\ lastData' \in Dashboard /\ Connected'
      /\ selectedHostID' \in Hosts \cup {NoHost}
      /\ activeTab' \in Tabs /\ tabEvent' = activeTab'
      /\ historyGranularity' \in Granularities
      /\ historyPeriod' \in Nat
      /\ SelectionOffered'
  BY <1>1, <1>2, RenderFacts DEF IInv, TypeOK
<1>4. selection' = selection
  BY <1>1, <1>2, Again DEF IInv, TypeOK
<1>5. /\ request.serial = historyRequestSerial
      /\ request.serial \in 1..historyRequestSerial
      /\ request.key \in Keys
      /\ historyRequestSerial \in Nat
  BY DEF IInv, TypeOK, Newest
<1>6. /\ historyData' \in [key : Keys \cup {NoKey}, serial : Nat]
      /\ historyData'.serial <= historyRequestSerial'
  BY <1>5 DEF IInv, TypeOK
<1>7. TypeOK'
  BY <1>2, <1>3, <1>6 DEF IInv, TypeOK
<1>8. \A r \in histories' : r.serial # historyRequestSerial'
  BY <1>5 DEF IInv, TypeOK
<1>9. LoadingIsOutstanding'
  BY <1>2, <1>8 DEF LoadingIsOutstanding
<1>10. TriesInv'
  <2>1. historyLoading
    BY <1>5 DEF IInv, LoadingIsOutstanding
  <2>2. tries = 1 => request.key = selection
    BY <1>5, <2>1 DEF IInv, TypeOK, TriesInv
  <2>3. tries = 1 => ~NeedsHistory(selection)' \/ historyFailedKey' = selection
    <3>1. CASE historyData' = [key |-> request.key, serial |-> request.serial]
      <4>1. historyData' # NoData /\ historyData'.key = request.key
        BY <1>5, <3>1 DEF NoData
      <4> QED
        BY <1>4, <2>2, <4>1 DEF NeedsHistory, NoData
    <3>2. CASE key = request.key
      BY <1>2, <2>2, <3>2
    <3> QED
      BY <3>1, <3>2
  <2> QED
    BY <1>2, <1>4, <2>3 DEF IInv, TriesInv
<1> QED
  BY <1>3, <1>6, <1>7, <1>9, <1>10 DEF IInv, SettledOrAsking, NothingBefore

\* Steps that change no part of the page.
LEMMA QuietStep ==
    ASSUME IInv, version' \in 1..Len(Reports),
           dashboards' \subseteq DashboardRequests,
           UNCHANGED <<activeTab, selectedHostID, lastData, selection,
                       requests, historyData, tabEvent, choices>>
    PROVE  IInv'
<1>1. TypeOK'
  BY DEF IInv, TypeOK, selection, requests
<1>2. TriesInv' /\ LoadingIsOutstanding'
  BY DEF IInv, TriesInv, LoadingIsOutstanding, NeedsHistory, selection, requests
<1>3. SelectionOffered' /\ SettledOrAsking'
  BY DEF IInv, SelectionOffered, SettledOrAsking, Connected, Offered, Matches,
       selection, requests
<1>4. NothingBefore' /\ historyData'.serial <= historyRequestSerial'
  BY DEF IInv, NothingBefore, Connected, requests
<1> QED
  BY <1>1, <1>2, <1>3, <1>4 DEF IInv

\* A request of the page for a dashboard is of its time.
LEMMA AskType ==
    ASSUME IInv, NEW host \in Hosts \cup {NoHost}, Ask(host)
    PROVE  dashboards' \subseteq DashboardRequests
BY DEF Ask, IInv, TypeOK, DashboardRequests

LEMMA SelectHostStep ==
    ASSUME IInv, NEW host \in Hosts, SelectHost(host)
    PROVE  IInv'
<1>1. Connected /\ lastData \in Dashboard
  BY DEF SelectHost, IInv, TypeOK, Connected, NoDashboard
<1>2. /\ Render(lastData, host, "connections", historyGranularity, historyPeriod)
      /\ UNCHANGED <<version, requests, historyData, choices>>
      /\ dashboards' \subseteq DashboardRequests
  BY AskType DEF SelectHost
<1>3. "connections" \in Tabs
  BY DEF Tabs
<1>4. /\ lastData' \in Dashboard /\ Connected'
      /\ selectedHostID' \in Hosts \cup {NoHost}
      /\ activeTab' \in Tabs /\ tabEvent' = activeTab'
      /\ historyGranularity' \in Granularities
      /\ historyPeriod' \in Nat
      /\ SelectionOffered'
  BY <1>1, <1>2, <1>3, RenderFacts DEF IInv, TypeOK
<1>5. selection' = selection
  BY <1>1, <1>2, <1>3, Again
<1>6. TypeOK'
  BY <1>2, <1>4 DEF IInv, TypeOK, requests
<1>7. TriesInv' /\ LoadingIsOutstanding'
  BY <1>2, <1>5 DEF IInv, TriesInv, LoadingIsOutstanding, NeedsHistory, requests
<1>8. historyData'.serial <= historyRequestSerial'
  BY <1>2 DEF IInv, requests
<1> QED
  BY <1>4, <1>6, <1>7, <1>8 DEF IInv, SettledOrAsking, NothingBefore

\* A choice of the user: the period is one of those on the page.
LEMMA ChooseStep ==
    ASSUME IInv, NEW g \in Granularities, NEW p \in Range(Offered(lastData, g)),
           Choose(g, p)
    PROVE  IInv'
<1>1. /\ Connected
      /\ RequestHistory(g, p, FALSE, activeTab)
      /\ UNCHANGED <<version, dashboards, historyData>>
      /\ choices' = choices + 1
  BY DEF Choose
<1>2. choices' \in Nat /\ activeTab \in Tabs
  BY <1>1 DEF IInv, TypeOK
<1> QED
  BY <1>1, <1>2, RequestStep

LEMMA IInvNext == IInv /\ [Next]_vars => IInv'
<1> SUFFICES ASSUME IInv, [Next]_vars PROVE IInv'
  OBVIOUS
<1>1. CASE Advance
  <2>1. version' \in 1..Len(Reports)
    BY <1>1, SeqLen DEF Advance, IInv, TypeOK
  <2> QED
    BY <1>1, <2>1, QuietStep DEF Advance, IInv, TypeOK
<1>2. CASE Poll
  <2>1. PolledHost \in Hosts \cup {NoHost}
    BY DEF PolledHost, IInv, TypeOK
  <2>2. dashboards' \subseteq DashboardRequests
    BY <1>2, <2>1, AskType DEF Poll
  <2> QED
    BY <1>2, <2>2, QuietStep DEF Poll, IInv, TypeOK
<1>3. CASE \E host \in Hosts : SelectHost(host)
  BY <1>3, SelectHostStep
<1>4. ASSUME NEW request \in dashboards,
             DashboardAnswer(request) \/ DashboardFails(request)
      PROVE  IInv'
  <2>1. request \in DashboardRequests
    BY DEF IInv, TypeOK
  <2>2. CASE DashboardAnswer(request)
    BY <2>1, <2>2, DashboardStep
  <2>3. CASE DashboardFails(request)
    BY <2>3, QuietStep DEF DashboardFails, IInv, TypeOK
  <2> QED
    BY <1>4, <2>2, <2>3
<1>5. CASE AnnounceTab
  <2>1. tabEvent \in Tabs /\ NoTab \in Tabs \cup {NoTab} /\ Connected
    BY <1>5, AskedConnected DEF AnnounceTab, IInv, TypeOK
  <2> QED
    BY <1>5, <2>1, TabStep DEF AnnounceTab
<1>6. ASSUME NEW tab \in Tabs, OpenTab(tab) PROVE IInv'
  <2>1. tabEvent \in Tabs \cup {NoTab}
    BY DEF IInv, TypeOK
  <2> QED
    BY <1>6, <2>1, TabStep DEF OpenTab
<1>7. ASSUME NEW g \in Granularities, ChooseGranularity(g) PROVE IInv'
  <2>1. Connected /\ lastData.version \in 1..Len(Reports)
    BY <1>7, SeqLen DEF ChooseGranularity, Choose, IInv, TypeOK, Connected,
         NoDashboard, Dashboard
  <2>2. Head(Offered(lastData, g)) \in Range(Offered(lastData, g))
    BY <2>1, ReportFacts DEF Offered
  <2> QED
    BY <1>7, <2>2, ChooseStep DEF ChooseGranularity
<1>8. ASSUME NEW p \in Periods, ChoosePeriod(p) PROVE IInv'
  <2>1. historyGranularity \in Granularities
    BY DEF IInv, TypeOK
  <2> QED
    BY <1>8, <2>1, ChooseStep DEF ChoosePeriod
<1>9. ASSUME NEW request \in histories,
             HistoryAnswer(request) \/ HistoryFails(request)
      PROVE  IInv'
  <2>1. request.key \in Keys
    BY DEF IInv, TypeOK
  <2>2. CASE Newest(request)
    BY <1>9, <2>1, <2>2, FinishStep DEF HistoryAnswer, HistoryFails
  <2>3. CASE ~Newest(request)
    BY <1>9, <2>3, LateStep DEF HistoryAnswer, HistoryFails
  <2> QED
    BY <2>2, <2>3
<1>10. CASE UNCHANGED vars
  BY <1>10, QuietStep DEF vars, IInv, TypeOK
<1> QED
  BY <1>1, <1>2, <1>3, <1>4, <1>5, <1>6, <1>7, <1>8, <1>9, <1>10 DEF Next

LEMMA Invariance == Spec => []IInv
BY IInvInit, IInvNext, PTL DEF Spec

-----------------------------------------------------------------------------
(* Theorems *)

\* The types; and no two outstanding history requests have the same serial
\* (historyRequestSerial).
THEOREM TypeCorrect == Spec => []TypeOK
<1>1. IInv => TypeOK
  BY DEF IInv
<1> QED
  BY <1>1, Invariance, PTL

\* Whichever report arrived last, it has the host and the period selected
\* (renderData).
THEOREM SelectionIsOffered == Spec => []SelectionOffered
<1>1. IInv => SelectionOffered
  BY DEF IInv
<1> QED
  BY <1>1, Invariance, PTL

\* "Loading" is shown exactly while the newest request is outstanding, in
\* whatever order answers and failures arrive (requestHistory).
THEOREM LoadingIsTrue == Spec => []LoadingIsOutstanding
<1>1. IInv => LoadingIsOutstanding
  BY DEF IInv
<1> QED
  BY <1>1, Invariance, PTL

\* There is no retry loop: one automatic request per selection at most, for any
\* number of renderings (historyFailedKey).
THEOREM NoRetryLoop == Spec => []AutomaticOnce
<1>1. IInv => AutomaticOnce
  BY DEF IInv, TriesInv, AutomaticOnce
<1> QED
  BY <1>1, Invariance, PTL

\* The open history tab never waits for nothing (the cbi-tab-active listener and
\* the renderings that lead to it).
THEOREM NeverStuck == Spec => []SettledOrAsking
<1>1. IInv => SettledOrAsking
  BY DEF IInv
<1> QED
  BY <1>1, Invariance, PTL

\* An answer to an older request never replaces the history on the page.
THEOREM NeverOlder == Spec => HistoryNeverOlder
<1>1. IInv /\ [Next]_vars => [historyData'.serial >= historyData.serial]_vars
  <2> SUFFICES ASSUME IInv, Next
               PROVE  historyData'.serial >= historyData.serial
    BY DEF vars
  <2>1. historyData.serial \in Nat
    BY DEF IInv, TypeOK
  <2>2. ASSUME NEW request \in histories, HistoryAnswer(request)
        PROVE  historyData'.serial >= historyData.serial
    BY <2>1, <2>2 DEF HistoryAnswer, Newest, IInv, TypeOK
  <2>3. CASE historyData' = historyData
    BY <2>1, <2>3
  <2>4. \/ \E request \in histories : HistoryAnswer(request)
        \/ historyData' = historyData
    BY DEF Next, Advance, Poll, SelectHost, DashboardAnswer, DashboardFails,
         AnnounceTab, OpenTab, ChooseGranularity, ChoosePeriod, Choose,
         HistoryFails
  <2> QED
    BY <2>2, <2>3, <2>4
<1> QED
  BY <1>1, Invariance, PTL DEF Spec, HistoryNeverOlder
=============================================================================
