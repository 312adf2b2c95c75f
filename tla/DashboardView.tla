---------------------------- MODULE DashboardView ---------------------------
(***************************************************************************)
(* The LuCI page: the history tab and the connections tab                  *)
(* (openwrt/rootfs/www/luci-static/resources/view/status/op_flow.js).      *)
(*                                                                         *)
(* The page asks the daemon for the dashboard every two seconds and when a *)
(* host is selected, and for the history of a period when one is chosen.   *)
(* Answers come in any order or fail (the daemon is busy, rpcd or the      *)
(* browser gives up).  Every answer renders the page anew, and the tabs    *)
(* then announce the open tab again, which may itself ask for a history.   *)
(*                                                                         *)
(* The script runs in one thread: an action is one callback.  The live     *)
(* trend has no state of its own; the hosts tab stands for both.           *)
(***************************************************************************)
EXTENDS Integers, Sequences, FiniteSets, Functions

CONSTANTS
    Hosts, NoHost,  \* ids of hosts; ""
    Granularities,  \* "month" and others
    Reports,        \* what the daemon reports, one after the other:
                    \* [hosts, usage_periods]
    MaxPending,     \* bound: dashboard requests outstanding together
    MaxChoices      \* bound: choices of a period by the user

Periods == UNION {Range(Reports[v].usage_periods[g]) :
                  v \in DOMAIN Reports, g \in Granularities}
Keys == Granularities \X Periods
NoKey == <<>>

\* The periods offered include the one of today (periodOptionsLocked).
ASSUME ViewAssumption ==
    /\ NoHost \notin Hosts
    /\ "month" \in Granularities
    /\ Reports # <<>>
    /\ Reports \in Seq([hosts : SUBSET Hosts,
                        usage_periods : [Granularities -> Seq(Nat) \ {<<>>}]])
    /\ {MaxPending, MaxChoices} \subseteq Nat

VARIABLES
    version,        \* the daemon's report of now
    activeTab, selectedHostID,
    lastData,       \* the report shown, and the host whose flows it has
    dashboards,     \* dashboard requests outstanding
    historyGranularity, historyPeriod,
    historyLoading, historyRequestSerial, historyFailedKey,
    historyData,    \* key and serial of the answer shown
    histories,      \* history requests outstanding
    tabEvent,       \* the tab whose cbi-tab-active is to come, or NoTab
    choices,        \* bound
    tries           \* history: automatic requests since the selection changed

selection == <<historyGranularity, historyPeriod>>
requests == <<historyLoading, historyRequestSerial, historyFailedKey,
              histories, tries>>
vars == <<version, activeTab, selectedHostID, lastData, dashboards, selection,
          requests, historyData, tabEvent, choices>>

-----------------------------------------------------------------------------
(* Data *)

Tabs == {"hosts", "connections", "history"}
NoTab == ""

\* The page has no report: the first request failed.
Connected == lastData.version > 0

Offered(data, granularity) == Reports[data.version].usage_periods[granularity]

NoData == [key |-> NoKey, serial |-> 0]
Dashboard == [version : 1..Len(Reports), of : Hosts \cup {NoHost}]
NoDashboard == [version |-> 0, of |-> NoHost]

\* Mutant: the period stays although the report does not offer it.
KeptPeriod(period, options) == period

OfferedPeriod(period, options) ==
    IF period \in Range(options) THEN period ELSE Head(options)

\* renderData for a report, after the selections were assigned.
Render(data, host, tab, granularity, period) ==
    LET listed == host \in Reports[data.version].hosts
    IN  /\ lastData' = data
        /\ selectedHostID' = IF listed THEN host ELSE NoHost
        /\ activeTab' = IF host # NoHost /\ ~listed /\ tab = "connections"
                        THEN "hosts" ELSE tab
        /\ historyGranularity' = granularity
        /\ historyPeriod' = OfferedPeriod(period, Offered(data, granularity))
        /\ tabEvent' = activeTab'

\* History variable: a choice of the user and a change of the selection allow
\* another automatic request.
CountTries(automatic, before) ==
    tries' = (IF selection' = selection THEN before ELSE 0)
             + (IF automatic THEN 1 ELSE 0)

-----------------------------------------------------------------------------
Init ==
    /\ version = 1
    /\ activeTab = "hosts" /\ selectedHostID = NoHost
    /\ \/ /\ lastData = [version |-> 1, of |-> NoHost]
          /\ historyPeriod = Head(Reports[1].usage_periods["month"])
          /\ tabEvent = "hosts"
       \/ /\ lastData = NoDashboard
          /\ historyPeriod = 0
          /\ tabEvent = NoTab
    /\ historyGranularity = "month"
    /\ dashboards = {} /\ histories = {}
    /\ historyLoading = FALSE /\ historyRequestSerial = 0
    /\ historyFailedKey = NoKey
    /\ historyData = NoData
    /\ choices = 0 /\ tries = 0

\* The daemon's report changes: hosts come and go, days begin and are dropped.
Advance ==
    /\ version < Len(Reports)
    /\ version' = version + 1
    /\ UNCHANGED <<activeTab, selectedHostID, lastData, dashboards, selection,
                   requests, historyData, tabEvent, choices>>

(* The dashboard *)

\* Mutant: the poll asks for the overview in every tab.
PollOverview == NoHost

PolledHost == IF activeTab = "connections" THEN selectedHostID ELSE NoHost

Ask(host) ==
    dashboards' = dashboards \cup {[of |-> host, since |-> version]}

\* The timer.  Two equal requests outstanding together are one.
Poll ==
    /\ Cardinality(dashboards) < MaxPending
    /\ Ask(PolledHost)
    /\ UNCHANGED <<version, activeTab, selectedHostID, lastData, selection,
                   requests, historyData, tabEvent, choices>>

\* The row of a host is clicked: selectHost.
SelectHost(host) ==
    /\ Connected
    /\ activeTab = "hosts"
    /\ host \in Reports[lastData.version].hosts
    /\ Cardinality(dashboards) < MaxPending
    /\ Render(lastData, host, "connections", historyGranularity, historyPeriod)
    /\ Ask(host)
    /\ UNCHANGED <<version, requests, historyData, choices>>

\* The report in an answer was made some time after the request.
DashboardAnswer(request) ==
    /\ request \in dashboards
    /\ dashboards' = dashboards \ {request}
    /\ \E v \in request.since..version :
          Render([version |-> v, of |-> request.of], selectedHostID, activeTab,
                 historyGranularity, historyPeriod)
    /\ CountTries(FALSE, tries)
    /\ UNCHANGED <<version, historyLoading, historyRequestSerial,
                   historyFailedKey, histories, historyData, choices>>

DashboardFails(request) ==
    /\ request \in dashboards
    /\ dashboards' = dashboards \ {request}
    /\ UNCHANGED <<version, activeTab, selectedHostID, lastData, selection,
                   requests, historyData, tabEvent, choices>>

(* The history *)

\* Mutant: a failed request is repeated.
NeverSuppressed(key, automatic) == FALSE

Suppressed(key, automatic) == automatic /\ historyFailedKey = key

NextSerial == historyRequestSerial + 1

\* requestHistory, unless suppressed; tab is the open one.
RequestHistory(granularity, period, automatic, tab) ==
    /\ historyFailedKey' = IF automatic THEN historyFailedKey ELSE NoKey
    /\ historyLoading' = TRUE
    /\ historyRequestSerial' = NextSerial
    /\ histories' = histories \cup {[serial |-> NextSerial,
                                     key |-> <<granularity, period>>]}
    /\ Render(lastData, selectedHostID, tab, granularity, period)
    /\ CountTries(automatic, IF automatic THEN tries ELSE 0)

\* historyMatches: what is shown is the selection.
Matches(key) == historyData.key = key

\* Mutant: any history will do.
NeedsAnyHistory(key) == historyData = NoData

NeedsHistory(key) == historyData = NoData \/ historyData.key # key

\* The listener for cbi-tab-active; later is the announcement to come.
TabActive(tab, later) ==
    IF /\ tab = "history"
       /\ ~historyLoading
       /\ NeedsHistory(selection)
       /\ ~Suppressed(selection, TRUE)
    THEN RequestHistory(historyGranularity, historyPeriod, TRUE, tab)
    ELSE /\ activeTab' = tab
         /\ tabEvent' = later
         /\ UNCHANGED <<selectedHostID, lastData, selection, requests>>

\* After a rendering the tabs announce the one that was open then, in the next
\* frame; of several announcements that are due the last one counts.
AnnounceTab ==
    /\ tabEvent # NoTab
    /\ TabActive(tabEvent, NoTab)
    /\ UNCHANGED <<version, dashboards, historyData, choices>>

\* The user opens a tab.
OpenTab(tab) ==
    /\ Connected
    /\ tab # activeTab
    /\ TabActive(tab, tabEvent)
    /\ UNCHANGED <<version, dashboards, historyData, choices>>

Choose(granularity, period) ==
    /\ Connected
    /\ activeTab = "history"
    /\ choices < MaxChoices
    /\ choices' = choices + 1
    /\ RequestHistory(granularity, period, FALSE, activeTab)
    /\ UNCHANGED <<version, dashboards, historyData>>

\* The buttons work while a history is loading.
ChooseGranularity(granularity) ==
    Choose(granularity, Head(Offered(lastData, granularity)))

\* The menu is disabled while a history is loading.
ChoosePeriod(period) ==
    /\ Connected
    /\ ~historyLoading
    /\ period \in Range(Offered(lastData, historyGranularity))
                     \ {historyPeriod}
    /\ Choose(historyGranularity, period)

\* Mutant: late answers are not told apart.
AnyRequest(request) == TRUE

Newest(request) == request.serial = historyRequestSerial

\* The newest request is over; the page is rendered.
Finished(failedKey) ==
    /\ historyLoading' = FALSE
    /\ historyFailedKey' = failedKey
    /\ Render(lastData, selectedHostID, activeTab,
              historyGranularity, historyPeriod)

HistoryAnswer(request) ==
    /\ request \in histories
    /\ histories' = histories \ {request}
    /\ IF Newest(request)
       THEN /\ historyData' = [key |-> request.key, serial |-> request.serial]
            /\ Finished(NoKey)
       ELSE UNCHANGED <<historyData, historyLoading, historyFailedKey, lastData,
                        selectedHostID, activeTab, selection, tabEvent>>
    /\ UNCHANGED <<version, dashboards, historyRequestSerial, tries, choices>>

HistoryFails(request) ==
    /\ request \in histories
    /\ histories' = histories \ {request}
    /\ IF Newest(request)
       THEN Finished(request.key)
       ELSE UNCHANGED <<historyLoading, historyFailedKey, lastData,
                        selectedHostID, activeTab, selection, tabEvent>>
    /\ UNCHANGED <<version, dashboards, historyRequestSerial, historyData,
                   tries, choices>>

DashboardRequests == [of : Hosts \cup {NoHost}, since : 1..Len(Reports)]

Next ==
    \/ Advance
    \/ Poll
    \/ \E host \in Hosts : SelectHost(host)
    \/ \E request \in dashboards :
          DashboardAnswer(request) \/ DashboardFails(request)
    \/ AnnounceTab
    \/ \E tab \in Tabs : OpenTab(tab)
    \/ \E granularity \in Granularities : ChooseGranularity(granularity)
    \/ \E period \in Periods : ChoosePeriod(period)
    \/ \E request \in histories :
          HistoryAnswer(request) \/ HistoryFails(request)

Spec == Init /\ [][Next]_vars

\* The timer and the animation frame of the tabs come round, every request is
\* answered or given up, and the daemon answers from time to time.
FairSpec ==
    /\ Spec
    /\ WF_vars(Poll)
    /\ WF_vars(AnnounceTab)
    /\ WF_vars(\E request \in histories :
                  HistoryAnswer(request) \/ HistoryFails(request))
    /\ \A host \in Hosts \cup {NoHost} :
          SF_vars(\E request \in dashboards :
                     request.of = host /\ DashboardAnswer(request))

-----------------------------------------------------------------------------
(* Properties *)

TypeOK ==
    /\ version \in 1..Len(Reports)
    /\ activeTab \in Tabs /\ selectedHostID \in Hosts \cup {NoHost}
    /\ lastData \in Dashboard \cup {NoDashboard}
    /\ dashboards \subseteq DashboardRequests
    /\ historyGranularity \in Granularities
    /\ historyPeriod \in Nat
    /\ historyLoading \in BOOLEAN
    /\ historyRequestSerial \in Nat
    /\ historyFailedKey \in Keys \cup {NoKey}
    /\ historyData \in [key : Keys \cup {NoKey}, serial : Nat]
    /\ histories \subseteq [serial : 1..historyRequestSerial, key : Keys]
    /\ \A r, q \in histories : r.serial = q.serial => r = q
    /\ tabEvent \in Tabs \cup {NoTab}
    /\ choices \in Nat /\ tries \in Nat

\* The host whose connections are shown and the period of the history are ones
\* the report on the page has, whichever report arrived last.
SelectionOffered ==
    Connected =>
        /\ selectedHostID # NoHost =>
              selectedHostID \in Reports[lastData.version].hosts
        /\ historyPeriod \in Range(Offered(lastData, historyGranularity))

\* "Loading" is shown exactly while the newest history request is outstanding:
\* no late answer or failure ends it, none leaves it on (historyRequestSerial).
LoadingIsOutstanding ==
    historyLoading <=> \E r \in histories : r.serial = historyRequestSerial

\* r12: stops implicit retry loops.  As long as the selection stays, at most one
\* request is made that nobody asked for, however often the page is rendered
\* (historyFailedKey).
AutomaticOnce == tries <= 1

\* With the history tab open, the selection is shown, or its request failed, or
\* a request is out, or the tab is about to be announced: the page never waits
\* for nothing, also when a report replaced the period while it was loading.
SettledOrAsking ==
    Connected /\ activeTab = "history" =>
        \/ historyLoading
        \/ Matches(selection)
        \/ historyFailedKey = selection
        \/ tabEvent = "history"

\* The history on the page is never replaced by the answer to an older request.
HistoryNeverOlder == [][historyData'.serial >= historyData.serial]_vars

\* With the history tab open, the selection is shown in the end, or has failed.
HistorySettles ==
    Connected /\ activeTab = "history" ~>
        \/ activeTab # "history"
        \/ ~historyLoading /\ (Matches(selection) \/
                               historyFailedKey = selection)

\* While the connections of a host stay selected, they are what the page shows
\* in the end: late answers for other hosts and overviews do not come back.
DetailsStay ==
    \A host \in Hosts :
        <>[](activeTab = "connections" /\ selectedHostID = host)
            => <>[](lastData.of = host)
=============================================================================
