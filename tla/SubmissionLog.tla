--------------------------- MODULE SubmissionLog ---------------------------
(***************************************************************************)
(* The Data pages of a project: the submission log with its tabs ("log")   *)
(* and the analysis, a list or charts ("analysis").  A table is made in    *)
(* two steps, the request for its headers and then its own request for     *)
(* rows, and a chart in one that nothing aborts, while the user changes    *)
(* the tab, the view and the filters, and exports what the page shows.     *)
(* The rows of one table are the business of RecordList.                   *)
(***************************************************************************)
EXTENDS Integers, SequencesExt

CONSTANTS
  LogKinds,
  Tabs, FirstTab,       \* of the log
  LogFilters, NoFilter, \* what filter_as_json may return
  MaxRequests           \* bound: requests of a kind under way, or exports

ASSUME LogAssumption ==
  /\ LogKinds \subseteq {"log", "analysis"} /\ FirstTab \in Tabs
  /\ {"analysis", "none", "plain"} \cap Tabs = {}
  /\ NoFilter \in LogFilters /\ MaxRequests \in Nat \ {0}

VARIABLES
  logKind,
  active_tab,        \* getActiveTabName()
  search_filters,    \* what the filters say
  headers,           \* [tab -> requests for its headers under way]
  table,             \* the tab the dataTable was made for; "none"; "plain",
                     \*   when made by a bare dataTable() call: without source
  tableXhr,          \* filters of the request of the table whose rows are awaited, or {}
  shown,             \* {[tab, filters]} of the rows in the table, or {}
  logBlocked,        \* DW.loading()
  exportHandlers,    \* click handlers of .export_link: the tabs of their urls
  exportInputs,      \* hidden inputs appended to the export form
  exported,          \* the last file asked for
  isChartViewShown,
  chartXhr,          \* filters of the chart requests under way
  charts,            \* filters of the charts drawn, or {}
  early,             \* history: the user acted while the table was not made
  logFailed,         \* history: a request was not answered
  orderly            \* history: charts were answered in the order asked

logTableVars == <<headers, table, tableXhr, shown, logBlocked>>
exportVars   == <<exportHandlers, exportInputs, exported>>
chartVars    == <<isChartViewShown, chartXhr, charts, orderly>>
logVars == <<logKind, active_tab, search_filters, logTableVars, exportVars, chartVars,
             early, logFailed>>

TabsOf(k)  == IF k = "log" THEN Tabs ELSE {"analysis"}
Awaited    == \E t \in DOMAIN headers : headers[t] > 0
NoTable    == table \in {"none", "plain"}

LogInit ==
  /\ logKind \in LogKinds
  /\ active_tab = IF logKind = "log" THEN FirstTab ELSE "analysis"
  /\ search_filters = NoFilter
  /\ headers = [t \in TabsOf(logKind) |-> IF t = active_tab THEN 1 ELSE 0]
  /\ table = "none" /\ tableXhr = {} /\ shown = {} /\ logBlocked = FALSE
  /\ exportHandlers = <<active_tab>> /\ exportInputs = <<>> /\ exported = {}
  /\ isChartViewShown = FALSE /\ chartXhr = <<>> /\ charts = {}
  /\ early = FALSE /\ logFailed = FALSE /\ orderly = TRUE

(* $(document).ajaxStop($.unblockUI): requests for rows and charts are not *)
(* global.                                                                 *)
ajaxStop == logBlocked' = (logBlocked /\ Awaited')

-----------------------------------------------------------------------------
(* The table.                                                              *)

(* _init_submission_log_table: an existing dataTable refuses a second      *)
(* initialisation ("Cannot reinitialise DataTable") and stays as it is.    *)
HeadersArrive == \E t \in DOMAIN headers :
  /\ headers[t] > 0
  /\ headers' = [headers EXCEPT ![t] = @ - 1]
  /\ ajaxStop
  /\ IF table = "none" THEN table' = t /\ tableXhr' = {search_filters}
                       ELSE UNCHANGED <<table, tableXhr>>
  /\ UNCHANGED <<logKind, active_tab, search_filters, shown, exportVars, chartVars, early, logFailed>>

HeadersFail == \E t \in DOMAIN headers :
  /\ headers[t] > 0
  /\ headers' = [headers EXCEPT ![t] = @ - 1]
  /\ ajaxStop
  /\ logFailed' = TRUE
  /\ UNCHANGED <<logKind, active_tab, search_filters, table, tableXhr, shown, exportVars,
                 chartVars, early>>

RowsArrive == \E f \in tableXhr :
  /\ shown' = {[tab |-> table, filters |-> f]}
  /\ tableXhr' = {}
  /\ UNCHANGED <<logKind, active_tab, search_filters, headers, table, logBlocked, exportVars,
                 chartVars, early, logFailed>>

RowsFail ==
  /\ tableXhr # {}
  /\ tableXhr' = {} /\ logFailed' = TRUE
  /\ UNCHANGED <<logKind, active_tab, search_filters, headers, table, shown, logBlocked,
                 exportVars, chartVars, early>>

(* A mutant of NewTable: the old table is not destroyed.                   *)
NewTableOverOld(tab) ==
  /\ headers[tab] < MaxRequests
  /\ headers' = [headers EXCEPT ![tab] = @ + 1]
  /\ UNCHANGED <<table, tableXhr, shown>>

(* dataTable().fnDestroy(), empty() and a new SubmissionLogTable: what the *)
(* old table awaits is lost.                                               *)
NewTable(tab) ==
  /\ headers[tab] < MaxRequests   \* bound
  /\ table' = "none" /\ tableXhr' = {} /\ shown' = {}
  /\ headers' = [headers EXCEPT ![tab] = @ + 1]

ClickTab == \E t \in DOMAIN headers \ {active_tab} :
  /\ ~logBlocked
  /\ active_tab' = t
  /\ exportHandlers' = Append(exportHandlers, t)
  /\ Len(exportHandlers) <= MaxRequests   \* bound
  /\ NewTable(t)
  /\ logBlocked' = TRUE
  /\ early' = (early \/ NoTable)
  /\ UNCHANGED <<logKind, search_filters, exportInputs, exported, chartVars, logFailed>>

-----------------------------------------------------------------------------
(* The filters and the charts.                                             *)

generateCharts(filters) ==
  /\ Len(chartXhr) < MaxRequests   \* bound
  /\ chartXhr' = Append(chartXhr, filters)
  /\ orderly' = (orderly \/ chartXhr = <<>>)

(* _postFilterSelection: dataTable() makes a plain table when there is     *)
(* none, and fnDraw replaces the request under way.                        *)
ChangeFilter == \E f \in LogFilters \ {search_filters} :
  /\ ~logBlocked
  /\ search_filters' = f
  /\ IF isChartViewShown
     THEN generateCharts(f) /\ UNCHANGED <<table, tableXhr, early>>
     ELSE /\ table' = IF table = "none" THEN "plain" ELSE table
          /\ tableXhr' = IF NoTable THEN {} ELSE {f}
          /\ early' = (early \/ NoTable)
          /\ UNCHANGED <<chartXhr, orderly>>
  /\ UNCHANGED <<logKind, active_tab, headers, shown, logBlocked, exportVars,
                 isChartViewShown, charts, logFailed>>

(* _showChartView                                                          *)
ShowChart ==
  /\ logKind = "analysis" /\ ~isChartViewShown
  /\ isChartViewShown' = TRUE
  /\ generateCharts(search_filters)
  /\ UNCHANGED <<logKind, active_tab, search_filters, logTableVars, exportVars, charts,
                 early, logFailed>>

(* _showDataTableView: the page is not blocked meanwhile.                  *)
ShowTable ==
  /\ isChartViewShown
  /\ isChartViewShown' = FALSE /\ charts' = {}
  /\ NewTable(active_tab)
  /\ UNCHANGED <<logKind, active_tab, search_filters, logBlocked, exportVars, chartXhr, orderly,
                 early, logFailed>>

(* An answer draws whatever view is shown by then.                         *)
ChartsArrive == \E i \in DOMAIN chartXhr :
  /\ charts' = {chartXhr[i]}
  /\ chartXhr' = RemoveAt(chartXhr, i)
  /\ orderly' = (orderly /\ i = 1)
  /\ UNCHANGED <<logKind, active_tab, search_filters, logTableVars, exportVars, isChartViewShown,
                 early, logFailed>>

ChartsFail == \E i \in DOMAIN chartXhr :
  /\ chartXhr' = RemoveAt(chartXhr, i)
  /\ logFailed' = TRUE
  /\ UNCHANGED <<logKind, active_tab, search_filters, logTableVars, exportVars, isChartViewShown,
                 charts, orderly, early>>

-----------------------------------------------------------------------------
(* The export.  Every tab that was opened left a handler on the link, and  *)
(* every click of one an input in the form; the handlers submit in the     *)
(* order they were bound, and the browser keeps the last navigation.       *)

appendJson(inputs, handlers, filters) == inputs \o [h \in DOMAIN handlers |-> filters]

(* The server reads the last input of the name.                            *)
AskedBy(inputs, url) == [tab |-> url, filters |-> Last(inputs)]

Export ==
  /\ ~logBlocked
  /\ Len(exportInputs) <= MaxRequests   \* bound
  /\ exportInputs' = appendJson(exportInputs, exportHandlers, search_filters)
  /\ exported' = {AskedBy(exportInputs', Last(exportHandlers))}
  /\ UNCHANGED <<logKind, active_tab, search_filters, logTableVars, exportHandlers, chartVars,
                 early, logFailed>>

LogNext ==
  \/ HeadersArrive \/ HeadersFail \/ RowsArrive \/ RowsFail \/ ClickTab
  \/ ChangeFilter \/ ShowChart \/ ShowTable \/ ChartsArrive \/ ChartsFail \/ Export

LogSpec == LogInit /\ [][LogNext]_logVars

-----------------------------------------------------------------------------
(* The state has its type.                                                 *)
LogTypeOK ==
  /\ active_tab \in TabsOf(logKind) /\ search_filters \in LogFilters
  /\ headers \in [TabsOf(logKind) -> 0..MaxRequests]
  /\ table \in TabsOf(logKind) \cup {"none", "plain"}
  /\ tableXhr \subseteq LogFilters /\ charts \subseteq LogFilters
  /\ shown \subseteq [tab : TabsOf(logKind), filters : LogFilters]
  /\ {logBlocked, isChartViewShown} \subseteq BOOLEAN

(* When everything asked for has come, the list shows the rows of the tab  *)
(* that is marked and of the filters that are set, provided the user       *)
(* waited for the table before changing either.                            *)
RowsAnswerPage ==
  ~Awaited /\ tableXhr = {} /\ ~isChartViewShown /\ ~early /\ ~logFailed
    => shown = {[tab |-> active_tab, filters |-> search_filters]}

(* A file that is exported holds what the page is set to show, whatever    *)
(* tabs were opened and files exported before.                             *)
ExportMatchesPage ==
  exportInputs' # exportInputs => exported' = {[tab |-> active_tab, filters |-> search_filters]}

(* The charts shown are those of the filters that are set, when no answer  *)
(* overtook another.                                                       *)
ChartsAnswerFilters ==
  isChartViewShown /\ chartXhr = <<>> /\ orderly /\ ~logFailed => charts = {search_filters}

(* A tab that is opened blocks the page until its headers come or fail,    *)
(* and not for good.                                                       *)
TabNotBlockedForGood == logBlocked => Awaited

(* The table, the charts and the exported file are all of the tab and the  *)
(* filters that the page is set to.                                        *)
PageShowsWhatIsSet ==
  [][RowsAnswerPage' /\ ChartsAnswerFilters' /\ ExportMatchesPage]_logVars
=============================================================================
