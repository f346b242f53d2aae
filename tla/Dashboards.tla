----------------------------- MODULE Dashboards -----------------------------
(***************************************************************************)
(* The reports: the analytics page with its trend panel                    *)
(* (app/admin/analytics/page.tsx, components/analytics), the overview of   *)
(* the administration and the home page of a store.                        *)
(*                                                                         *)
(* The reports of the API are known by the role, store or period they are  *)
(* for and by how far the sales had come when they were read (`gen`).      *)
(***************************************************************************)
EXTENDS Tab

CONSTANTS
    Viewers,    \* roles of the staff members who look at reports
    Views,      \* reports asked for in the address
    StoreIds,
    Periods,    \* of the trend, in days; DefaultPeriod is selected at first
    DefaultPeriod,
    MaxGen      \* bound on how far sales go on

\* CANONICAL_ROLES: the report of a staff role.
CanonicalView(role) ==
    CASE role = "admin" -> "executive"
      [] role = "sales_manager" -> "sales"
      [] role = "store_manager" -> "store"
      [] role = "inventory_manager" -> "inventory"
      [] role = "operations_manager" -> "operations"
      [] role = "marketing_manager" -> "marketing"
      [] role = "system_admin" -> "system"

\* shouldAutoRefreshRole
AutoRefreshed == {"store", "inventory", "operations", "marketing"}

-----------------------------------------------------------------------------
(* The analytics page.                                                     *)

ActiveView(v) == IF v.requested = None THEN CanonicalView(v.me) ELSE v.requested

Unauthorized(v) == v.me # "admin" /\ ActiveView(v) # CanonicalView(v.me)

StoreParam(v) ==
    IF ActiveView(v) = "store" /\ v.me = "admin" THEN v.store ELSE None

RequestKey(v) == <<ActiveView(v), StoreParam(v)>>

\* Mutant: the last answer is shown, whatever it was for.
ShownLast(v) == IF v.snapshot # None THEN v.snapshot.metrics ELSE None

\* The metrics on the screen.
Shown(v) ==
    IF v.snapshot # None /\ v.snapshot.key = RequestKey(v)
    THEN v.snapshot.metrics ELSE None

\* Mutant: answers of earlier requests are taken as well.
IsAnyway(slot, i) == TRUE

\* The flag `current` in the closure of an effect: its request is in slot i
\* and no cleanup has run since.
IsCurrent(slot, i) == slot = i

NoTrend == [days |-> None, data |-> None, loading |-> FALSE, failed |-> FALSE,
            current |-> None]

TrendStarted(days, data, slot) ==
    [days |-> days, data |-> data, loading |-> TRUE, failed |-> FALSE,
     current |-> slot]

TrendMounted(v) == v.trend.days # None

TrendWanted(v) == Shown(v) # None /\ ActiveView(v) \in {"executive", "sales"}

\* The points on the screen.
TrendShown(t) ==
    IF ~t.loading /\ ~t.failed /\ t.data # None /\ t.data.days = t.days
    THEN t.data ELSE None

\* After v has been rendered: the metrics effect runs if `again`, the stores
\* effect with it, and the trend panel is mounted, updated or unmounted.
Effects(v, again) ==
    LET asks == again /\ ~Unauthorized(v)
        cs1 == IF asks
               THEN Sent(calls, "metrics", [key |-> RequestKey(v)]) ELSE calls
        stores == asks /\ ActiveView(v) = "store"
        cs2 == IF stores THEN Sent(cs1, "stores", [for |-> v.me]) ELSE cs1
        trend == TrendWanted(v) /\ (again \/ ~TrendMounted(v))
        days == IF TrendMounted(v) THEN v.trend.days ELSE DefaultPeriod
        cs3 == IF trend THEN Sent(cs2, "trend", [days |-> days]) ELSE cs2
    IN  /\ Room(Cardinality({n \in {1, 2, 3} : <<asks, stores, trend>>[n]}))
        /\ calls' = cs3
        /\ view' =
             [v EXCEPT
                !.current = IF asks THEN NextSlot(calls)
                            ELSE IF again THEN None ELSE @,
                !.pending = asks \/ @,
                !.failure = IF asks THEN None ELSE @,
                !.storesCurrent = IF stores THEN NextSlot(cs1)
                                  ELSE IF again THEN None ELSE @,
                !.trend = IF trend THEN TrendStarted(days, @.data, NextSlot(cs2))
                          ELSE IF TrendWanted(v) THEN @ ELSE NoTrend]

AnalyticsMounted(role, requested) ==
    [page |-> "analytics", me |-> role, requested |-> requested, store |-> None,
     snapshot |-> None, failure |-> None, pending |-> FALSE, current |-> None,
     stores |-> {}, storesCurrent |-> None, trend |-> NoTrend]

OpenAnalytics ==
    /\ view.page = "blank"
    /\ \E role \in Viewers, requested \in Views \cup {None} :
          Effects(AnalyticsMounted(role, requested), TRUE)
    /\ UNCHANGED <<area, server>>

\* visibleRoles: the links to the reports.
VisibleViews(role) == IF role = "admin" THEN Views ELSE {CanonicalView(role)}

\* A new address has another key; the panel of the old key is unmounted.
SelectView ==
    /\ view.page = "analytics"
    /\ \E requested \in VisibleViews(view.me) :
          LET v == [view EXCEPT !.requested = requested, !.trend = NoTrend]
          IN  RequestKey(v) # RequestKey(view) /\ Effects(v, TRUE)
    /\ UNCHANGED <<area, server>>

\* The store list is disabled while a request is pending, the link back to
\* the default store is not.
SelectStore ==
    /\ view.page = "analytics"
    /\ view.me = "admin" /\ ActiveView(view) = "store"
    /\ \E s \in view.stores \cup {None} :
          /\ s # view.store
          /\ view.pending => s = None
          /\ Effects([view EXCEPT !.store = s], TRUE)
    /\ UNCHANGED <<area, server>>

\* The button, the link under an error, and the timer.
RefreshAnalytics ==
    /\ view.page = "analytics"
    /\ ~Unauthorized(view)
    /\ \/ ~view.pending
       \/ view.failure = RequestKey(view)
       \/ ActiveView(view) \in AutoRefreshed /\ view.current = None
    /\ Effects(view, TRUE)
    /\ UNCHANGED <<area, server>>

MetricsArrive(i) ==
    /\ view.page = "analytics"
    /\ Returns(i, "metrics")
    /\ IF IsCurrent(view.current, i)
       THEN LET v == [view EXCEPT
                        !.snapshot = [key |-> calls[i].arg.key,
                                      metrics |-> calls[i].ans],
                        !.current = None, !.pending = FALSE]
            IN  IF TrendWanted(v) /\ ~TrendMounted(v)
                THEN /\ Continue(i, "trend", [days |-> DefaultPeriod])
                     /\ view' = [v EXCEPT !.trend =
                                    TrendStarted(DefaultPeriod, None, i)]
                ELSE Finish(i) /\ view' = v
       ELSE Finish(i) /\ UNCHANGED view
    /\ UNCHANGED <<area, server>>

MetricsThrow(i) ==
    /\ view.page = "analytics"
    /\ Throws(i, "metrics")
    /\ Finish(i)
    /\ view' = IF IsCurrent(view.current, i)
               THEN [view EXCEPT !.failure = calls[i].arg.key,
                                 !.current = None, !.pending = FALSE]
               ELSE view
    /\ UNCHANGED <<area, server>>

StoresSettle(i) ==
    /\ view.page = "analytics"
    /\ \/ Returns(i, "stores") /\ IsCurrent(view.storesCurrent, i)
          /\ view' = [view EXCEPT !.stores = calls[i].ans, !.storesCurrent = None]
       \/ Returns(i, "stores") /\ ~IsCurrent(view.storesCurrent, i)
          /\ UNCHANGED view
       \/ Throws(i, "stores") /\ UNCHANGED view
    /\ Finish(i)
    /\ UNCHANGED <<area, server>>

\* The trend panel: another period, or a retry under an error.
SelectPeriod ==
    /\ view.page = "analytics" /\ TrendMounted(view)
    /\ \E days \in Periods :
          /\ days # view.trend.days \/ view.trend.failed
          /\ Send("trend", [days |-> days])
          /\ view' = [view EXCEPT !.trend =
                         TrendStarted(days, @.data, NextSlot(calls))]
    /\ UNCHANGED <<area, server>>

TrendSettles(i) ==
    /\ view.page = "analytics"
    /\ Returns(i, "trend") \/ Throws(i, "trend")
    /\ Finish(i)
    /\ view' =
         IF IsCurrent(view.trend.current, i)
         THEN [view EXCEPT
                 !.trend.loading = FALSE, !.trend.current = None,
                 !.trend.failed = Throws(i, "trend"),
                 !.trend.data = IF Returns(i, "trend") THEN calls[i].ans ELSE @]
         ELSE view
    /\ UNCHANGED <<area, server>>

-----------------------------------------------------------------------------
(* The overview and the home page of a store: one load with the mount, one  *)
(* with every click of the button, which is disabled meanwhile.  Only the   *)
(* overview has a retry on its error screen, which is never disabled, and   *)
(* only the overview clears an error.                                       *)

OpenOverview(page) ==
    /\ view.page = "blank"
    /\ Send("overview", [of |-> page])
    /\ view' = [page |-> page, data |-> None, loading |-> TRUE,
                refreshing |-> TRUE, error |-> FALSE]
    /\ UNCHANGED <<area, server>>

ReloadOverview ==
    /\ view.page \in {"overview", "storeHome"} /\ ~view.loading
    /\ \/ ~view.refreshing /\ ~view.error
       \/ view.page = "overview" /\ view.error
          /\ (view.data = None \/ ~view.refreshing)
    /\ Send("overview", [of |-> view.page])
    /\ view' = [view EXCEPT !.refreshing = TRUE]
    /\ UNCHANGED <<area, server>>

OverviewSettles(i) ==
    /\ view.page \in {"overview", "storeHome"}
    /\ \/ /\ Returns(i, "overview")
          /\ view' = [view EXCEPT
                        !.data = calls[i].ans, !.loading = FALSE,
                        !.refreshing = FALSE,
                        !.error = @ /\ view.page = "storeHome"]
       \/ /\ Throws(i, "overview")
          /\ view' = [view EXCEPT !.error = TRUE, !.loading = FALSE,
                                  !.refreshing = FALSE]
    /\ Finish(i)
    /\ UNCHANGED <<area, server>>

-----------------------------------------------------------------------------
(* The API.                                                                *)

\* getAdminRoleMetrics, getAdminAnalyticsStores, getAdminSalesTrend and the
\* overviews are reads.
ReportAnswer(call) ==
    CASE call.op = "metrics" ->
           [view |-> call.arg.key[1], store |-> call.arg.key[2],
            gen |-> server.gen]
      [] call.op = "trend" -> [days |-> call.arg.days, gen |-> server.gen]
      [] call.op = "stores" -> StoreIds
      [] call.op = "overview" -> [gen |-> server.gen]

ReportRead(i) ==
    /\ calls[i].phase = "sent"
    /\ calls[i].op \in {"metrics", "trend", "stores", "overview"}
    /\ Reply(i, ReportAnswer(calls[i]))
    /\ UNCHANGED <<area, view, server>>

SalesGoOn ==
    /\ server.gen < MaxGen
    /\ server' = [gen |-> server.gen + 1]
    /\ UNCHANGED <<area, view, calls>>

-----------------------------------------------------------------------------
DashboardsInit ==
    /\ view = [page |-> "blank"]
    /\ calls = NoCalls
    /\ server = [gen |-> 0]

DashboardsNext ==
    \/ OpenAnalytics \/ SelectView \/ SelectStore \/ RefreshAnalytics
    \/ SelectPeriod
    \/ \E page \in {"overview", "storeHome"} : OpenOverview(page)
    \/ ReloadOverview
    \/ \E i \in Slots :
          \/ MetricsArrive(i) \/ MetricsThrow(i) \/ StoresSettle(i)
          \/ TrendSettles(i) \/ OverviewSettles(i) \/ ReportRead(i)
    \/ SalesGoOn

-----------------------------------------------------------------------------
(* Properties.                                                             *)

\* The report and the trend on the screen are of the role, store and period
\* that are selected, however answers overtake each other and selections
\* change while requests are in flight.
DashboardMatchesSelection ==
    (area = "dashboards" /\ view.page = "analytics") =>
        /\ Shown(view) # None =>
              /\ Shown(view).view = ActiveView(view)
              /\ Shown(view).store = StoreParam(view)
              /\ ~Unauthorized(view)
        /\ TrendShown(view.trend) # None =>
              TrendShown(view.trend).days = view.trend.days

\* While the selection stays, a report is never replaced by an older one: the
\* answer of an earlier refresh that comes late is dropped.
DashboardNeverOlder ==
    [][ (/\ area = "dashboards"
         /\ view.page = "analytics" /\ view'.page = "analytics"
         /\ RequestKey(view') = RequestKey(view))
        =>
        /\ (Shown(view) # None /\ Shown(view') # None) =>
              Shown(view').gen >= Shown(view).gen
        /\ (/\ TrendShown(view.trend) # None
            /\ TrendShown(view'.trend) # None
            /\ view'.trend.days = view.trend.days) =>
              TrendShown(view'.trend).gen >= TrendShown(view.trend).gen ]_tab
=============================================================================
