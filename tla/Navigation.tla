----------------------------- MODULE Navigation -----------------------------
(***************************************************************************)
(* Who is signed in and where a tab may go: lib/auth.tsx,                  *)
(* lib/role-routes.ts, the layouts of /admin and /store, the login and     *)
(* registration pages, and the links of headers, sidebars and dashboards.  *)
(*                                                                         *)
(* A page is its path without query; a page below another one (an order    *)
(* below /admin/orders) is treated by the code as the one above it, and so *)
(* stands for it.  A link to a report keeps the report it names.           *)
(***************************************************************************)
EXTENDS Dashboards

CONSTANT Households     \* sets of roles: the accounts that one browser is used with

StaffRoles ==
    {"admin", "store_manager", "sales_manager", "marketing_manager",
     "inventory_manager", "operations_manager", "system_admin"}

IsStaff(role) == role \in StaffRoles

PublicPaths ==
    {"/", "/products", "/cart", "/checkout", "/orders", "/wishlist", "/login",
     "/register"}

StorePaths ==
    {"/store", "/store/pos", "/store/orders", "/store/inventory", "/store/staff"}

AdminPaths ==
    {"/admin", "/admin/analytics", "/admin/products", "/admin/inbound",
     "/admin/orders", "/admin/returns", "/admin/logistics", "/admin/coupons",
     "/admin/reviews", "/admin/customers", "/admin/pos"}

Link(path) == [path |-> path, report |-> None]
Report(name) == [path |-> "/admin/analytics", report |-> name]

\* getRoleHomeRoute
RoleHome(role) ==
    CASE role = "admin" -> Link("/admin")
      [] role = "store_manager" -> Link("/store")
      [] role = "sales_manager" -> Report("sales")
      [] role = "marketing_manager" -> Report("marketing")
      [] role = "inventory_manager" -> Link("/admin/inbound")
      [] role = "operations_manager" -> Report("operations")
      [] role = "system_admin" -> Report("system")
      [] OTHER -> Link("/products")

\* canRoleAccessRoute
CanAccess(role, path) ==
    \/ path \in PublicPaths
    \/ role = "admin"
    \/ path \in StorePaths /\ role = "store_manager"
    \/ path = "/admin/analytics" /\ IsStaff(role)
    \/ role = "inventory_manager" /\ path \in {"/admin/inbound", "/admin/products"}
    \/ role = "operations_manager"
          /\ path \in {"/admin/orders", "/admin/returns", "/admin/logistics"}
    \/ role = "marketing_manager" /\ path \in {"/admin/coupons", "/admin/reviews"}

\* Mutant: the address asked for is taken as it is.
RequestedOrHome(role, returnTo) ==
    IF returnTo \in {None, "/", "/products"} THEN RoleHome(role).path ELSE returnTo

\* resolvePostLoginRedirect; addresses of other sites are none of Paths.
AfterLogin(role, returnTo) ==
    IF returnTo \in {None, "/", "/products"} THEN RoleHome(role).path
    ELSE IF CanAccess(role, returnTo) THEN returnTo
    ELSE RoleHome(role).path

\* safeReturnTo
AfterRegistration(returnTo) ==
    IF returnTo \in AdminPaths \cup {"/", "/products", "/cart", "/checkout", "/orders"}
    THEN returnTo ELSE "/products"

\* The layouts: who sees the page, and who is told "no access".
AdmittedByLayout(role, path) ==
    CASE path \in AdminPaths -> IsStaff(role) /\ CanAccess(role, path)
      [] path \in StorePaths -> role \in {"store_manager", "admin"}
      [] OTHER -> TRUE

\* A link leads to something the person may see.
Admitted(role, link) ==
    /\ AdmittedByLayout(role, link.path)
    /\ link.report # None => role = "admin" \/ CanonicalView(role) = link.report

-----------------------------------------------------------------------------
(* Links.                                                                  *)

AllAdminLinks == {Link(path) : path \in AdminPaths \ {"/admin/pos"}}

\* Mutant: a link too many.
SidebarWithCoupons(role) ==
    CASE role = "admin" -> AllAdminLinks
      [] role = "store_manager" -> {Link("/store"), Report("store")}
      [] role = "sales_manager" -> {Report("sales"), Link("/admin/coupons")}
      [] OTHER -> {}

AdminSidebar(role) ==
    CASE role = "admin" -> AllAdminLinks
      [] role = "store_manager" -> {Link("/store"), Report("store")}
      [] role = "sales_manager" -> {Report("sales")}
      [] role = "marketing_manager" ->
            {Report("marketing"), Link("/admin/coupons"), Link("/admin/reviews")}
      [] role = "inventory_manager" ->
            {Report("inventory"), Link("/admin/inbound"), Link("/admin/products")}
      [] role = "operations_manager" ->
            {Report("operations"), Link("/admin/orders"), Link("/admin/returns"),
             Link("/admin/logistics")}
      [] role = "system_admin" -> {Report("system")}
      [] OTHER -> {link \in AllAdminLinks : CanAccess(role, link.path)}

StoreSidebar == {Link(path) : path \in StorePaths} \cup {Report("store")}

\* The header of the shop, with the workplace of the staff.
ShopHeader(role) ==
    {Link("/"), Link("/products"), Link("/wishlist"), Link("/cart"), Link("/orders")}
        \cup IF IsStaff(role) THEN {RoleHome(role)} ELSE {}
        \cup IF role = None THEN {Link("/login")} ELSE {}

StaffHeader(role) == {RoleHome(role), Link("/")}

\* RoleDashboards: what the report of a view suggests, before NextSteps
\* filters it.
NextSteps(report) ==
    CASE report = "executive" -> {"/admin/orders", "/admin/logistics"}
      [] report = "sales" -> {"/admin/orders"}
      [] report = "store" -> {"/store", "/admin/products"}
      [] report = "inventory" -> {"/admin/products", "/admin/inbound"}
      [] report = "operations" -> {"/admin/orders", "/admin/logistics"}
      [] report = "marketing" -> {"/admin/coupons", "/admin/reviews"}
      [] OTHER -> {}

AnalyticsLinks(role) ==
    LET seen == IF role = "admin"
                THEN {CanonicalView(r) : r \in StaffRoles} ELSE {CanonicalView(role)}
    IN  {Report(name) : name \in seen}
          \cup {Link(path) : path \in {p \in UNION {NextSteps(name) : name \in seen} :
                                          CanAccess(role, p)}}

\* The cards of the overview and of the store's home page.
OverviewLinks ==
    {Link(path) : path \in {"/admin/products", "/admin/orders", "/admin/analytics",
        "/admin/returns", "/admin/inbound", "/admin/coupons", "/admin/reviews",
        "/admin/logistics", "/admin/customers"}}

StoreHomeLinks ==
    {Link(path) : path \in {"/store/inventory", "/store/pos", "/store/orders",
                            "/store/staff"}}

\* The links of the page that is shown to somebody who is signed in.
LinksOn(path, role) ==
    IF path \in PublicPaths
    THEN ShopHeader(role) \cup IF path = "/login" THEN {Link("/register")} ELSE {}
    ELSE StaffHeader(role) \cup
         IF ~AdmittedByLayout(role, path)
         THEN IF path \in AdminPaths THEN {RoleHome(role)} ELSE {}
         ELSE IF path \in StorePaths
         THEN StoreSidebar \cup IF path = "/store" THEN StoreHomeLinks ELSE {}
         ELSE AdminSidebar(role)
                \cup IF path = "/admin" THEN OverviewLinks ELSE {}
                \cup IF path = "/admin/analytics" THEN AnalyticsLinks(role) ELSE {}

-----------------------------------------------------------------------------
(* AuthProvider and the pages.  `me` is its customer, None when there is    *)
(* none; `authLoading` is its flag of the same name.                        *)

NavigationInit ==
    /\ \E path \in PublicPaths \cup AdminPaths \cup StorePaths :
          view = [page |-> path, me |-> None, authLoading |-> TRUE,
                  returnTo |-> None, submitting |-> FALSE, loggingOut |-> FALSE]
    /\ calls = Sent(NoCalls, "getMe", None)
    /\ \E household \in Households : \E role \in household \cup {None} :
          server = [session |-> role, household |-> household]

Visit(v, path, returnTo) ==
    [v EXCEPT !.page = path, !.returnTo = returnTo, !.submitting = FALSE]

\* refresh: every error counts as signed out, also when a login has
\* succeeded in the meantime.
MeSettles(i) ==
    /\ Returns(i, "getMe") \/ Throws(i, "getMe")
    /\ Finish(i)
    /\ view' = [view EXCEPT !.authLoading = FALSE,
                   !.me = IF Returns(i, "getMe") THEN calls[i].ans ELSE None]
    /\ UNCHANGED <<area, server>>

\* The effects of the layouts and of the pages that need a customer.
RedirectToLogin ==
    /\ ~view.authLoading /\ view.me = None
    /\ \/ /\ view.page \in AdminPaths
          /\ view' = Visit(view, "/login", view.page)
       \/ /\ view.page \in StorePaths
          /\ view' = Visit(view, "/login", "/store")
       \/ /\ view.page \in {"/cart", "/checkout", "/orders"}
          /\ view' = Visit(view, "/login", view.page)
    /\ UNCHANGED <<area, calls, server>>

\* A request of the page is answered 401: the session has ended, although
\* AuthProvider still holds the customer.
RedirectOn401 ==
    /\ view.me # None /\ server.session = None
    /\ view.page \in {"/cart", "/checkout", "/orders", "/admin/inbound",
                      "/admin/returns"}
    /\ AdmittedByLayout(view.me, view.page)
    /\ view' = Visit(view, "/login", view.page)
    /\ UNCHANGED <<area, calls, server>>

\* AdminPosPage
RedirectToPos ==
    /\ view.page = "/admin/pos"
    /\ view.me # None /\ AdmittedByLayout(view.me, "/admin/pos")
    /\ view' = Visit(view, "/store/pos", None)
    /\ UNCHANGED <<area, calls, server>>

FollowLink ==
    /\ ~view.authLoading
    /\ view.page \notin PublicPaths => view.me # None
    /\ \E link \in LinksOn(view.page, view.me) :
          view' = Visit(view, link.path,
                        IF link.path = "/register" THEN view.returnTo ELSE None)
    /\ UNCHANGED <<area, calls, server>>

\* handleSubmit of the login and of the registration page.
Submit(op, role) ==
    /\ ~view.submitting
    /\ Send(op, [role |-> role])
    /\ view' = [view EXCEPT !.submitting = TRUE]
    /\ UNCHANGED <<area, server>>

SubmitLogin == view.page = "/login" /\ \E role \in server.household : Submit("login", role)

SubmitRegistration == view.page = "/register" /\ Submit("register", "customer")

LoggedIn(i) ==
    /\ Returns(i, "login")
    /\ Finish(i)
    /\ view' = Visit([view EXCEPT !.me = calls[i].ans],
                     AfterLogin(calls[i].ans, view.returnTo), None)
    /\ UNCHANGED <<area, server>>

Registered(i) ==
    /\ Returns(i, "register")
    /\ Finish(i)
    /\ view' = Visit([view EXCEPT !.me = calls[i].ans],
                     AfterRegistration(view.returnTo), None)
    /\ UNCHANGED <<area, server>>

SubmitFails(i) ==
    /\ Throws(i, "login") \/ Throws(i, "register")
    /\ Finish(i)
    /\ view' = [view EXCEPT !.submitting = FALSE]
    /\ UNCHANGED <<area, server>>

\* handleLogout of the header.
Logout ==
    /\ view.me # None /\ ~view.authLoading /\ ~view.loggingOut
    /\ Send("logout", None)
    /\ view' = [view EXCEPT !.loggingOut = TRUE]
    /\ UNCHANGED <<area, server>>

LogoutSettles(i) ==
    /\ \/ Returns(i, "logout")
          /\ view' = Visit([view EXCEPT !.me = None, !.loggingOut = FALSE], "/", None)
       \/ Throws(i, "logout") /\ view' = [view EXCEPT !.loggingOut = FALSE]
    /\ Finish(i)
    /\ UNCHANGED <<area, server>>

-----------------------------------------------------------------------------
(* The API's session.                                                      *)

SessionServed(i) ==
    /\ calls[i].phase = "sent"
    /\ \/ /\ calls[i].op = "getMe"
          /\ IF server.session = None THEN Refuse(i) ELSE Reply(i, server.session)
          /\ UNCHANGED server
       \/ /\ calls[i].op \in {"login", "register"}
          /\ Acted(i, calls[i].arg.role)
          /\ server' = [server EXCEPT !.session = calls[i].arg.role]
       \/ /\ calls[i].op = "logout"
          /\ Acted(i, None)
          /\ server' = [server EXCEPT !.session = None]
    /\ UNCHANGED <<area, view>>

SessionEnds ==
    /\ server.session # None
    /\ server' = [server EXCEPT !.session = None]
    /\ UNCHANGED <<area, view, calls>>

NavigationNext ==
    \/ RedirectToLogin \/ RedirectOn401 \/ RedirectToPos \/ FollowLink
    \/ SubmitLogin \/ SubmitRegistration \/ Logout
    \/ \E i \in Slots :
          \/ MeSettles(i) \/ LoggedIn(i) \/ Registered(i) \/ SubmitFails(i)
          \/ LogoutSettles(i) \/ SessionServed(i)
    \/ SessionEnds

-----------------------------------------------------------------------------
(* Properties.                                                             *)

\* Three tables say what a role may see: the links of sidebars and
\* dashboards, canRoleAccessRoute, and the layouts.  They agree: whoever is
\* signed in, and wherever logins, redirects and links have led, no link on
\* the page leads to a refusal.
EveryLinkAdmits ==
    (area = "navigation" /\ view.me # None) =>
        \A link \in LinksOn(view.page, view.me) : Admitted(view.me, link)

\* A login ends on a page that admits the person who logged in, also when
\* another account was asked to sign in for that page.
LoginLeadsToWork ==
    [][ \A i \in Slots :
          (/\ area = "navigation" /\ calls[i].op = "login"
           /\ view.page = "/login" /\ calls'[i].op = "none" /\ ~view'.submitting
           /\ view'.page # "/login")
          => AdmittedByLayout(view'.me, view'.page) ]_tab
=============================================================================
