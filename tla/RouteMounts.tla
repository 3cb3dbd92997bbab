----------------------------- MODULE RouteMounts -----------------------------
(***************************************************************************)
(* router/, route_list.go and embed.go: the routes the two routers mount,   *)
(* each with the gate in front of it, the routes the pages call by name,    *)
(* and the admin moved under the host's own admin panel.                    *)
(*                                                                          *)
(* A pattern is a sequence of words; "*" is a parameter and a last "**" the *)
(* rest of a path.  The handlers behind the routes are other modules.       *)
(***************************************************************************)
EXTENDS Naturals, Sequences, FiniteSets

R(m, p) == [method |-> m, path |-> p]
Each(ms, p) == {R(m, p) : m \in ms}
Gets(ps) == {R("GET", p) : p \in ps}
Posts(ps) == {R("POST", p) : p \in ps}
Under(base, routes) == {[r EXCEPT !.path = base \o @] : r \in routes}
Behind(gate, routes) == {[method |-> r.method, path |-> r.path, gate |-> gate] : r \in routes}

\* A collection and its members; with the form pages.
Crud(word) == Each({"GET", "POST"}, <<word>>) \cup Each({"PUT", "PATCH", "DELETE"}, <<word, "*">>)
Pages(word) == Crud(word) \cup Gets({<<word, "create">>, <<word, "*", "edit">>})
-----------------------------------------------------------------------------
(* What both routers mount through the same functions.                      *)

mountRoles == Pages("roles") \cup {R("PUT", <<"users", "*", "roles">>)}

mountSSO ==
  Gets({<<"sso", "login">>, <<"sso", "saml", "metadata">>, <<"sso", "oauth", "callback">>, <<"sso", "jwt", "callback">>})
    \cup Posts({<<"sso", "saml", "acs">>, <<"sso", "jwt", "callback">>})

mountSSOSettings == Each({"GET", "POST"}, <<"settings", "sso">>)

mountTwoFactor ==
  Gets({<<"admin", "settings", "two-factor">>})
    \cup Posts({<<"admin", "settings", "two-factor", w>> : w \in {"setup", "confirm", "disable"}})
mountTwoFactorChallenge == Each({"GET", "POST"}, <<"two-factor", "challenge">>)

mountTicketWrites ==
  {R("PUT", <<"*">>)} \cup Posts({<<"*", "replies", "*", "pin">>})
    \cup Posts({<<"*", w>> : w \in {"reply", "note", "assign", "status", "priority", "tags", "department", "macro", "snooze",
                                    "unsnooze", "follow"}})

mountTicketPanels ==
  Each({"GET", "POST"}, <<"*", "links">>) \cup Each({"GET", "POST"}, <<"*", "side-conversations">>)
    \cup {R("POST", <<"*", "subjects">>), R("DELETE", <<"*", "subjects", "*">>), R("DELETE", <<"*", "links", "*">>)}
    \cup Posts({<<"*", "side-conversations", "*", w>> : w \in {"reply", "close"}})

widgetRoutes ==
  Under(<<"widget">>,
    Gets({<<"config">>, <<"articles">>, <<"articles", "*">>, <<"tickets", "lookup">>, <<"tickets", "*">>, <<"chat", "availability">>,
          <<"chat", "*", "messages">>})
      \cup Posts({<<w>> : w \in {"tickets", "verification", "lookup"}} \cup {<<"chat", "start">>}
                   \cup {<<"chat", "*", w>> : w \in {"messages", "typing", "end", "rate"}}
                   \cup {<<"chat", "sessions", "*", w>> : w \in {"messages", "end"}}))
-----------------------------------------------------------------------------
(* MountStdlib.  flags: the features the host turned on.                    *)

PublicOnMux(flags) ==
  Behind("staff", Under(<<"api">>,
      Each({"GET", "POST"}, <<"tickets">>) \cup Each({"GET", "PATCH"}, <<"tickets", "*">>)
        \cup {R("POST", <<"tickets", "*", w>>) : w \in {"replies", "subjects"}}
        \cup {R("DELETE", <<"tickets", "*", "subjects", "*">>)} \cup Gets({<<"departments">>, <<"tags">>})))
    \cup Behind("admin", {R("ANY", <<"api", "plugins", "**">>)})
    \cup Behind("kb", Under(<<"api", "kb">>, Gets({<<"articles">>, <<"categories">>, <<"articles", "*">>})))
    \cup Behind("sso", mountSSO)
    \cup Behind("limit", Under(<<"api">>,
           UNION {Posts({Append(g, w) : w \in {"verification", "lookup", "tickets"}} \cup {g \o <<"tickets", "*", "replies">>})
                    \cup Gets({g \o <<"tickets", "*">>}) : g \in {<<"guest">>, <<"mobile", "guest">>}}
             \cup Posts({<<"guest", "tickets", "*", "rate">>})))
    \cup Behind("open",
           {R("ANY", <<"webhooks", "plugins", "**">>), R("GET", <<"attachments", "*", "download">>)}
             \cup Under(<<"api", "auth">>,
                    Posts({<<w>> : w \in {"login", "register", "logout", "refresh", "validate"}})
                      \cup {R("GET", <<"me">>), R("PATCH", <<"profile">>)})
             \cup IF "newsletters" \in flags
                  THEN Gets({<<"n", w, "*">> : w \in {"o", "c", "u", "v"}}) \cup Posts({<<"n", "u", "*">>})
                         \cup Posts({<<"webhooks", "newsletter", w>> : w \in {"postmark", "mailgun", "ses", "sendgrid"}})
                  ELSE {})

PagesOnMux ==
  Behind("user",
      Under(<<"tickets">>,
        Each({"GET", "POST"}, <<>>) \cup Gets({<<"create">>, <<"*">>})
          \cup Posts({<<"*", w>> : w \in {"replies", "rate", "reply", "close", "reopen"}})))
    \cup Behind("open", Gets({<<"guest", "create">>}))
    \cup Behind("limit", Posts({<<"guest">>, <<"guest", "*", "reply">>, <<"guest", "*", "rate">>}) \cup Gets({<<"guest", "*">>}))
    \cup Behind("kb", Gets({<<"kb">>, <<"kb", "*">>}) \cup Posts({<<"kb", "*", "feedback">>}))
    \cup Behind("staff", mountTwoFactor) \cup Behind("user", mountTwoFactorChallenge)

AgentOnMux ==
  Behind("agent", Under(<<"agent">>,
    Under(<<"tickets">>, mountTicketWrites \cup mountTicketPanels)
      \cup Gets({<<"**">>, <<"tickets">>, <<"tickets", "*">>, <<"kb", "search">>, <<"notifications">>, <<"macros">>,
                 <<"canned-responses">>, <<"chat", "sessions">>})
      \cup Each({"PUT", "POST"}, <<"status">>)
      \cup Posts({<<"tickets", "bulk">>, <<"notifications", "read-all">>, <<"notifications", "*", "read">>,
                  <<"tickets", "*", "macros", "*", "apply">>, <<"chat", "*", "end">>, <<"chat", "*", "transfer">>})
      \cup Posts({<<"tickets", "*", w>> : w \in {"replies", "read", "unread"}})
      \cup Posts({<<"chat", "sessions", "*", w>> : w \in {"accept", "message", "end", "transfer"}})))

AdminDeskOnMux ==
  Under(<<"tickets">>, mountTicketWrites \cup mountTicketPanels)
    \cup {R("ANY", <<"plugins">>), R("ANY", <<"plugins", "**">>)}
    \cup UNION {Pages(w) : w \in {"departments", "sla-policies", "business-hours", "custom-fields", "custom-objects", "statuses"}}
    \cup Crud("tags")
    \cup Gets({<<"agents", "search">>, <<"tickets">>, <<"tickets", "merge-search">>, <<"tickets", "*">>, <<"import">>,
               <<"import", "*", "*">>})
    \cup Posts({<<"tickets", "bulk">>, <<"tickets", "*", "merge">>, <<"tickets", "*", "split">>, <<"custom-fields", "reorder">>,
                <<"import", "*", "*">>, <<"data-retention", "purge">>})
    \cup Each({"GET", "POST"}, <<"custom-objects", "*", "records">>)
    \cup Each({"PUT", "PATCH", "DELETE"}, <<"custom-objects", "*", "records", "*">>)

AdminContentOnMux ==
  UNION {Pages(w) : w \in {"automations", "escalation-rules", "kb-articles"}}
    \cup UNION {Crud(w) : w \in {"macros", "canned-responses", "saved-views", "kb-categories", "workflows"}}
    \cup Gets({<<"workflows", "create">>, <<"workflows", "logs">>, <<"workflows", "*">>, <<"workflows", "*", "logs">>,
               <<"capacity">>, <<"kb", "articles", "*">>})
    \cup Posts({<<"workflows", "reorder">>, <<"workflows", "*", "toggle">>, <<"automations", "run">>, <<"escalation-rules", "run">>,
                <<"saved-views", "reorder">>})
    \cup Each({"PUT", "PATCH"}, <<"capacity", "*">>)
    \cup Under(<<"kb">>, {r \in Crud("articles") \cup Crud("categories") : r.method # "PUT"})

Reports == {"first-response-time", "resolution-time", "agent-ranking", "sla", "csat", "period-comparison", "dashboard", "agents",
            "sla-trends", "frt", "response-times", "resolution", "resolution-times", "cohorts", "comparison"}

AdminToolsOnMux(flags) ==
  (IF "database" \in flags THEN Crud("api-tokens") ELSE {})
    \cup Pages("webhooks") \cup (Pages("skills") \ Gets({<<"skills", "create">>}))
    \cup Gets({<<"webhooks", "*", "deliveries">>, <<"skills", "new">>, <<"reports">>, <<"reports", "agent", "*", "detail">>})
    \cup Gets({<<"reports", w>> : w \in Reports}) \cup Posts({<<"webhooks", "deliveries", "*", "retry">>})

AdminSettingsOnMux ==
  Behind("admin",
      Each({"GET", "POST"}, <<"settings">>) \cup Each({"GET", "PUT", "POST"}, <<"settings", "public-tickets">>)
        \cup UNION {Each({"GET", "POST"}, <<"settings", w>>) : w \in {"csat", "data-retention", "database", "email"}}
        \cup Posts({<<"settings", "database", "test">>}) \cup Each({"GET", "PUT"}, <<"settings", "widget">>)
        \cup Gets({<<"audit-log">>, <<"users">>}) \cup {R("PATCH", <<"users", "*", "role">>)})
    \cup Behind("admin, sso", mountSSOSettings) \cup Behind("admin, roles", mountRoles)

Campaigns ==
  Each({"GET", "POST"}, <<>>) \cup Each({"GET", "PUT", "DELETE"}, <<"*">>) \cup Each({"GET", "PUT"}, <<"settings">>)
    \cup UNION {Each({"GET", "POST"}, <<w>>) \cup Each({"GET", "PUT", "DELETE"}, <<w, "*">>) \cup Gets({<<w, "new">>}) :
                  w \in {"lists", "templates"}}
    \cup Gets({<<"new">>}) \cup Posts({<<"preview">>, <<"test">>, <<"lists", "*", "members">>, <<"lists", "*", "import">>})
    \cup {R("DELETE", <<"lists", "*", "members", "*">>)}

\* The edit page as a router names it.  The mux panics on two patterns
\* neither of which is the more specific, which "*/edit" and "lists/*" are.
NewslettersOnMux == Campaigns \cup Gets({<<"*", "*">>})

Stdlib(flags) ==
  PublicOnMux(flags)
    \cup IF "ui" \notin flags THEN {}
         ELSE PagesOnMux \cup AgentOnMux
                \cup {[r EXCEPT !.path = <<"admin">> \o @] :
                        r \in Behind("admin", AdminDeskOnMux \cup AdminContentOnMux \cup AdminToolsOnMux(flags)) \cup AdminSettingsOnMux
                                \cup IF "newsletters" \in flags
                                     THEN Behind("admin", Under(<<"newsletters">>, NewslettersOnMux)) ELSE {}}
-----------------------------------------------------------------------------
(* MountChi: groups within groups.                                          *)

Group(base, routes) == {[r EXCEPT !.path = base \o @] : r \in routes}

ApiOnChi ==
  Group(<<"api">>,
    Behind("staff",
        Each({"GET", "POST"}, <<"tickets">>) \cup Each({"GET", "PATCH"}, <<"tickets", "*">>)
          \cup Posts({<<"tickets", "*", "replies">>, <<"tickets", "*", "subjects">>, <<"tickets", "*", "actions", "*">>})
          \cup {R("DELETE", <<"tickets", "*", "subjects", "*">>)} \cup Gets({<<"departments">>, <<"tags">>}))
      \cup Behind("open",
             Posts({<<"auth", w>> : w \in {"login", "register", "logout", "refresh", "validate"}})
               \cup {R("GET", <<"auth", "me">>), R("PATCH", <<"auth", "profile">>)})
      \cup Group(<<"guest">>, Behind("limit",
             Posts({<<"verification">>, <<"lookup">>, <<"tickets">>, <<"tickets", "*", "replies">>, <<"tickets", "*", "rate">>})
               \cup Gets({<<"tickets", "*">>})))
      \cup Group(<<"mobile", "guest">>, Behind("limit",
             Posts({<<"verification">>, <<"lookup">>, <<"tickets">>, <<"tickets", "*", "replies">>}) \cup Gets({<<"tickets", "*">>})))
      \cup Behind("kb", Gets({<<"kb", "articles">>, <<"kb", "categories">>, <<"kb", "articles", "*">>}))
      \cup Behind("admin", {R("ANY", <<"plugins", "**">>)}))

PublicOnChi(flags) ==
  Behind("open", {R("GET", <<"attachments", "*", "download">>), R("ANY", <<"webhooks", "plugins", "**">>)})
    \cup Behind("sso", mountSSO)
    \cup IF "newsletters" \notin flags THEN {}
         ELSE Group(<<"n">>, Behind("open", Gets({<<w, "*">> : w \in {"o", "c", "u", "v"}}) \cup Posts({<<"u", "*">>})))
                \cup Group(<<"webhooks", "newsletter">>, Behind("open", Posts({<<w>> : w \in {"postmark", "mailgun", "ses", "sendgrid"}})))

PagesOnChi ==
  Group(<<"tickets">>, Behind("user",
      Each({"GET", "POST"}, <<>>) \cup Gets({<<"create">>, <<"*">>})
        \cup Posts({<<"*", w>> : w \in {"replies", "rate", "reply", "close", "reopen"}})))
    \cup Group(<<"guest">>,
           Behind("open", Gets({<<"create">>}))
             \cup Behind("limit", Posts({<<>>, <<"*", "reply">>, <<"*", "rate">>}) \cup Gets({<<"*">>})))
    \cup Behind("kb", Gets({<<"kb">>, <<"kb", "*">>}) \cup Posts({<<"kb", "*", "feedback">>}))
    \cup Behind("staff", mountTwoFactor) \cup Behind("user", mountTwoFactorChallenge)

AgentOnChi ==
  Group(<<"agent">>, Behind("agent",
    Gets({<<>>, <<"tickets">>, <<"tickets", "*">>, <<"kb", "search">>, <<"notifications">>, <<"macros">>, <<"canned-responses">>,
          <<"chat", "sessions">>})
      \cup Posts({<<"tickets", "*", "replies">>, <<"tickets", "*", "actions", "*">>, <<"tickets", "bulk">>, <<"status">>,
                  <<"notifications", "read-all">>, <<"notifications", "*", "read">>, <<"tickets", "*", "read">>,
                  <<"tickets", "*", "unread">>, <<"tickets", "*", "macros", "*", "apply">>, <<"chat", "*", "end">>,
                  <<"chat", "*", "transfer">>})
      \cup {R("PUT", <<"status">>)} \cup Under(<<"tickets">>, mountTicketWrites \cup mountTicketPanels)
      \cup Posts({<<"chat", "sessions", "*", w>> : w \in {"accept", "message", "end", "transfer"}})))

AdminDeskOnChi ==
  {R("ANY", <<"plugins">>), R("ANY", <<"plugins", "**">>)}
    \cup Pages("departments") \cup Crud("tags")
    \cup Gets({<<"agents", "search">>, <<"tickets", "merge-search">>, <<"tickets">>, <<"tickets", "*">>})
    \cup Posts({<<"tickets", "*", "merge">>, <<"tickets", "bulk">>, <<"tickets", "*", "split">>})
    \cup Under(<<"tickets">>, mountTicketWrites \cup mountTicketPanels)
    \cup Pages("sla-policies") \cup Pages("business-hours")
    \cup Pages("custom-fields") \cup Posts({<<"custom-fields", "reorder">>}) \cup Pages("custom-objects")
    \cup Each({"GET", "POST"}, <<"custom-objects", "*", "records">>)
    \cup Each({"PUT", "PATCH", "DELETE"}, <<"custom-objects", "*", "records", "*">>)
    \cup Pages("statuses") \cup Gets({<<"import">>, <<"import", "*", "*">>})
    \cup Posts({<<"import", "*", "*">>, <<"data-retention", "purge">>})

AdminContentOnChi ==
  Crud("workflows") \cup Gets({<<"workflows", "create">>, <<"workflows", "logs">>, <<"workflows", "*">>, <<"workflows", "*", "logs">>})
    \cup Posts({<<"workflows", "reorder">>, <<"workflows", "*", "toggle">>})
    \cup Pages("automations") \cup Posts({<<"automations", "run">>})
    \cup Pages("escalation-rules") \cup Posts({<<"escalation-rules", "run">>})
    \cup Gets({<<"capacity">>}) \cup Each({"PUT", "PATCH"}, <<"capacity", "*">>)
    \cup Crud("macros") \cup Crud("canned-responses") \cup Crud("saved-views") \cup Posts({<<"saved-views", "reorder">>})
    \cup Pages("kb-articles") \cup Crud("kb-categories")
    \cup {r \in Under(<<"kb">>, Crud("articles") \cup Crud("categories")) : r.method # "PUT"} \cup Gets({<<"kb", "articles", "*">>})

AdminToolsOnChi(flags) ==
  (IF "database" \in flags THEN Crud("api-tokens") ELSE {})
    \cup Pages("webhooks") \cup Gets({<<"webhooks", "*", "deliveries">>}) \cup Posts({<<"webhooks", "deliveries", "*", "retry">>})
    \cup Crud("skills") \cup Gets({<<"skills", "new">>, <<"skills", "*", "edit">>})
    \cup Gets({<<"reports">>, <<"reports", "agent", "*", "detail">>} \cup {<<"reports", w>> : w \in Reports})
    \cup Each({"GET", "PUT", "POST"}, <<"settings", "public-tickets">>) \cup Each({"GET", "PUT"}, <<"settings", "widget">>)
    \cup Each({"GET", "POST"}, <<"settings">>) \cup Posts({<<"settings", "database", "test">>})
    \cup UNION {Each({"GET", "POST"}, <<"settings", w>>) : w \in {"csat", "data-retention", "database", "email"}}

AdminAccountsOnChi(flags) ==
  Behind("admin", Gets({<<"audit-log">>, <<"users">>}) \cup {R("PATCH", <<"users", "*", "role">>)})
    \cup Behind("admin, sso", mountSSOSettings) \cup Behind("admin, roles", mountRoles)
    \cup IF "newsletters" \in flags THEN Behind("admin", Under(<<"newsletters">>, Campaigns \cup Gets({<<"*", "edit">>}))) ELSE {}

Chi(flags) ==
  ApiOnChi \cup PublicOnChi(flags)
    \cup IF "ui" \notin flags THEN {}
         ELSE PagesOnChi \cup AgentOnChi
                \cup Group(<<"admin">>, Behind("admin", AdminDeskOnChi \cup AdminContentOnChi \cup AdminToolsOnChi(flags))
                                          \cup AdminAccountsOnChi(flags))
-----------------------------------------------------------------------------
(* How a router picks: net/http's ServeMux and go-chi, both outside the     *)
(* repository.                                                              *)

Subtree(p) == p # <<>> /\ p[Len(p)] = "**"
Fits(p, path) ==
  /\ IF Subtree(p) THEN Len(path) >= Len(p) ELSE Len(path) = Len(p)
  /\ \A i \in DOMAIN p : p[i] \in {path[i], "*", "**"}

Methods(r) == IF r.method = "ANY" THEN {"GET", "POST", "PUT", "PATCH", "DELETE"} ELSE {r.method}
Answering(routes, method, path) == {r \in routes : method \in Methods(r) /\ Fits(r.path, path)}

\* Every path p matches, q matches.
Within(p, q) ==
  /\ IF Subtree(q) THEN Len(p) >= Len(q) ELSE (Len(p) = Len(q) /\ ~Subtree(p))
  /\ \A i \in DOMAIN q : q[i] \in {p[i], "**"} \/ (q[i] = "*" /\ p[i] # "**")
Meets(p, q) ==
  /\ \/ Len(p) = Len(q)
     \/ Len(p) > Len(q) /\ Subtree(q)
     \/ Len(p) < Len(q) /\ Subtree(p)
  /\ \A i \in DOMAIN p \cap DOMAIN q : p[i] = q[i] \/ p[i] \in {"*", "**"} \/ q[i] \in {"*", "**"}

MoreSpecific(r, s) == Methods(r) \subseteq Methods(s) /\ Within(r.path, s.path)
\* Registering both panics.
Conflict(r, s) ==
  /\ Methods(r) \cap Methods(s) # {} /\ Meets(r.path, s.path)
  /\ ~MoreSpecific(r, s) /\ ~MoreSpecific(s, r)

MuxPicks(routes, method, path) ==
  LET a == Answering(routes, method, path) IN {r \in a : \A s \in a : MoreSpecific(r, s)}

\* Word by word, a literal before a parameter before the rest.
Rank(w) == CASE w = "**" -> 2 [] w = "*" -> 1 [] OTHER -> 0
Before(p, q) ==
  \E i \in DOMAIN p \cap DOMAIN q : Rank(p[i]) < Rank(q[i]) /\ \A j \in 1..(i - 1) : Rank(p[j]) = Rank(q[j])
ChiPicks(routes, method, path) ==
  LET a == Answering(routes, method, path) IN {r \in a : \A s \in a : r = s \/ Before(r.path, s.path)}
-----------------------------------------------------------------------------
(* route_list.go: the routes the pages call by name, parameters as "*".     *)

NamedTickets(area) ==
  Under(<<area, "tickets">>,
    Gets({<<>>, <<"*">>}) \cup {R("PUT", <<"*">>)} \cup Posts({<<"bulk">>, <<"*", "replies", "*", "pin">>})
      \cup Posts({<<"*", w>> : w \in {"reply", "note", "assign", "status", "priority", "tags", "department", "macro", "snooze",
                                      "unsnooze", "follow"}}))
NamedWrites(word) == Posts({<<word>>}) \cup Each({"PUT", "PATCH", "DELETE"}, <<word, "*">>)
NamedForms(word) == Gets({<<word>>, <<word, "*", "edit">>}) \cup NamedWrites(word)

agentRoutes ==
  NamedTickets("agent") \cup Posts({<<"agent", "tickets", "*", w>> : w \in {"read", "unread"}})
    \cup Gets({<<"agent">>, <<"agent", "kb", "search">>, <<"agent", "notifications">>})
    \cup Each({"PUT", "POST"}, <<"agent", "status">>)
    \cup Posts({<<"agent", "notifications", "*", "read">>, <<"agent", "notifications", "read-all">>,
                <<"agent", "chat", "*", "end">>, <<"agent", "chat", "*", "transfer">>})

adminTicketRoutes ==
  NamedTickets("admin") \cup Gets({<<"admin", "tickets", "merge-search">>, <<"admin", "agents", "search">>})
    \cup Under(<<"admin", "tickets", "*">>,
           Posts({<<"split">>, <<"merge">>} \cup {<<"side-conversations", "*", w>> : w \in {"reply", "close"}})
             \cup Each({"GET", "POST"}, <<"links">>) \cup Each({"GET", "POST"}, <<"side-conversations">>)
             \cup {R("DELETE", <<"links", "*">>)})

resourceRoutes ==
  Under(<<"admin">>,
    UNION {NamedForms(w) \cup Gets({<<w, "create">>}) :
             w \in {"departments", "sla-policies", "business-hours", "custom-fields", "custom-objects", "statuses",
                    "escalation-rules", "automations", "webhooks", "roles", "kb-articles"}}
      \cup NamedForms("skills")
      \cup Gets({<<"skills", "new">>, <<"custom-objects", "*", "records">>, <<"webhooks", "*", "deliveries">>})
      \cup Posts({<<"custom-fields", "reorder">>, <<"custom-objects", "*", "records">>, <<"webhooks", "deliveries", "*", "retry">>})
      \cup Each({"PUT", "PATCH", "DELETE"}, <<"custom-objects", "*", "records", "*">>))

contentRoutes ==
  Under(<<"admin">>,
    UNION {Gets({<<w>>}) \cup NamedWrites(w) :
             w \in {"kb-categories", "tags", "macros", "canned-responses", "saved-views", "workflows", "api-tokens"}}
      \cup Gets({<<"capacity">>, <<"users">>, <<"audit-log">>, <<"workflows", "*">>, <<"workflows", "*", "logs">>,
                 <<"workflows", "create">>, <<"workflows", "logs">>})
      \cup Posts({<<"saved-views", "reorder">>, <<"workflows", "reorder">>, <<"workflows", "*", "toggle">>})
      \cup Each({"PUT", "PATCH"}, <<"capacity", "*">>) \cup {R("PATCH", <<"users", "*", "role">>), R("PUT", <<"users", "*", "roles">>)})

toolRoutes ==
  Under(<<"admin">>,
    Gets({<<"import">>, <<"plugins">>, <<"reports">>, <<"reports", "agent", "*", "detail">>})
      \cup Gets({<<"import", "*", w>> : w \in {"connect", "mapping"}} \cup {<<"import", w, "*">> : w \in {"progress", "status"}})
      \cup Posts({<<"import", "*", w>> : w \in {"test-connection", "review", "start"}}
                   \cup {<<"import", w, "*">> : w \in {"pause", "resume", "cancel"}}
                   \cup {<<"plugins", "*", w>> : w \in {"activate", "deactivate"}})
      \cup {R("DELETE", <<"plugins", "*">>)}
      \cup Gets({<<"reports", w>> : w \in Reports \ {"first-response-time", "resolution-time", "period-comparison"}}))

settingRoutes ==
  Under(<<"admin">>,
    Each({"GET", "POST"}, <<"settings">>) \cup Posts({<<"settings", "database", "test">>}) \cup mountSSOSettings
      \cup UNION {Each({"GET", "POST"}, <<"settings", w>>) : w \in {"csat", "data-retention", "database", "email", "public-tickets"}})
    \cup mountSSO \cup mountTwoFactor \cup mountTwoFactorChallenge

guestRoutes ==
  Under(<<"tickets">>, Each({"GET", "POST"}, <<>>) \cup Gets({<<"create">>, <<"*">>})
                         \cup Posts({<<"*", w>> : w \in {"reply", "close", "reopen", "rate"}}))
    \cup Gets({<<"kb">>, <<"kb", "*">>, <<"guest", "create">>, <<"guest", "*">>, <<"attachments", "*", "download">>})
    \cup Posts({<<"kb", "*", "feedback">>, <<"guest">>, <<"guest", "*", "reply">>, <<"guest", "*", "rate">>,
                <<"api", "guest", "verification">>, <<"api", "guest", "lookup">>})

builtInRoutes ==
  agentRoutes \cup adminTicketRoutes \cup resourceRoutes \cup contentRoutes \cup toolRoutes \cup settingRoutes \cup guestRoutes
-----------------------------------------------------------------------------
(* embed.go: the admin under the host's own panel.  A site is               *)
(* [prefix: RoutePrefix, embed: the embed prefix, on, iframe, replace].     *)

IsUnder(base, path) == Len(path) >= Len(base) /\ SubSeq(path, 1, Len(base)) = base
After(base, path) == SubSeq(path, Len(base) + 1, Len(path))
Nowhere == <<"nowhere">>

standaloneAdmin(site) == site.prefix \o <<"admin">>
AdminBase(site) == IF site.on THEN site.embed ELSE standaloneAdmin(site)

unmovedAdminPath(rest) == \E p \in {<<"settings", "two-factor">>, <<"newsletters">>} : IsUnder(p, rest)

StandaloneAdminPath(site, path) ==
  LET rest == After(AdminBase(site), path) IN
  IF site.on /\ IsUnder(AdminBase(site), path) /\ ~unmovedAdminPath(rest) THEN standaloneAdmin(site) \o rest ELSE Nowhere

embeddedAdminURL(site, path) ==
  LET rest == After(standaloneAdmin(site), path) IN
  IF site.on /\ IsUnder(standaloneAdmin(site), path) /\ ~unmovedAdminPath(rest) THEN AdminBase(site) \o rest ELSE Nowhere

\* The request as the Escalated mount sees it: its path, whether an embedded
\* route served it, and what of the host's middleware it has passed.
EmbeddedAdminHandler(site, path) ==
  [path |-> StandaloneAdminPath(site, path), embedded |-> TRUE, passed |-> {"host"}]
Standing(path) == [path |-> path, embedded |-> FALSE, passed |-> {}]

EmbedRouting(site, q) ==
  IF ~q.embedded /\ embeddedAdminURL(site, q.path) # Nowhere THEN [q EXCEPT !.path = Nowhere] ELSE q

AdminGate(site, q) == IF site.on /\ site.replace /\ q.embedded THEN q.passed ELSE q.passed \cup {"admin"}

\* A browser's path, from the outer router to the admin's gate.
Arrives(site, path) ==
  EmbedRouting(site, IF site.on /\ IsUnder(AdminBase(site), path) THEN EmbeddedAdminHandler(site, path) ELSE Standing(path))

rewriteLocation(site, path) ==
  LET to == embeddedAdminURL(site, path) IN IF to = Nowhere THEN path ELSE to

\* route(name): the address a page links to.
RouteList(site, r) == rewriteLocation(site, site.prefix \o r.path)

\* An origin as the URL parser splits it.  What a wildcard, a path, a query
\* or credentials are on is no origin.
exactOrigin(entry) ==
  IF entry.scheme \in {"http", "https"} /\ entry.host # "" /\ "*" \notin entry.marks /\ entry.marks \subseteq {"/"}
  THEN {[scheme |-> entry.scheme, host |-> entry.host]} ELSE {}

resolveEmbed(config, env) ==
  LET ancestors == IF config.ancestors = "unset" THEN env.ancestors ELSE config.ancestors IN
  [on |-> config.on \/ env.on \in {"1", "true", "on", "yes"},
   mode |-> IF (IF config.mode = "" THEN env.mode ELSE config.mode) = "iframe" THEN "iframe" ELSE "layout",
   prefix |-> IF config.prefix # <<>> THEN config.prefix ELSE IF env.prefix # <<>> THEN env.prefix ELSE <<"admin", "support">>,
   ancestors |-> UNION {exactOrigin(e) : e \in ancestors}]
-----------------------------------------------------------------------------
(* What a request may count on.                                             *)

\* The patterns register, whatever the host turned on.
Registers(flags) == \A r, s \in Stdlib(flags) : r # s => ~Conflict(r, s)

\* Where the two routers differ on purpose: the custom actions only chi
\* mounts, and the agent's dashboard, which the mux serves for every
\* unmatched page under agent/.
ChiOnly(path) == Len(path) = 5 /\ path[4] = "actions"
Dashboard(r) == r.path \in {<<"agent">>, <<"agent", "**">>}
\* The mux answers only "edit" of a campaign's sub-pages.
Handled(r, path) == ~(r.path = <<"admin", "newsletters", "*", "*">> /\ path[4] # "edit")

\* Both routers put the same gate before a request and end at one pattern.
SameOnBoth(flags, method, path) ==
  LET mux == {r \in MuxPicks(Stdlib(flags), method, path) : Handled(r, path)}
      chi == ChiPicks(Chi(flags), method, path)
      edit(r) == IF r.path = <<"admin", "newsletters", "*", "*">> THEN [r EXCEPT !.path[4] = "edit"] ELSE r
  IN  /\ Cardinality(mux) <= 1 /\ Cardinality(chi) <= 1
      /\ ChiOnly(path) \/ (\E r \in mux \cup chi : Dashboard(r)) \/ {edit(r) : r \in mux} = chi

\* What a page links to by name is mounted.
NamedIsServed(flags, r) ==
  LET path == [i \in DOMAIN r.path |-> IF r.path[i] = "*" THEN "x" ELSE r.path[i]]
      at == IF path = <<"agent">> THEN <<"agent", "">> ELSE path
  IN  MuxPicks(Stdlib(flags), r.method, at) # {} /\ ChiPicks(Chi(flags), r.method, path) # {}

\* A moved page is served at the one address its links, and redirects to it,
\* name; and a page of the admin always passes the admin's gate, or the
\* host's where the host said its own is enough.
EmbedSays(site, r) ==
  LET linked == RouteList(site, r)
      mounted == site.prefix \o r.path
      addresses == {a \in {linked, mounted, AdminBase(site) \o r.path} : Arrives(site, a).path = mounted}
      gates == AdminGate(site, Arrives(site, linked))
  IN  /\ addresses = {linked} /\ rewriteLocation(site, linked) = linked
      /\ r.gate \in {"admin", "admin, sso", "admin, roles"} /\ r.path[1] = "admin" =>
           IF "host" \in gates THEN site.on /\ ("admin" \in gates \/ site.replace) ELSE "admin" \in gates
=============================================================================
