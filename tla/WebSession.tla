------------------------------ MODULE WebSession ------------------------------
(***************************************************************************)
(* Who is signed in, and what the browser shows for it: the session cookie *)
(* and the server's sessions, the cached answers of /api/me and of         *)
(* /api/setup/status, the routes that redirect on them (App.tsx), the      *)
(* forms that sign in and out, and requests of the pages that bring a 401  *)
(* (client.ts, auth.tsx, Setup.tsx, Login.tsx, Invite.tsx, Settings.tsx).  *)
(*                                                                         *)
(* Sessions are numbered as they are issued; no cookie is session 0.  One  *)
(* form is under way at a time.                                            *)
(***************************************************************************)
EXTENDS Integers, FiniteSets

CONSTANTS
    Users,
    Nobody,       \* null: signed out, or no session
    MaxSessions,  \* bounds the sessions that are issued
    MaxGets,      \* bounds the pages' requests in flight
    MaxLoads,     \* bounds the page loads after the first
    Early,        \* a form may be sent before the first /api/me is answered
    Mistypes,     \* the current password may be wrong
    ServerMayFail \* a session may not be found for an error, or an answer be one

ASSUME WebSessionConstants ==
    /\ {MaxSessions, MaxGets, MaxLoads} \subseteq Nat /\ MaxSessions > 0
    /\ Early \in BOOLEAN /\ Mistypes \in BOOLEAN /\ ServerMayFail \in BOOLEAN
    /\ Nobody \notin Users
    /\ {"unknown", "idle", "sent", "mistaken", "broken"} \cap (Users \cup {Nobody}) = {}

VARIABLES
    \* the server
    accounts, admin, completed,
    owner,     \* [session -> user]
    issued,    \* sessions issued so far
    \* the browser
    cookie,
    me,        \* the cache entry of /api/me
    setup,     \* that of /api/setup/status, and whether it is gone from the cache
    watching,  \* AuthProvider's observer is on the cached entry
    shown,     \* useAuth().user
    behind,    \* the last request for /api/me failed: its data is older
    path, from,
    step,      \* the wizard's step, NoStep when it is not there
    gets,      \* the pages' requests
    cached,    \* whose data the pages' queries hold
    form, loads

server == <<accounts, admin, completed, owner, issued>>
vars == <<server, cookie, me, setup, watching, behind, shown, path, from, step, gets, cached, form, loads>>

Unknown == "unknown"   \* undefined: not fetched yet
Idle == "idle"
Sent == "sent"
Mistaken == "mistaken" \* a 401 that says nothing of the session
Broken == "broken"     \* an error that is not a 401, after its retries
NoStep == -1
Sessions == 1 .. MaxSessions
Paths == {"app", "admin", "login", "setup", "invite"}

NoFlight == [session |-> 0, answer |-> Idle]
NoSetup == [data |-> Unknown, get |-> Idle, gone |-> FALSE]
NoGet == [session |-> 0, answer |-> Idle, live |-> FALSE]
NoForm == [kind |-> "none", user |-> Nobody, right |-> FALSE, session |-> 0, phase |-> Idle, answer |-> Idle]

-----------------------------------------------------------------------------
(* The server *)

Holder(s) == IF s = 0 THEN Nobody ELSE owner[s]

\* UserFromRequest: an error of the database is a session that is not found, a
\* 401 for RequireUser; any other request can also fail.
Lookup(s) == {Holder(s)} \cup IF ServerMayFail THEN {Mistaken, Broken} ELSE {}

\* handlers_setup.go: has_users and setup_completed.
Status == IF accounts = {} THEN "fresh" ELSE IF completed THEN "done" ELSE "open"

SignIns == {"login", "account", "invite"}

\* What the handler answers to the form.
Answer(f) ==
    CASE f.kind = "login" -> IF f.right /\ f.user \in accounts THEN "ok" ELSE "401"
      [] f.kind \in {"account", "invite"} ->
           IF accounts = {} \/ (f.kind = "invite" /\ f.right /\ f.user \notin accounts) THEN "ok" ELSE "403"
      [] f.kind = "password" -> IF Holder(f.session) # Nobody /\ f.right THEN "ok" ELSE "401"
      [] f.kind = "logout" -> IF Holder(f.session) # Nobody THEN "ok" ELSE "401"
      [] f.kind = "finish" -> IF accounts # {} /\ Holder(f.session) \in {admin} \ {Nobody} THEN "ok" ELSE "403"

-----------------------------------------------------------------------------
(* Routes *)

Loading == shown = Unknown
SignedIn(u) == u \in Users

\* Mistake: nobody who is signed in may see the wizard.
SetupPageSignedIn(u, s) ==
    IF s = Unknown THEN "setup"
    ELSE IF s = "done" THEN "app"
    ELSE IF s = "open" /\ ~SignedIn(u) THEN "login"
    ELSE IF SignedIn(u) THEN "app"
    ELSE "setup"

\* Mistake: any user may see the wizard.
SetupPageAnyone(u, s) ==
    IF s = Unknown THEN "setup"
    ELSE IF s = "done" THEN "app"
    ELSE IF s = "open" /\ ~SignedIn(u) THEN "login"
    ELSE "setup"

\* RequireUser, RequireAdmin, LoginPage, SetupPage: where a page sends a user u
\* under the setup status s; itself when it stays, or still loads.
SetupPage(u, s) ==
    IF s = Unknown THEN "setup"
    ELSE IF s = "done" THEN "app"
    ELSE IF s = "open" /\ ~SignedIn(u) THEN "login"
    ELSE IF SignedIn(u) /\ u # admin THEN "app"
    ELSE "setup"

RequireUser(p, u, s) ==
    IF Unknown \in {u, s} THEN p
    ELSE IF s = "fresh" THEN "setup"
    ELSE IF ~SignedIn(u) THEN "login"
    ELSE IF s = "open" /\ u = admin THEN "setup"
    ELSE IF p = "admin" /\ u # admin THEN "app"
    ELSE p

Route(p, u, s) ==
    CASE p \in {"app", "admin"} -> RequireUser(p, u, s)
      [] p = "login" -> IF SignedIn(u) THEN from ELSE p
      [] p = "setup" -> SetupPage(u, s)
      [] p = "invite" -> p

Target == Route(path, shown, setup.data)

\* The pages behind RequireUser, past the spinner.
InApp == path \in {"app", "admin"} /\ Target = path /\ SignedIn(shown) /\ setup.data # Unknown

\* Mistake: the setup page does not fetch the status.
WatchedInApp(p, s) ==
    IF p \in {"app", "admin"}
    THEN IF s.gone \/ (s.data = Unknown /\ s.get = Idle)
         THEN [data |-> Unknown, get |-> Sent, gone |-> FALSE] ELSE s
    ELSE IF s.gone THEN NoSetup ELSE s

\* useSetupStatus of the route that renders: an entry that is not in the cache
\* is fetched.
Watched(p, s) ==
    IF p \in {"app", "admin", "setup"}
    THEN IF s.gone \/ (s.data = Unknown /\ s.get = Idle)
         THEN [data |-> Unknown, get |-> Sent, gone |-> FALSE] ELSE s
    ELSE IF s.gone THEN NoSetup ELSE s

\* SetupSteps keeps its step while it stays mounted.
Wizard(p, u, s) ==
    IF p # "setup" \/ s.data = Unknown \/ SetupPage(u, s.data) # "setup" THEN NoStep
    ELSE IF step # NoStep THEN step
    ELSE IF SignedIn(u) THEN 1 ELSE 0

\* A render of path p for user u, setup being s.
Render(p, u, s) ==
    /\ path' = p
    /\ shown' = u
    /\ setup' = Watched(p, s)
    /\ step' = Wizard(p, u, Watched(p, s))

\* An answer of /api/me, or null: the routes render again if it is another one.
Becomes(data) ==
    LET u == IF watching THEN data ELSE shown
    IN  IF u = shown THEN UNCHANGED <<path, shown, setup, step>> ELSE Render(path, u, setup)

\* A page load, of the app or of a link.
Loads(p) ==
    /\ loads < MaxLoads
    /\ loads' = loads + 1
    /\ me' = [data |-> Unknown, get |-> [session |-> cookie, answer |-> Sent]]
    /\ watching' = TRUE /\ behind' = FALSE
    /\ path' = p /\ shown' = Unknown
    /\ setup' = Watched(p, NoSetup) /\ step' = NoStep
    /\ from' = "app"
    /\ gets' = [i \in DOMAIN gets |-> NoGet]
    /\ cached' = {}
    /\ form' = NoForm
    /\ UNCHANGED <<server, cookie>>

\* A fresh install, one whose admin has not finished the wizard, or one in use.
Init ==
    /\ \E u \in Users : \/ accounts = {} /\ admin = Nobody
                        \/ accounts \in {{u}, Users} /\ admin = u
    /\ completed \in IF accounts = {} THEN {FALSE} ELSE BOOLEAN
    /\ cookie \in {0, 1}
    /\ owner \in [Sessions -> accounts \cup {Nobody}]
    /\ \A s \in Sessions : s > cookie => owner[s] = Nobody
    /\ issued = cookie
    /\ path \in {"app", "setup", "invite"}
    /\ from = "app"
    /\ me = [data |-> Unknown, get |-> [session |-> cookie, answer |-> Sent]]
    /\ shown = Unknown /\ watching = TRUE /\ behind = FALSE
    /\ setup = Watched(path, NoSetup) /\ step = NoStep
    /\ gets = [i \in 1 .. MaxGets |-> NoGet]
    /\ cached = {}
    /\ form = NoForm
    /\ loads = 0

\* <Navigate>; a setup status that is stale is fetched again.
Redirects ==
    /\ ~setup.gone
    /\ Target # path
    /\ from' = IF Target = "login" /\ path \in {"app", "admin"} THEN path
               ELSE IF Target = "login" THEN "app" ELSE from
    /\ \E s \in {setup, [setup EXCEPT !.get = Sent]} : Render(Target, shown, s)
    /\ UNCHANGED <<server, cookie, me, watching, behind, gets, cached, form, loads>>

-----------------------------------------------------------------------------
(* Requests *)

MeRead ==
    /\ me.get.answer = Sent
    /\ \E a \in Lookup(me.get.session) : me' = [me EXCEPT !.get.answer = a]
    /\ UNCHANGED <<server, cookie, setup, watching, behind, shown, path, from, step, gets, cached, form, loads>>

\* Mistake: a request that is on its way counts as answered.
MeArrivesUnread ==
    /\ me.get # NoFlight
    /\ me' = [data |-> me.get.answer, get |-> NoFlight]
    /\ Becomes(me.get.answer)
    /\ UNCHANGED <<server, cookie, watching, behind, from, gets, cached, form, loads>>

\* A 401 is null, not an error; after an error the data stays, and if there is
\* none the user is null.
MeArrives ==
    LET a == me.get.answer
        data == IF a = Mistaken THEN Nobody ELSE IF a = Broken THEN me.data ELSE a
    IN  /\ a \notin {Idle, Sent}
        /\ me' = [data |-> data, get |-> NoFlight]
        /\ behind' = (a = Broken /\ data # Unknown)
        /\ Becomes(IF data = Unknown THEN Nobody ELSE data)
        /\ UNCHANGED <<server, cookie, watching, from, gets, cached, form, loads>>

SetupRead ==
    /\ setup.get = Sent
    /\ setup' = [setup EXCEPT !.get = Status]
    /\ UNCHANGED <<server, cookie, me, watching, behind, shown, path, from, step, gets, cached, form, loads>>

SetupArrives ==
    /\ setup.get \notin {Idle, Sent}
    /\ Render(path, shown, [data |-> setup.get, get |-> Idle, gone |-> FALSE])
    /\ UNCHANGED <<server, cookie, me, watching, behind, from, gets, cached, form, loads>>

\* A page of the app asks for its data.
Opens(i) ==
    /\ InApp
    /\ gets[i] = NoGet
    /\ gets' = [gets EXCEPT ![i] = [session |-> cookie, answer |-> Sent, live |-> TRUE]]
    /\ UNCHANGED <<server, cookie, me, setup, watching, behind, shown, path, from, step, cached, form, loads>>

GetRead(i) ==
    /\ gets[i].answer = Sent
    /\ \E a \in Lookup(gets[i].session) : gets' = [gets EXCEPT ![i].answer = a]
    /\ UNCHANGED <<server, cookie, me, setup, watching, behind, shown, path, from, step, cached, form, loads>>

\* onUnauthorized: a user that is cached becomes null.
Unauthorized ==
    IF SignedIn(me.data)
    THEN me' = [me EXCEPT !.data = Nobody] /\ Becomes(Nobody)
    ELSE UNCHANGED <<me, path, shown, setup, step>>

\* A request whose query is gone from the cache still runs into the 401 handler.
GetArrives(i) ==
    /\ gets[i].answer \notin {Idle, Sent}
    /\ gets' = [gets EXCEPT ![i] = NoGet]
    /\ IF gets[i].answer \in {Nobody, Mistaken}
       THEN Unauthorized /\ UNCHANGED cached
       ELSE /\ cached' = IF gets[i].live /\ gets[i].answer # Broken
                         THEN cached \cup {gets[i].answer} ELSE cached
            /\ UNCHANGED <<me, path, shown, setup, step>>
    /\ UNCHANGED <<server, cookie, watching, behind, from, form, loads>>

-----------------------------------------------------------------------------
(* Forms *)

\* The form that is there.
Offered(kind) ==
    CASE kind = "login" -> path = "login" /\ Target = path
      [] kind = "invite" -> path = "invite"
      [] kind = "account" -> step = 0
      [] kind = "finish" -> step = 2
      [] kind \in {"password", "logout"} -> InApp

Submit(kind, u, right) ==
    /\ form = NoForm
    /\ Offered(kind)
    /\ Early \/ me.get = NoFlight
    /\ kind \notin {"finish", "logout"} => issued < MaxSessions
    /\ kind \in {"account", "finish", "logout"} => right
    /\ kind \in {"password", "finish", "logout"} => u = Nobody
    /\ kind \in SignIns => u \in Users
    /\ kind = "password" /\ ~right => Mistypes
    /\ form' = [kind |-> kind, user |-> u, right |-> right, session |-> cookie,
                phase |-> Sent, answer |-> Idle]
    /\ UNCHANGED <<server, cookie, me, setup, watching, behind, shown, path, from, step, gets, cached, loads>>

\* The server's handler.  A new password ends every session of its user.
FormHandled ==
    LET answer == Answer(form)
        ok == answer = "ok"
        user == IF form.kind \in SignIns THEN form.user ELSE Holder(form.session)
        issues == ok /\ form.kind \in SignIns \cup {"password"}
        ends == CASE form.kind = "password" /\ ok -> {s \in Sessions : owner[s] = user}
                  [] form.kind = "logout" /\ ok -> {form.session}
                  [] OTHER -> {}
    IN  /\ form.phase = Sent
        /\ issues => issued < MaxSessions
        /\ form' = [form EXCEPT !.phase = "answered", !.answer = answer,
                                !.session = IF issues THEN issued + 1 ELSE form.session]
        /\ accounts' = IF ok /\ form.kind \in SignIns THEN accounts \cup {user} ELSE accounts
        /\ admin' = IF ok /\ accounts = {} THEN user ELSE admin
        /\ completed' = (completed \/ (ok /\ form.kind = "finish"))
        /\ issued' = IF issues THEN issued + 1 ELSE issued
        /\ owner' = [s \in Sessions |-> IF issues /\ s = issued + 1 THEN user
                                        ELSE IF s \in ends THEN Nobody ELSE owner[s]]
        /\ UNCHANGED <<cookie, me, setup, watching, behind, shown, path, from, step, gets, cached, loads>>

\* The server is down, or RequireUser does not find the session for an error.
FormLost ==
    /\ form.phase = Sent
    /\ \E answer \in {"500"} \cup IF ServerMayFail /\ form.kind \in {"password", "logout"}
                                  THEN {Mistaken} ELSE {} :
           form' = [form EXCEPT !.phase = "answered", !.answer = answer]
    /\ UNCHANGED <<server, cookie, me, setup, watching, behind, shown, path, from, step, gets, cached, loads>>

Dropped == [i \in DOMAIN gets |-> IF gets[i] = NoGet THEN NoGet ELSE [gets[i] EXCEPT !.live = FALSE]]

\* The routes that show the status do not render: they keep the one they have.
Removed ==
    IF path \in {"app", "admin", "setup"} THEN [setup EXCEPT !.get = Idle, !.gone = TRUE] ELSE NoSetup

\* invalidateQueries of an entry that is watched; the first fetch is not repeated.
MeAgain ==
    IF ~watching \/ (me.data = Unknown /\ me.get # NoFlight) THEN me
    ELSE [me EXCEPT !.get = [session |-> cookie', answer |-> Sent]]
SetupAgain ==
    IF setup.gone \/ setup.data = Unknown \/ path \in {"login", "invite"} THEN setup
    ELSE [setup EXCEPT !.get = Sent]

\* Mistake: the cache of the user before is kept.
SignedInKeeps ==
    /\ form.phase = "answered" /\ form.kind \in SignIns /\ form.answer = "ok"
    /\ cookie' = form.session
    /\ me' = MeAgain
    /\ form' = [form EXCEPT !.phase = "me"]
    /\ UNCHANGED <<server, setup, watching, behind, shown, path, from, step, gets, cached, loads>>

\* login and register: refresh drops everything but /api/me, and asks for that,
\* which is loading again if there is no data of it.
SignedInArrives ==
    /\ form.phase = "answered" /\ form.kind \in SignIns /\ form.answer = "ok"
    /\ cookie' = form.session
    /\ gets' = Dropped /\ cached' = {}
    /\ IF me.data = Unknown /\ shown = Nobody
       THEN Render(path, Unknown, Removed)
       ELSE setup' = Removed /\ UNCHANGED <<path, shown, step>>
    /\ me' = MeAgain
    /\ form' = [form EXCEPT !.phase = "me"]
    /\ UNCHANGED <<server, watching, behind, from, loads>>

\* The password's answer brings the new cookie, nothing is fetched again.
PasswordArrives ==
    /\ form.phase = "answered" /\ form.kind = "password" /\ form.answer = "ok"
    /\ cookie' = form.session
    /\ form' = NoForm
    /\ UNCHANGED <<server, me, setup, watching, behind, shown, path, from, step, gets, cached, loads>>

\* PlaylistStep.finish goes on whatever is answered.
FinishArrives ==
    /\ form.phase = "answered" /\ form.kind = "finish"
    /\ setup' = SetupAgain
    /\ form' = [form EXCEPT !.phase = "setup"]
    /\ UNCHANGED <<server, cookie, me, watching, behind, shown, path, from, step, gets, cached, loads>>

\* logout: clear leaves AuthProvider with what it showed last.  After a 401 it
\* has a null to render, and comes back to the entry that is cached then.
LogoutArrives ==
    LET out == form.answer \in {"401", Mistaken} /\ SignedIn(me.data) /\ watching
    IN  /\ form.phase = "answered" /\ form.kind = "logout"
        /\ cookie' = IF form.answer = "ok" THEN 0 ELSE cookie
        /\ gets' = Dropped /\ cached' = {}
        /\ me' = [data |-> Nobody, get |-> NoFlight]
        /\ watching' = out
        /\ IF out THEN Render(path, Nobody, Removed)
           ELSE setup' = Removed /\ UNCHANGED <<path, shown, step>>
        /\ form' = NoForm
        /\ UNCHANGED <<server, behind, from, loads>>

\* Mistake: every error is taken for a 401.
RefusedAnyError ==
    /\ form.phase = "answered" /\ form.answer # "ok" /\ form.kind \notin {"finish", "logout"}
    /\ Unauthorized
    /\ form' = NoForm
    /\ UNCHANGED <<server, cookie, watching, behind, from, gets, cached, loads>>

\* Any other answer is an error the form shows; a 401 has been handled.
Refused ==
    /\ form.phase = "answered" /\ form.answer # "ok" /\ form.kind \notin {"finish", "logout"}
    /\ IF form.answer \in {"401", Mistaken} THEN Unauthorized ELSE UNCHANGED <<me, path, shown, setup, step>>
    /\ form' = NoForm
    /\ UNCHANGED <<server, cookie, watching, behind, from, gets, cached, loads>>

\* refresh, its first await over.
MeAwaited ==
    /\ form.phase = "me" /\ me.get = NoFlight
    /\ setup' = SetupAgain
    /\ form' = [form EXCEPT !.phase = "setup"]
    /\ UNCHANGED <<server, cookie, me, watching, behind, shown, path, from, step, gets, cached, loads>>

\* What the form's page does then: navigate, or the wizard's next step where
\* its first one is still there.
FormDone ==
    /\ form.phase = "setup" /\ setup.get = Idle
    /\ CASE form.kind = "account" ->
              /\ step' = IF step = 0 /\ setup.gone THEN 1 ELSE step
              /\ UNCHANGED <<path, shown, setup>>
         [] form.kind = "login" -> Render(from, shown, setup)
         [] OTHER -> Render("app", shown, setup)
    /\ form' = NoForm
    /\ UNCHANGED <<server, cookie, me, watching, behind, from, gets, cached, loads>>

\* ScanStep's button.
WizardNext ==
    /\ step = 1
    /\ step' = 2
    /\ UNCHANGED <<server, cookie, me, setup, watching, behind, shown, path, from, gets, cached, form, loads>>

-----------------------------------------------------------------------------
(* Other browsers, and time *)

OtherRegisters(u) ==
    /\ accounts = {}
    /\ accounts' = {u} /\ admin' = u
    /\ UNCHANGED <<completed, owner, issued, cookie, me, setup, watching, behind, shown, path, from, step,
                   gets, cached, form, loads>>

OtherFinishes ==
    /\ accounts # {} /\ ~completed
    /\ completed' = TRUE
    /\ UNCHANGED <<accounts, admin, owner, issued, cookie, me, setup, watching, behind, shown, path, from,
                   step, gets, cached, form, loads>>

SessionEnds(s) ==
    /\ owner[s] # Nobody
    /\ owner' = [owner EXCEPT ![s] = Nobody]
    /\ UNCHANGED <<accounts, admin, completed, issued, cookie, me, setup, watching, behind, shown, path,
                   from, step, gets, cached, form, loads>>

Browser ==
    \/ Redirects \/ MeRead \/ MeArrives \/ SetupRead \/ SetupArrives
    \/ FormHandled \/ SignedInArrives \/ PasswordArrives \/ FinishArrives \/ LogoutArrives
    \/ Refused \/ MeAwaited \/ FormDone

Next ==
    \/ Browser
    \/ FormLost \/ WizardNext \/ OtherFinishes
    \/ \E p \in Paths : Loads(p)
    \/ \E i \in DOMAIN gets : Opens(i) \/ GetRead(i) \/ GetArrives(i)
    \/ \E kind \in {"login", "invite", "account", "finish", "password", "logout"},
          u \in Users \cup {Nobody}, right \in BOOLEAN : Submit(kind, u, right)
    \/ \E u \in Users : OtherRegisters(u)
    \/ \E s \in Sessions : SessionEnds(s)

\* Requests are answered and renders happen.
Spec == Init /\ [][Next]_vars /\ WF_vars(Browser)
-----------------------------------------------------------------------------
(* Properties *)

\* Every variable holds a value of its kind.
SessionTypeOK ==
    /\ accounts \subseteq Users /\ admin \in accounts \cup {Nobody} /\ completed \in BOOLEAN
    /\ owner \in [Sessions -> Users \cup {Nobody}] /\ issued \in 0 .. MaxSessions
    /\ cookie \in 0 .. issued
    /\ me.data \in Users \cup {Nobody, Unknown} /\ me.get.session \in 0 .. issued
    /\ setup.data \in {"fresh", "open", "done", Unknown} /\ setup.gone \in BOOLEAN
    /\ shown \in Users \cup {Nobody, Unknown} /\ watching \in BOOLEAN /\ behind \in BOOLEAN
    /\ path \in Paths /\ from \in {"app", "admin"} /\ step \in {NoStep, 0, 1, 2}
    /\ cached \subseteq Users /\ loads \in 0 .. MaxLoads

\* The app shows its user's data only: nothing cached for the one before is left
\* (refresh and logout in auth.tsx), however sessions end and requests overlap,
\* as long as /api/me is answered.
CacheIsOwn == InApp /\ ~behind => cached \subseteq {shown}

\* The same when it is not.
CacheAlwaysOwn == InApp => cached \subseteq {shown}

\* A spinner has an answer to wait for (RequireUser, SetupPage).
SpinnerIsAwaited ==
    /\ Loading => me.get # NoFlight
    /\ path \in {"app", "admin", "setup"} /\ setup.data = Unknown => setup.get # Idle

\* The routes do not send a visitor in a circle, whatever is cached.
NoRedirectLoop ==
    LET To(p) == Route(p, shown, setup.data)
        End(p) == To(To(To(p)))
    IN  To(End(path)) = End(path)

\* The wizard's later steps are there for the admin only: after an error that
\* hides who is signed in, or when the session ends, never for another user.
WizardIsAdmins == step > 0 => shown = admin \/ Holder(cookie) \in {admin, Nobody}

\* A user whose session is alive is sent to the login page only by a 401 that
\* is about something else: an earlier session of this browser, an error of the
\* server, a password that was mistyped (UserFromRequest, ChangePassword).
ByEarlier == \E i \in DOMAIN gets :
    gets[i].session # cookie /\ gets[i].answer = Nobody /\ gets'[i] = NoGet
ByError ==
    \/ me.get.answer = Mistaken /\ me'.get = NoFlight
    \/ \E i \in DOMAIN gets : gets[i].answer = Mistaken /\ gets'[i] = NoGet
    \/ form.answer = Mistaken /\ form' = NoForm
ByMistyping == form.kind = "password" /\ ~form.right /\ form.answer = "401" /\ form' = NoForm
KeepsSession ==
    [][SignedIn(shown) /\ shown' = Nobody
       => Holder(cookie) = Nobody \/ ByEarlier \/ ByError \/ ByMistyping]_vars

\* Who signs in or registers comes to be shown as signed in, by the answer that
\* refresh waits for, unless the session ends.
SigningIn(s) ==
    form.kind \in SignIns /\ form.phase = "answered" /\ form.answer = "ok" /\ form.session = s
SignInReaches ==
    \A s \in Sessions, n \in 0 .. MaxLoads :
        SigningIn(s) /\ watching /\ loads = n
            ~> shown = owner[s] \/ owner[s] = Nobody \/ loads > n

\* A change of password leaves this browser signed in (Settings.tsx:85, "Signs
\* out every other browser and app.").
SignsOutOthersOnly ==
    [][form.kind = "password" /\ form.phase = "answered" /\ SignedIn(shown)
       => shown' # Nobody]_vars

\* The same of a user's live session, whatever answers are still out
\* (client.ts:14, "Called on 401 so the app can drop back to the login page").
KeepsLiveSession == [][SignedIn(shown) /\ shown' = Nobody => Holder(cookie) = Nobody]_vars

\* Who is known to be signed out is not shown as signed in (logout, auth.tsx:55).
SignedOutShows == me.data = Nobody => ~SignedIn(shown)
=============================================================================
