--------------------------- MODULE WebSessionProofs ---------------------------
(***************************************************************************)
(* For any users, sessions, page loads and requests in flight: a signed-in *)
(* user sees no one else's data while /api/me is answered, the routes send *)
(* nobody in a circle, every spinner has an answer coming, the wizard is   *)
(* for the admin, and who is put out had no session any more or a 401 that *)
(* is about something else.                                                *)
(*                                                                         *)
(* Forms are sent after the first /api/me is answered (~Early): no page    *)
(* waits for that, but filling in a form takes longer than the answer.     *)
(***************************************************************************)
EXTENDS WebSession, TLAPS

Tokens == 0 .. issued
Requests == 1 .. MaxGets
Errors == {Mistaken, Broken}
Answers == accounts \cup {Nobody, Idle, Sent} \cup Errors
Statuses == {"fresh", "open", "done"}
Kinds == SignIns \cup {"none", "finish", "password", "logout"}
Phases == {Idle, Sent, "answered", "me", "setup"}
Replies == {Idle, "ok", "401", "403", "500", Mistaken}
Forms == [kind : Kinds, user : Users \cup {Nobody}, right : BOOLEAN, session : Nat,
          phase : Phases, answer : Replies]
Setups == [data : Statuses \cup {Unknown}, get : Statuses \cup {Idle, Sent}, gone : BOOLEAN]

\* What a session or an answer names is an account or nobody.
Typed ==
    /\ accounts \subseteq Users /\ issued \in 0 .. MaxSessions /\ cookie \in Tokens
    /\ owner \in [Sessions -> accounts \cup {Nobody}]
    /\ me \in [data : accounts \cup {Nobody, Unknown}, get : [session : Tokens, answer : Answers]]
    /\ shown \in accounts \cup {Nobody, Unknown} /\ watching \in BOOLEAN /\ behind \in BOOLEAN
    /\ path \in Paths /\ from \in {"app", "admin"}
    /\ gets \in [Requests -> [session : Tokens, answer : Answers, live : BOOLEAN]]
    /\ cached \subseteq accounts
    /\ form \in Forms /\ form.session \in Tokens
    /\ setup \in Setups

\* Whose data a request brings.
Brings(g) == IF g.answer = Sent THEN Holder(g.session) ELSE g.answer

\* What is cached, or comes, is the shown user's.
Own ==
    SignedIn(shown) /\ ~behind =>
        /\ cached \subseteq {shown}
        /\ \A i \in Requests : gets[i].live => Brings(gets[i]) \in {shown, Nobody} \cup Errors

Empty == cached = {} /\ \A i \in Requests : ~gets[i].live

\* While the answer is out that may name another user, nothing is cached.
Asked ==
    me.get # NoFlight =>
        /\ Empty /\ me.get.session = cookie
        /\ \/ shown = Unknown
           \/ form.phase = "me" /\ form.kind \in SignIns /\ (SignedIn(shown) => path = "invite")

Loaded ==
    shown = Unknown =>
        me.get # NoFlight /\ me.data = Unknown /\ (form = NoForm \/ form.phase = "me") /\ watching

\* What the observer shows is what is cached; null if nothing is.
Agree ==
    IF ~watching THEN me.data # Unknown /\ me.get = NoFlight
    ELSE IF me.data = Unknown THEN shown \in {Unknown, Nobody}
    ELSE shown = me.data

\* Sessions only end: an answer that names a user may be too late, one that
\* names none is not.
Holds(g) ==
    /\ g.answer \in Users => Holder(g.session) \in {g.answer, Nobody}
    /\ g.answer = Nobody => Holder(g.session) = Nobody
Told == Holds(me.get) /\ \A i \in Requests : Holds(gets[i])

\* The cookie is the shown user's, but for one who just signed in on an invite.
Mine == SignedIn(shown) /\ me.get = NoFlight /\ ~behind => Holder(cookie) \in {shown, Nobody}

\* Where each form may still be, and what its answer can be.
Filled ==
    /\ form = NoForm \/ (form.phase # Idle /\ form.kind # "none")
    /\ path = "invite" => watching
    /\ form.kind \in SignIns => form.user \in Users
    /\ form.kind = "invite" => path = "invite"
    /\ form.kind = "logout" => path # "invite"
    /\ form.kind = "login" /\ form.phase \in {Sent, "answered"} => ~SignedIn(shown) /\ path = "login"
    /\ form.phase = Sent => form.session = cookie
    /\ form.phase \in {"me", "setup"} => form.kind \in SignIns \cup {"finish"}
    /\ form.kind = "logout" => form.right
    /\ form.phase = "answered" /\ form.answer = "ok" =>
         /\ accounts # {}
         /\ form.kind = "account" => ~SignedIn(shown)
         /\ form.kind = "password" /\ SignedIn(shown) /\ ~behind => Holder(form.session) \in {shown, Nobody}
    /\ form.phase = "answered" /\ form.answer # "ok" => form.session = cookie
    /\ form.phase = "answered" /\ form.answer \in {"401", Mistaken} =>
         /\ form.kind \in {"login", "password", "logout"}
         /\ form.kind = "login" => form.answer = "401"
         /\ form.answer = "401" /\ form.kind \in {"password", "logout"} =>
              Holder(form.session) = Nobody \/ ~form.right

\* The status of an empty server is not cached beside a user, or about to be.
Fresh == "fresh" \in {setup.data, setup.get}
Unfresh ==
    /\ SignedIn(shown) => ~Fresh
    /\ setup.gone => setup.get = Idle
    /\ Fresh /\ ~setup.gone =>
         /\ Holder(cookie) = Nobody /\ me.get.answer \notin Users
         /\ form.kind = "password" /\ form.phase = "answered" => form.answer # "ok"

SInv == Typed /\ Own /\ Asked /\ Loaded /\ Agree /\ Told /\ Mine /\ Filled /\ Unfresh

-----------------------------------------------------------------------------
(* Lemmas *)

LEMMA Names ==
    /\ Nobody \notin Users /\ Unknown \notin Users \cup {Nobody}
    /\ Idle \notin Users \cup {Nobody} /\ Sent \notin Users \cup {Nobody}
    /\ Idle # Sent /\ Unknown # Idle /\ Unknown # Sent
    /\ \A e \in Errors : e \notin Users \cup {Nobody, Unknown, Idle, Sent}
    /\ Mistaken # Broken
BY WebSessionConstants DEF Unknown, Idle, Sent, Errors, Mistaken, Broken

\* While a form waits for its answer or was just answered, /api/me is not out.
LEMMA FormAlone ==
    ASSUME SInv, form.phase \in {Sent, "answered", "setup"}
    PROVE  me.get = NoFlight /\ shown # Unknown
<1>1. form # NoForm
  BY DEF NoForm, Idle, Sent
<1>2. shown # Unknown
  BY <1>1 DEF SInv, Loaded, Sent
<1> QED BY <1>2 DEF SInv, Asked, Sent

LEMMA RouteInvite ==
    ASSUME SInv
    PROVE  Target \in Paths /\ (Target = "invite" <=> path = "invite")
BY DEF SInv, Typed, Target, Route, RequireUser, SetupPage, Paths

LEMMA HolderTyped ==
    ASSUME Typed, NEW s \in Tokens
    PROVE  Holder(s) \in accounts \cup {Nobody} /\ (s # 0 => s \in Sessions)
<1>1. s # 0 => s \in Sessions
  BY WebSessionConstants DEF Typed, Tokens, Sessions
<1> QED BY <1>1 DEF Typed, Holder

\* A render shows what it is given; it keeps a status that is in the cache, or
\* asks for it.
LEMMA RenderFacts ==
    ASSUME NEW p, NEW u, NEW s \in Setups, Render(p, u, s)
    PROVE  /\ path' = p /\ shown' = u /\ setup' \in Setups /\ setup'.gone = FALSE
           /\ Fresh' => ~s.gone /\ "fresh" \in {s.data, s.get}
<1> DEFINE new == [data |-> Unknown, get |-> Sent, gone |-> FALSE]
<1>1. new \in Setups /\ new.gone = FALSE /\ new.data # "fresh" /\ new.get # "fresh"
  BY DEF Setups, Statuses, Unknown, Sent
<1>2. NoSetup \in Setups /\ NoSetup.gone = FALSE /\ NoSetup.data # "fresh" /\ NoSetup.get # "fresh"
  BY DEF Setups, Statuses, Unknown, Idle, NoSetup
<1>3. Watched(p, s) \in {new, NoSetup} \/ (Watched(p, s) = s /\ s.gone = FALSE)
  BY DEF Watched, Setups
<1> HIDE DEF new
<1>4. setup' = Watched(p, s) /\ path' = p /\ shown' = u
  BY DEF Render
<1> QED BY <1>1, <1>2, <1>3, <1>4 DEF Fresh

LEMMA BecomesFacts ==
    ASSUME SInv, NEW d, Becomes(d)
    PROVE  /\ path' = path /\ shown' = (IF watching THEN d ELSE shown)
           /\ setup' \in Setups /\ (setup'.gone => setup' = setup)
           /\ Fresh' => Fresh /\ (~setup.gone \/ shown' = shown)
<1>1. setup \in Setups
  BY DEF SInv, Typed
<1>2. CASE UNCHANGED <<path, shown, setup>> /\ shown = (IF watching THEN d ELSE shown)
  BY <1>1, <1>2 DEF Fresh
<1>3. CASE Render(path, IF watching THEN d ELSE shown, setup)
  BY <1>1, <1>3, RenderFacts DEF Fresh
<1> QED BY <1>2, <1>3 DEF Becomes

\* A 401 signs out whoever is cached, and shows it.
LEMMA UnauthorizedFacts ==
    ASSUME SInv, Unauthorized
    PROVE  /\ path' = path /\ shown' \in {shown, Nobody} /\ (shown = Unknown => shown' = shown)
           /\ me' \in [data : accounts \cup {Nobody, Unknown}, get : [session : Tokens, answer : Answers]]
           /\ me'.get = me.get /\ (shown = Unknown => me' = me)
           /\ IF SignedIn(me.data) THEN me'.data = Nobody /\ (watching => shown' = Nobody)
              ELSE me' = me /\ shown' = shown
           /\ setup' \in Setups /\ (setup'.gone => setup' = setup)
           /\ Fresh' => Fresh /\ (~setup.gone \/ shown' = shown)
<1>1. CASE SignedIn(me.data)
  <2>1. me' = [me EXCEPT !.data = Nobody] /\ Becomes(Nobody)
    BY <1>1 DEF Unauthorized
  <2>2. shown # Unknown
    BY <1>1, Names DEF SInv, Loaded, SignedIn
  <2> QED BY <1>1, <2>1, <2>2, BecomesFacts DEF SInv, Typed
<1>2. CASE ~SignedIn(me.data)
  BY <1>2 DEF Unauthorized, SInv, Typed, Fresh
<1> QED BY <1>1, <1>2

\* A form that has gone on.
Gone(f, ph, an, n) ==
    [kind |-> f.kind, user |-> f.user, right |-> f.right, session |-> n, phase |-> ph, answer |-> an]

LEMMA GoneFacts ==
    ASSUME NEW f \in Forms, NEW ph \in Phases, NEW an \in Replies, NEW n \in Nat,
           NEW g, g = Gone(f, ph, an, n)
    PROVE  /\ g \in Forms /\ g.kind = f.kind /\ g.right = f.right /\ g.user = f.user
           /\ g.phase = ph /\ g.answer = an /\ g.session = n
BY DEF Forms, Gone

LEMMA NoFormTyped == NoForm \in Forms /\ NoForm.session = 0 /\ NoForm.phase = Idle /\ NoForm.kind = "none"
BY DEF Forms, NoForm, Kinds, Phases, Replies, Idle

-----------------------------------------------------------------------------
(* Requests are read *)

LEMMA MeReadInv ==
    ASSUME SInv, MeRead
    PROVE  SInv'
<1> PICK h \in Lookup(me.get.session) : me' = [me EXCEPT !.get.answer = h]
  BY DEF MeRead
<1> DEFINE g == [session |-> me.get.session, answer |-> h]
<1>1. Typed /\ me.get.session \in Tokens /\ me.get.answer = Sent
  BY DEF SInv, Typed, MeRead
<1>8. h \in {Holder(me.get.session)} \cup Errors
  BY DEF Lookup, Errors
<1>2. h \in accounts \cup {Nobody} \cup Errors
  BY <1>1, <1>8, HolderTyped
<1>3. me' = [data |-> me.data, get |-> g]
  BY <1>1 DEF MeRead, Typed
<1>4. Typed'
  BY <1>1, <1>2, <1>3 DEF Typed, MeRead, server, Tokens, Answers, Forms, Kinds
<1>5. me'.data = me.data /\ me'.get.session = me.get.session /\ me'.get.answer = h
      /\ me'.get # NoFlight /\ me.get # NoFlight
  BY <1>1, <1>2, <1>3, Names DEF NoFlight, Typed
<1>6. Holds(me.get)'
  BY <1>5, <1>8, Names DEF Holds, Holder, MeRead, server
<1>7. UNCHANGED <<server, cookie, setup, watching, behind, shown, path, from, gets, cached, form>>
  BY DEF MeRead
<1> HIDE DEF g
<1>9. Own' /\ Asked' /\ Loaded' /\ Agree' /\ Told' /\ Mine' /\ Filled'
  BY <1>5, <1>6, <1>7 DEF SInv, server, Own, Agree, Asked, Empty, Loaded, Told, Holds, Mine, Filled, Brings, Holder, Requests
<1>10. Unfresh'
  <2>1. me.get.session = cookie
    BY <1>5 DEF SInv, Asked
  <2>2. Holder(cookie)' = Holder(cookie) /\ Fresh' = Fresh
    BY <1>7 DEF Holder, server, Fresh
  <2> QED BY <1>5, <1>7, <1>8, <2>1, <2>2, Names DEF SInv, Unfresh
<1> QED BY <1>4, <1>9, <1>10 DEF SInv

LEMMA SetupReadInv ==
    ASSUME SInv, SetupRead
    PROVE  SInv'
<1>1. UNCHANGED <<server, cookie, me, watching, behind, shown, path, from, gets, cached, form>>
  BY DEF SetupRead
<1>2. Status \in Statuses /\ (Status = "fresh" => accounts = {})
  BY DEF Status, Statuses
<1>3. setup \in Setups /\ setup.get = Sent
  BY DEF SInv, Typed, SetupRead
<1>4. /\ setup' = [data |-> setup.data, get |-> Status, gone |-> setup.gone]
      /\ setup' \in Setups
  BY <1>2, <1>3 DEF Setups, SetupRead
<1>5. Typed'
  BY <1>1, <1>4 DEF SInv, server, Typed, Tokens, Answers
<1>6. Own' /\ Asked' /\ Loaded' /\ Agree' /\ Told' /\ Mine' /\ Filled'
  BY <1>1 DEF SInv, server, Own, Agree, Asked, Empty, Loaded, Told, Holds, Mine, Filled, Brings, Holder, Requests
<1>7. ~setup.gone
  BY <1>3, Names DEF SInv, Unfresh
<1>8. CASE accounts = {}
  <2>1. Holder(cookie) = Nobody /\ ~SignedIn(shown) /\ me.get.answer \notin Users
    BY <1>8, HolderTyped, Names DEF SInv, Typed, SignedIn, Answers
  <2>2. form.phase = "answered" => form.answer # "ok"
    BY <1>8 DEF SInv, Filled
  <2>3. Unfresh'
    BY <1>1, <1>4, <1>7, <2>1, <2>2 DEF Unfresh, Holder, server
  <2> QED BY <1>5, <1>6, <2>3 DEF SInv
<1>9. CASE accounts # {}
  <2>1. Fresh' => Fresh
    BY <1>2, <1>4, <1>9 DEF Fresh
  <2>2. Unfresh'
    BY <1>1, <1>4, <1>7, <2>1 DEF SInv, Unfresh, Holder, server
  <2> QED BY <1>5, <1>6, <2>2 DEF SInv
<1> QED BY <1>8, <1>9

LEMMA OpensInv ==
    ASSUME SInv, NEW i \in Requests, Opens(i)
    PROVE  SInv'
<1>1. me.get = NoFlight
  BY Names DEF SInv, Asked, Opens, InApp, SignedIn
<1>2. UNCHANGED <<server, cookie, me, setup, watching, behind, shown, path, from, cached, form>>
  BY DEF Opens
<1>3. Typed'
  BY <1>2 DEF SInv, server, Opens, Typed, Tokens, Answers
<1>4. Own'
  <2>1. ~behind => Holder(cookie) \in {shown, Nobody}
    BY <1>1 DEF SInv, Mine, Opens, InApp
  <2> QED BY <1>2, <2>1 DEF SInv, server, Opens, Typed, Own, Brings, Holder
<1>5. Told'
  BY <1>2, Names DEF SInv, server, Opens, Typed, Told, Holds, Holder
<1>6. Asked' /\ Loaded' /\ Agree' /\ Mine' /\ Filled' /\ Unfresh'
  BY <1>1, <1>2 DEF SInv, server, Asked, Loaded, Agree, Mine, Filled, Unfresh, Fresh, Holder
<1> QED BY <1>3, <1>4, <1>5, <1>6 DEF SInv

LEMMA GetReadInv ==
    ASSUME SInv, NEW i \in Requests, GetRead(i)
    PROVE  SInv'
<1> PICK h \in Lookup(gets[i].session) : gets' = [gets EXCEPT ![i].answer = h]
  BY DEF GetRead
<1> DEFINE g == [session |-> gets[i].session, answer |-> h, live |-> gets[i].live]
<1>1. Typed /\ gets[i].session \in Tokens /\ gets[i].answer = Sent
      /\ gets[i] \in [session : Tokens, answer : Answers, live : BOOLEAN]
  BY DEF SInv, Typed, GetRead
<1>11. h \in {Holder(gets[i].session)} \cup Errors
  BY DEF Lookup, Errors
<1>2. h \in accounts \cup {Nobody} \cup Errors
  BY <1>1, <1>11, HolderTyped
<1>3. gets' = [gets EXCEPT ![i] = g]
  <2>1. gets' = [gets EXCEPT ![i] = [gets[i] EXCEPT !.answer = h]]
    BY <1>1 DEF GetRead
  <2>2. [gets[i] EXCEPT !.answer = h] = g
    BY <1>1
  <2> QED BY <2>1, <2>2
<1>4. UNCHANGED <<server, cookie, me, setup, watching, behind, shown, path, from, cached, form>>
  BY DEF GetRead
<1>5. g \in [session : Tokens, answer : Answers, live : BOOLEAN]
  BY <1>1, <1>2 DEF Answers
<1>6. g.live = gets[i].live /\ Brings(g) \in {Brings(gets[i])} \cup Errors /\ Holds(g)
  BY <1>1, <1>2, <1>11, Names DEF Brings, Holds
<1> HIDE DEF g
<1>7. gets' \in [Requests -> [session : Tokens, answer : Answers, live : BOOLEAN]]
  BY <1>1, <1>3, <1>5 DEF Typed
<1>8. Typed'
  BY <1>4, <1>7 DEF SInv, server, Typed, Tokens, Answers
<1>9. \A j \in Requests : /\ gets'[j].live = gets[j].live
                          /\ Brings(gets[j])' \in {Brings(gets[j])} \cup Errors
                          /\ Holds(gets[j])'
  BY <1>1, <1>3, <1>4, <1>6 DEF SInv, Told, Typed, Brings, Holds, Holder, server
<1>10. Own' /\ Asked' /\ Loaded' /\ Agree' /\ Told' /\ Mine' /\ Filled' /\ Unfresh'
  <2>1. Own' /\ Asked' /\ Loaded' /\ Agree'
    BY <1>4, <1>9 DEF SInv, Own, Asked, Empty, Loaded, Agree
  <2>2. Told'
    BY <1>4, <1>9 DEF SInv, Told, Holds, Holder, server
  <2>3. Mine' /\ Filled' /\ Unfresh'
    BY <1>4 DEF SInv, Mine, Filled, Unfresh, Fresh, Holder, server
  <2> QED BY <2>1, <2>2, <2>3
<1> QED BY <1>8, <1>10 DEF SInv

-----------------------------------------------------------------------------
(* Answers arrive, pages load and redirect *)

LEMMA SetupArrivesInv ==
    ASSUME SInv, SetupArrives
    PROVE  SInv'
<1> DEFINE s == [data |-> setup.get, get |-> Idle, gone |-> FALSE]
<1>1. UNCHANGED <<server, cookie, me, watching, behind, from, gets, cached, form>> /\ Render(path, shown, s)
  BY DEF SetupArrives
<1>2. setup \in Setups /\ setup.get \notin {Idle, Sent}
  BY DEF SInv, Typed, SetupArrives
<1>3. s \in Setups /\ s.data = setup.get /\ s.get = Idle
  BY <1>2 DEF Setups
<1>4. ~setup.gone
  BY <1>2 DEF SInv, Unfresh
<1> HIDE DEF s
<1>5. /\ path' = path /\ shown' = shown /\ setup' \in Setups /\ setup'.gone = FALSE
      /\ Fresh' => "fresh" \in {s.data, s.get}
  BY <1>1, <1>3, RenderFacts
<1>6. Fresh' => Fresh
  BY <1>3, <1>5 DEF Fresh, Idle
<1>7. Typed' /\ Own' /\ Asked' /\ Loaded' /\ Agree'
  BY <1>1, <1>5 DEF SInv, server, Typed, Tokens, Answers, Own, Brings, Holder, Asked, Empty, Loaded, Agree
<1>8. Told' /\ Mine' /\ Filled'
  BY <1>1, <1>5 DEF SInv, server, Told, Holds, Holder, Mine, Filled
<1>9. Unfresh'
  BY <1>1, <1>4, <1>5, <1>6 DEF SInv, server, Unfresh, Holder
<1> QED BY <1>7, <1>8, <1>9 DEF SInv

LEMMA MeArrivesFacts ==
    ASSUME SInv, MeArrives
    PROVE  \E data, d :
             /\ data \in accounts \cup {Nobody, Unknown} /\ d \in accounts \cup {Nobody}
             /\ me' = [data |-> data, get |-> NoFlight] /\ Becomes(d)
             /\ d = IF data = Unknown THEN Nobody ELSE data
             /\ me.get.answer \in Users => data = me.get.answer
             /\ data \in Users => me.get.answer = data \/ (data = me.data /\ behind')
<1> DEFINE a == me.get.answer
           data == IF a = Mistaken THEN Nobody ELSE IF a = Broken THEN me.data ELSE a
           d == IF data = Unknown THEN Nobody ELSE data
<1>1. /\ a \notin {Idle, Sent} /\ me' = [data |-> data, get |-> NoFlight]
      /\ Becomes(d) /\ behind' = (a = Broken /\ data # Unknown)
  BY DEF MeArrives
<1>2. a \in accounts \cup {Nobody} \cup Errors /\ me.data \in accounts \cup {Nobody, Unknown}
      /\ accounts \subseteq Users
  BY <1>1 DEF SInv, Typed, Answers
<1>3. data \in accounts \cup {Nobody, Unknown} /\ d \in accounts \cup {Nobody}
  BY <1>2 DEF Errors
<1>4. a \in Users => data = a
  BY Names DEF Errors
<1>5. data \in Users => a = data \/ (data = me.data /\ behind')
  BY <1>1, Names DEF Errors
<1> HIDE DEF data
<1> QED BY <1>1, <1>3, <1>4, <1>5

LEMMA MeArrivesInv ==
    ASSUME SInv, MeArrives
    PROVE  SInv'
<1>1. UNCHANGED <<server, cookie, watching, from, gets, cached, form>> /\ behind' \in BOOLEAN
  BY DEF MeArrives
<1>2. PICK data, u :
        /\ data \in accounts \cup {Nobody, Unknown} /\ u \in accounts \cup {Nobody}
        /\ me' = [data |-> data, get |-> NoFlight] /\ Becomes(u)
        /\ u = IF data = Unknown THEN Nobody ELSE data
        /\ me.get.answer \in Users => data = me.get.answer
        /\ data \in Users => me.get.answer = data \/ (data = me.data /\ behind')
  BY MeArrivesFacts
<1>15. me.get # NoFlight
  BY DEF MeArrives, NoFlight
<1>3. /\ path' = path /\ shown' = (IF watching THEN u ELSE shown)
      /\ setup' \in Setups /\ (setup'.gone => setup' = setup)
      /\ Fresh' => Fresh /\ (~setup.gone \/ shown' = shown)
  BY <1>2, BecomesFacts
<1>4. Empty /\ me.get.session = cookie
  BY <1>15 DEF SInv, Asked
<1>5. watching
  BY <1>15 DEF SInv, Agree
<1>16. SignedIn(shown') => data \in Users /\ shown' = data
  BY <1>2, <1>3, <1>5, Names DEF SignedIn
<1>17. SignedIn(shown') => me.get.answer = shown' \/ (behind' /\ shown' = shown)
  BY <1>2, <1>5, <1>16, Names DEF SInv, Agree
<1>6. me'.data = data /\ me'.get = NoFlight /\ NoFlight.answer = Idle /\ NoFlight.session = 0
  BY <1>2 DEF NoFlight
<1>7. Typed'
  <2>1. NoFlight \in [session : Tokens, answer : Answers]
    BY DEF SInv, Typed, Tokens, Answers, NoFlight
  <2>2. shown' \in accounts \cup {Nobody, Unknown}
    BY <1>2, <1>3 DEF SInv, Typed
  <2>3. me' \in [data : accounts \cup {Nobody, Unknown}, get : [session : Tokens, answer : Answers]]
    BY <1>2, <2>1
  <2> QED BY <1>1, <1>3, <2>2, <2>3 DEF SInv, server, Typed, Tokens, Answers
<1>8. Own' /\ Asked'
  BY <1>1, <1>4, <1>6 DEF Own, Asked, Empty
<1>9. Loaded' /\ Agree'
  BY <1>1, <1>2, <1>3, <1>5, <1>6, Names DEF SInv, Typed, Loaded, Agree
<1>10. Told'
  BY <1>1, <1>6, Names DEF SInv, server, Told, Holds, Holder
<1>11. Mine'
  <2>1. me.get.answer \in Users => Holder(cookie) \in {me.get.answer, Nobody}
    BY <1>4 DEF SInv, Told, Holds
  <2> QED BY <1>1, <1>16, <1>17, <2>1 DEF Mine, Holder, server
<1>12. form.phase \notin {Sent, "answered"}
  BY <1>15, FormAlone
<1>13. Filled'
  BY <1>1, <1>3, <1>12 DEF SInv, Filled, server, Holder
<1>14. Unfresh'
  <2>1. SignedIn(shown') => ~Fresh'
    <3>1. SignedIn(shown) => ~Fresh
      BY DEF SInv, Unfresh
    <3>2. me.get.answer \in Users => ~(Fresh /\ ~setup.gone)
      BY DEF SInv, Unfresh
    <3> QED BY <1>3, <1>16, <1>17, <3>1, <3>2
  <2>2. setup'.gone => setup'.get = Idle
    BY <1>3 DEF SInv, Unfresh
  <2>3. Fresh' /\ ~setup'.gone => Fresh
    BY <1>3
  <2>4. Holder(cookie)' = Holder(cookie)
    BY <1>1 DEF Holder, server
  <2>5. Fresh /\ setup.gone /\ shown' = shown => setup' = setup
    BY <1>2, <1>5 DEF Becomes, Render
  <2> QED BY <1>1, <1>3, <1>6, <2>1, <2>2, <2>3, <2>4, <2>5, Names DEF SInv, Unfresh
<1> QED BY <1>7, <1>8, <1>9, <1>10, <1>11, <1>13, <1>14 DEF SInv

\* What a 401 changes keeps the invariant, with requests and the form as they
\* are or taken back.
LEMMA UnauthorizedInv ==
    ASSUME SInv, Unauthorized, UNCHANGED <<server, cookie, watching, behind, from>>,
           gets' \in [Requests -> [session : Tokens, answer : Answers, live : BOOLEAN]],
           \A i \in Requests : gets'[i].live => gets[i].live /\ gets'[i] = gets[i],
           \A i \in Requests : gets'[i] = gets[i] \/ gets'[i] = NoGet,
           cached' = cached, form' = form \/ (form' = NoForm /\ form.phase = "answered")
    PROVE  SInv'
<1>1. /\ path' = path /\ shown' \in {shown, Nobody} /\ (shown = Unknown => shown' = shown)
      /\ me' \in [data : accounts \cup {Nobody, Unknown}, get : [session : Tokens, answer : Answers]]
      /\ me'.get = me.get /\ (shown = Unknown => me' = me)
      /\ IF SignedIn(me.data) THEN me'.data = Nobody /\ (watching => shown' = Nobody)
         ELSE me' = me /\ shown' = shown
      /\ setup' \in Setups /\ (setup'.gone => setup' = setup)
      /\ Fresh' => Fresh /\ (~setup.gone \/ shown' = shown)
  BY UnauthorizedFacts
<1>2. SignedIn(shown') => shown' = shown
  BY <1>1, Names DEF SignedIn
<1>3. Typed'
  BY <1>1, NoFormTyped DEF SInv, server, Typed, Tokens, Answers
<1>4. Own'
  BY <1>2 DEF SInv, server, Own, Brings, Holder
<1>5. Asked' /\ Loaded' /\ Agree'
  <2>1. Empty => Empty'
    BY DEF Empty
  <2>2. form' = form \/ (me.get = NoFlight /\ shown # Unknown)
    BY FormAlone
  <2>3. Agree'
    BY <1>1, Names DEF SInv, Agree
  <2> QED BY <1>1, <1>2, <2>1, <2>2, <2>3, Names DEF SInv, Asked, Loaded
<1>6. Told'
  BY <1>1, Names DEF SInv, server, Told, Holds, Holder, NoGet
<1>7. Mine' /\ Filled'
  <2>1. Mine'
    BY <1>1, <1>2 DEF SInv, server, Mine, Holder
  <2>2. Filled'
    BY <1>1, <1>2, NoFormTyped DEF SInv, server, Filled, Holder, SignIns, Idle, Sent
  <2> QED BY <2>1, <2>2
<1>8. Unfresh'
  BY <1>1, <1>2, NoFormTyped, Names DEF SInv, server, Unfresh, Holder, Fresh, Unauthorized, Becomes, Render
<1> QED BY <1>3, <1>4, <1>5, <1>6, <1>7, <1>8 DEF SInv

LEMMA GetArrivesInv ==
    ASSUME SInv, NEW i \in Requests, GetArrives(i)
    PROVE  SInv'
<1>1. UNCHANGED <<server, cookie, watching, behind, from, form>> /\ gets' = [gets EXCEPT ![i] = NoGet]
  BY DEF GetArrives
<1>2. NoGet \in [session : Tokens, answer : Answers, live : BOOLEAN] /\ ~NoGet.live /\ NoGet.answer = Idle
  BY DEF SInv, Typed, Tokens, Answers, NoGet
<1>3. /\ gets' \in [Requests -> [session : Tokens, answer : Answers, live : BOOLEAN]]
      /\ \A j \in Requests : gets'[j] = IF j = i THEN NoGet ELSE gets[j]
  BY <1>1, <1>2 DEF SInv, Typed
<1>4. CASE gets[i].answer \in {Nobody, Mistaken}
  <2>1. Unauthorized /\ cached' = cached
    BY <1>4 DEF GetArrives
  <2> QED BY <1>1, <1>2, <1>3, <2>1, UnauthorizedInv
<1>5. CASE gets[i].answer \notin {Nobody, Mistaken}
  <2>1. /\ UNCHANGED <<me, path, shown, setup>>
        /\ cached' = IF gets[i].live /\ gets[i].answer # Broken THEN cached \cup {gets[i].answer} ELSE cached
    BY <1>5 DEF GetArrives
  <2>2. gets[i].answer \in accounts \cup {Broken}
    BY <1>5, Names DEF SInv, Typed, Answers, Errors, GetArrives
  <2>3. Typed'
    BY <1>1, <1>3, <2>1, <2>2 DEF SInv, server, Typed, Tokens, Answers
  <2>4. gets[i].live /\ gets[i].answer # Broken /\ SignedIn(shown) /\ ~behind => gets[i].answer = shown
    <3>1. gets[i].answer \in accounts => gets[i].answer \notin Errors \cup {Nobody, Sent}
      BY Names DEF SInv, Typed
    <3> QED BY <2>2, <3>1 DEF SInv, Own, Brings
  <2>5. Own'
    BY <1>1, <1>2, <1>3, <2>1, <2>4 DEF SInv, server, Own, Brings, Holder
  <2>6. Asked' /\ Loaded' /\ Agree'
    BY <1>1, <1>2, <1>3, <2>1 DEF SInv, Asked, Empty, Loaded, Agree
  <2>7. Told'
    BY <1>1, <1>2, <1>3, <2>1, Names DEF SInv, server, Told, Holds, Holder
  <2>8. Mine' /\ Filled' /\ Unfresh'
    BY <1>1, <2>1 DEF SInv, server, Mine, Filled, Unfresh, Fresh, Holder
  <2> QED BY <2>3, <2>5, <2>6, <2>7, <2>8 DEF SInv
<1> QED BY <1>4, <1>5

LEMMA LoadsInv ==
    ASSUME SInv, NEW p \in Paths, Loads(p)
    PROVE  SInv'
<1>1. /\ UNCHANGED <<server, cookie>> /\ watching' = TRUE /\ behind' = FALSE /\ path' = p /\ shown' = Unknown
      /\ me' = [data |-> Unknown, get |-> [session |-> cookie, answer |-> Sent]]
      /\ from' = "app" /\ cached' = {} /\ form' = NoForm
      /\ gets' = [i \in DOMAIN gets |-> NoGet] /\ setup' = Watched(p, NoSetup) /\ step' = NoStep
  BY DEF Loads
<1>2. NoGet \in [session : Tokens, answer : Answers, live : BOOLEAN] /\ ~NoGet.live /\ NoGet.answer = Idle
  BY DEF SInv, Typed, Tokens, Answers, NoGet
<1>3. gets' \in [Requests -> [session : Tokens, answer : Answers, live : BOOLEAN]]
      /\ \A i \in Requests : gets'[i] = NoGet
  BY <1>1, <1>2 DEF SInv, Typed
<1>4. /\ setup' \in Setups /\ setup'.gone = FALSE /\ ~Fresh'
  BY <1>1 DEF Watched, NoSetup, Setups, Statuses, Fresh, Unknown, Idle, Sent
<1>5. me'.get.session = cookie /\ me'.get.answer = Sent /\ me'.get # NoFlight /\ me'.data = Unknown
  BY <1>1, Names DEF NoFlight
<1>12. me' \in [data : accounts \cup {Nobody, Unknown}, get : [session : Tokens, answer : Answers]]
  BY <1>1 DEF SInv, Typed, Answers
<1>6. Typed'
  <2>1. /\ gets' \in [Requests -> [session : Tokens', answer : Answers', live : BOOLEAN]]
        /\ me' \in [data : accounts' \cup {Nobody, Unknown}, get : [session : Tokens', answer : Answers']]
        /\ 0 \in Tokens'
    BY <1>1, <1>3, <1>12 DEF SInv, Typed, server, Tokens, Answers
  <2> QED BY <1>1, <1>4, <2>1, NoFormTyped DEF SInv, server, Typed, Tokens
<1>7. ~SignedIn(shown')
  BY <1>1, Names DEF SignedIn
<1>8. Own' /\ Asked' /\ Loaded' /\ Agree' /\ Mine'
  BY <1>1, <1>2, <1>3, <1>5, <1>7 DEF Own, Asked, Empty, Loaded, Agree, Mine
<1>9. Told'
  BY <1>2, <1>3, <1>5, Names DEF Told, Holds
<1>10. Filled'
  BY <1>1, <1>7, NoFormTyped DEF Filled, SignIns, Idle, Sent
<1>11. Unfresh'
  BY <1>4, <1>7 DEF Unfresh
<1> QED BY <1>6, <1>8, <1>9, <1>10, <1>11 DEF SInv

LEMMA RedirectsInv ==
    ASSUME SInv, Redirects
    PROVE  SInv'
<1>1. /\ UNCHANGED <<server, cookie, me, watching, behind, gets, cached, form>>
      /\ ~setup.gone /\ Target # path
  BY DEF Redirects
<1>2. from' \in {"app", "admin"}
  BY DEF Redirects, SInv, Typed
<1>3. PICK s \in {setup, [setup EXCEPT !.get = Sent]} : Render(Target, shown, s)
  BY DEF Redirects
<1>4. s \in Setups /\ s.gone = FALSE /\ ("fresh" \in {s.data, s.get} => Fresh)
  BY <1>1 DEF SInv, Typed, Setups, Fresh, Sent
<1>5. /\ path' = Target /\ shown' = shown /\ setup' \in Setups /\ setup'.gone = FALSE
      /\ Fresh' => Fresh
  BY <1>3, <1>4, RenderFacts
<1>6. Target \in Paths /\ Target # "invite" /\ path # "invite"
  BY <1>1, RouteInvite
<1>7. form.kind = "login" => form.phase \notin {Sent, "answered"}
  BY <1>1 DEF SInv, Filled, Target, Route
<1>8. Typed' /\ Own' /\ Asked' /\ Loaded' /\ Agree'
  BY <1>1, <1>2, <1>5, <1>6
     DEF SInv, server, Typed, Tokens, Answers, Own, Brings, Holder, Asked, Empty, Loaded, Agree
<1>9. Told' /\ Mine' /\ Filled' /\ Unfresh'
  BY <1>1, <1>5, <1>6, <1>7 DEF SInv, server, Told, Holds, Holder, Mine, Filled, Unfresh
<1> QED BY <1>8, <1>9 DEF SInv

-----------------------------------------------------------------------------
(* Forms *)

LEMMA SubmitInv ==
    ASSUME SInv, ~Early, NEW kind \in Kinds \ {"none"}, NEW u \in Users \cup {Nobody},
           NEW right \in BOOLEAN, Submit(kind, u, right)
    PROVE  SInv'
<1>1. /\ UNCHANGED <<server, cookie, me, setup, watching, behind, shown, path, from, gets, cached>>
      /\ form = NoForm /\ Offered(kind) /\ me.get = NoFlight /\ (kind = "logout" => right)
      /\ (kind \in SignIns => u \in Users)
      /\ form' = [kind |-> kind, user |-> u, right |-> right, session |-> cookie,
                  phase |-> Sent, answer |-> Idle]
  BY DEF Submit
<1>2. /\ form' \in Forms /\ form'.kind = kind /\ form'.right = right /\ form'.session = cookie /\ form'.user = u
      /\ form'.phase = Sent /\ form'.answer = Idle
  BY <1>1 DEF SInv, Typed, Forms, Phases, Replies, Tokens
<1>3. Typed' /\ Own' /\ Asked' /\ Told' /\ Mine'
  BY <1>1, <1>2 DEF SInv, server, Typed, Tokens, Answers, Own, Brings, Holder, Asked, Told, Holds, Mine
<1>4. Loaded' /\ Agree'
  BY <1>1 DEF SInv, Loaded, Agree
<1>5. /\ kind = "invite" => path = "invite"
      /\ kind = "logout" => path # "invite"
      /\ kind = "login" => path = "login" /\ ~SignedIn(shown)
  BY <1>1 DEF Offered, InApp, Target, Route, SInv, Typed
<1>6. Filled'
  BY <1>1, <1>2, <1>5 DEF SInv, Filled, Sent, Idle
<1>7. Unfresh'
  BY <1>1, <1>2 DEF SInv, server, Unfresh, Fresh, Holder, Sent
<1> QED BY <1>3, <1>4, <1>6, <1>7 DEF SInv

\* The server may end sessions and add accounts and a session: what was said of
\* the ones there are still holds.
LEMMA ServerInv ==
    ASSUME SInv, \A s \in Tokens : Holder(s)' \in {Holder(s), Nobody},
           accounts \subseteq accounts', accounts' \subseteq Users,
           owner' \in [Sessions -> accounts' \cup {Nobody}],
           issued' \in 0 .. MaxSessions, issued <= issued',
           UNCHANGED <<cookie, me, setup, watching, behind, shown, path, from, gets, cached>>
    PROVE  /\ form' \in Forms /\ form'.session \in Tokens' => Typed'
           /\ Own' /\ Agree' /\ Told' /\ Mine'
           /\ Fresh /\ ~setup.gone => Holder(cookie)' = Nobody
<1>1. /\ cookie \in Tokens /\ me.get.session \in Tokens
      /\ \A i \in Requests : gets[i].session \in Tokens
  BY DEF SInv, Typed
<1>2. Tokens \subseteq Tokens' /\ Answers \subseteq Answers'
  BY DEF Tokens, Answers, SInv, Typed
<1>3. form' \in Forms /\ form'.session \in Tokens' => Typed'
  <2>1. /\ me \in [data : accounts' \cup {Nobody, Unknown}, get : [session : Tokens', answer : Answers']]
        /\ gets \in [Requests -> [session : Tokens', answer : Answers', live : BOOLEAN]]
    BY <1>2 DEF SInv, Typed
  <2>2. cookie \in Tokens' /\ shown \in accounts' \cup {Nobody, Unknown} /\ cached \subseteq accounts'
    BY <1>2 DEF SInv, Typed
  <2> QED BY <2>1, <2>2 DEF SInv, Typed
<1>4. \A i \in Requests : Brings(gets[i])' \in {Brings(gets[i]), Nobody}
  BY <1>1 DEF Brings
<1>5. Own'
  BY <1>4 DEF SInv, Own
<1>6. Holds(me.get)' /\ \A i \in Requests : Holds(gets[i])'
  BY <1>1 DEF SInv, Told, Holds
<1>7. Agree' /\ Told' /\ Mine'
  BY <1>1, <1>6 DEF SInv, Agree, Told, Mine
<1>8. Fresh /\ ~setup.gone => Holder(cookie)' = Nobody
  BY <1>1 DEF SInv, Unfresh
<1> QED BY <1>3, <1>5, <1>7, <1>8

LEMMA FormHandledInv ==
    ASSUME SInv, FormHandled
    PROVE  SInv'
<1> DEFINE answer == Answer(form)
           ok == answer = "ok"
           user == IF form.kind \in SignIns THEN form.user ELSE Holder(form.session)
           issues == ok /\ form.kind \in SignIns \cup {"password"}
           ends == CASE form.kind = "password" /\ ok -> {s \in Sessions : owner[s] = user}
                     [] form.kind = "logout" /\ ok -> {form.session}
                     [] OTHER -> {}
           n == IF issues THEN issued + 1 ELSE form.session
<1>1. /\ form.phase = Sent /\ (issues => issued < MaxSessions)
      /\ form' = [form EXCEPT !.phase = "answered", !.answer = answer, !.session = n]
      /\ accounts' = IF ok /\ form.kind \in SignIns THEN accounts \cup {user} ELSE accounts
      /\ issued' = IF issues THEN issued + 1 ELSE issued
      /\ owner' = [s \in Sessions |-> IF issues /\ s = issued + 1 THEN user
                                      ELSE IF s \in ends THEN Nobody ELSE owner[s]]
      /\ UNCHANGED <<cookie, me, setup, watching, behind, shown, path, from, gets, cached>>
  BY DEF FormHandled
<1>2. /\ Typed /\ form \in Forms /\ form.session = cookie /\ cookie \in Tokens
      /\ issued \in 0 .. MaxSessions /\ MaxSessions \in Nat
  BY <1>1, WebSessionConstants DEF SInv, Typed, Filled
<1>3. me.get = NoFlight /\ shown # Unknown /\ form.kind # "none"
  BY <1>1, <1>2, FormAlone DEF SInv, Filled, NoForm, Idle, Sent
<1>4. /\ answer \in {"ok", "401", "403"}
      /\ ok => \/ form.kind \in {"account", "invite"} /\ form.user \in Users
               \/ form.kind = "login" /\ form.user \in accounts
               \/ form.kind \in {"password", "logout"} /\ Holder(form.session) # Nobody
               \/ form.kind = "finish" /\ accounts # {}
      /\ ok /\ form.kind = "account" => accounts = {}
      /\ answer = "401" => /\ form.kind \in {"login", "password", "logout"}
                           /\ form.kind = "logout" => Holder(form.session) = Nobody
                           /\ form.kind = "password" => Holder(form.session) = Nobody \/ ~form.right
  BY <1>2, <1>3 DEF Answer, Forms, Kinds, SignIns, SInv, Filled
<1>5. /\ issues => user \in accounts' /\ issued + 1 \in Sessions
      /\ ok /\ form.kind \in SignIns => user \in Users
  BY <1>1, <1>2, <1>4, HolderTyped DEF SignIns, Sessions, Typed
<1> HIDE DEF answer, user, ends
<1>6. /\ accounts \subseteq accounts' /\ accounts' \subseteq Users
      /\ issued' \in 0 .. MaxSessions /\ issued <= issued' /\ n \in Tokens'
  <2>1. accounts \subseteq accounts' /\ accounts' \subseteq Users
    BY <1>1, <1>2, <1>4, <1>5 DEF Typed
  <2>2. issued' \in 0 .. MaxSessions /\ issued <= issued'
    BY <1>1, <1>2
  <2>3. n \in Tokens'
    BY <1>1, <1>2 DEF Tokens
  <2> QED BY <2>1, <2>2, <2>3
<1>7. owner' \in [Sessions -> accounts' \cup {Nobody}]
  BY <1>1, <1>2, <1>5, <1>6 DEF Typed
<1>8. \A s \in Tokens : Holder(s)' \in {Holder(s), Nobody}
  BY <1>1, <1>2, HolderTyped DEF Holder, Tokens
<1>9. /\ Own' /\ Agree' /\ Told' /\ Mine'
      /\ form' \in Forms /\ form'.session \in Tokens' => Typed'
      /\ Fresh /\ ~setup.gone => Holder(cookie)' = Nobody
  BY <1>1, <1>6, <1>7, <1>8, ServerInv
<1>10. /\ form' \in Forms /\ form'.kind = form.kind /\ form'.right = form.right
       /\ form'.user = form.user /\ form'.phase = "answered" /\ form'.answer = answer /\ form'.session = n
  <2>1. answer \in Replies /\ "answered" \in Phases /\ n \in Nat
    BY <1>2, <1>4, <1>6 DEF Phases, Replies, Tokens
  <2> HIDE DEF n
  <2>2. form' = Gone(form, "answered", answer, n)
    BY <1>1, <1>2 DEF Forms, Gone
  <2> QED BY <1>2, <2>1, <2>2, GoneFacts
<1> HIDE DEF n
<1>11. Asked' /\ Loaded'
  BY <1>1, <1>3 DEF Asked, Loaded
<1>12. ok => accounts' # {} /\ (form.kind = "account" => ~SignedIn(shown))
  <2>1. ok => accounts' # {}
    BY <1>1, <1>2, <1>4, <1>5, <1>6, HolderTyped DEF SignIns
  <2>2. ok /\ form.kind = "account" => ~SignedIn(shown)
    BY <1>2, <1>4, Names DEF Typed, SignedIn
  <2> QED BY <2>1, <2>2
<1>13. ok /\ form.kind = "password" /\ SignedIn(shown) /\ ~behind => Holder(form.session)' \in {shown, Nobody}
  <2>1. SignedIn(shown) /\ ~behind => Holder(form.session) \in {shown, Nobody}
    BY <1>2, <1>3 DEF SInv, Mine
  <2>2. ok /\ form.kind = "password" => Holder(form.session)' = Holder(form.session)
    <3>1. SUFFICES ASSUME ok, form.kind = "password" PROVE Holder(form.session)' = Holder(form.session)
      OBVIOUS
    <3>2. issues /\ n = issued + 1
      BY <3>1 DEF n
    <3>3. n # 0 /\ user = Holder(form.session)
      BY <1>2, <3>1, <3>2 DEF user, SignIns
    <3> QED BY <1>1, <1>5, <1>10, <3>2, <3>3 DEF Holder
  <2> QED BY <2>1, <2>2
<1>14. answer = "401" /\ form.kind \in {"password", "logout"} => Holder(form.session)' = Nobody \/ ~form.right
  <2>1. SUFFICES ASSUME answer = "401", form.kind \in {"password", "logout"}
                 PROVE  Holder(form.session)' = Nobody \/ ~form.right
    OBVIOUS
  <2>2. n = form.session
    BY <1>1, <2>1 DEF n
  <2>3. form'.session = form.session /\ form.session \in Tokens
    BY <1>2, <1>10, <2>2
  <2>4. Holder(form.session)' \in {Holder(form.session), Nobody}
    BY <1>8, <2>3 DEF Holder
  <2> QED BY <1>4, <2>1, <2>2, <2>4
<1>15. Filled'
  <2>1. form' # NoForm => form'.phase # Idle /\ form'.kind # "none"
    BY <1>3, <1>10 DEF Idle
  <2>2. form'.phase # Sent /\ form'.phase \notin {"me", "setup"}
    BY <1>10 DEF Sent
  <2>3. form.kind = "login" => ~SignedIn(shown) /\ path = "login"
    BY <1>1 DEF SInv, Filled
  <2>4. /\ form.kind = "logout" => form.right
        /\ answer # "ok" => n = cookie
        /\ answer # Mistaken
    BY <1>2, <1>4 DEF SInv, Filled, n, Mistaken
  <2> QED BY <1>1, <1>3, <1>4, <1>10, <1>12, <1>13, <1>14, <2>1, <2>2, <2>3, <2>4 DEF SInv, Filled
<1>16. Unfresh'
  <2>1. Fresh /\ ~setup.gone /\ form.kind = "password" => ~ok
    BY <1>2, <1>4 DEF SInv, Unfresh
  <2>2. Fresh' = Fresh /\ NoFlight.answer \notin Users
    BY <1>1, Names DEF Fresh, NoFlight
  <2> QED BY <1>1, <1>3, <1>9, <1>10, <2>1, <2>2 DEF SInv, Unfresh
<1> QED BY <1>6, <1>9, <1>10, <1>11, <1>15, <1>16 DEF SInv


LEMMA FormLostInv ==
    ASSUME SInv, FormLost
    PROVE  SInv'
<1>1. /\ UNCHANGED <<server, cookie, me, setup, watching, behind, shown, path, from, gets, cached>>
      /\ form.phase = Sent /\ form \in Forms /\ form.session \in Nat
  BY DEF FormLost, SInv, Typed, Forms
<1>2. PICK an : /\ an \in {"500", Mistaken} /\ (an = Mistaken => form.kind \in {"password", "logout"})
                /\ form' = Gone(form, "answered", an, form.session)
  BY <1>1 DEF FormLost, Forms, Gone, Mistaken
<1>3. /\ form' \in Forms /\ form'.kind = form.kind /\ form'.right = form.right /\ form'.user = form.user
      /\ form'.phase = "answered" /\ form'.answer = an /\ form'.session = form.session
  <2>1. "answered" \in Phases /\ an \in Replies
    BY <1>2 DEF Phases, Replies
  <2> QED BY <1>1, <1>2, <2>1, GoneFacts
<1>4. me.get = NoFlight /\ shown # Unknown /\ form # NoForm
  BY <1>1, FormAlone DEF NoForm, Idle, Sent
<1>5. Typed' /\ Own' /\ Asked' /\ Loaded' /\ Agree' /\ Told' /\ Mine'
  BY <1>1, <1>3, <1>4
     DEF SInv, server, Typed, Tokens, Answers, Own, Brings, Holder, Asked, Loaded, Agree, Told, Holds, Mine
<1>6. an \notin {"ok", "401"} /\ form.session = cookie /\ "answered" \notin {Idle, Sent}
  BY <1>1, <1>2 DEF Mistaken, SInv, Filled, Idle, Sent
<1>7. Filled' /\ Unfresh'
  BY <1>1, <1>2, <1>3, <1>4, <1>6 DEF SInv, server, Filled, Unfresh, Fresh, Holder, SignIns
<1> QED BY <1>5, <1>7 DEF SInv

\* A page's request that is dropped is as it was, and nothing is cached.
LEMMA DroppedFacts ==
    ASSUME SInv, gets' = Dropped, cached' = {}
    PROVE  /\ Empty'
           /\ gets' \in [Requests -> [session : Tokens, answer : Answers, live : BOOLEAN]]
           /\ \A i \in Requests : /\ gets'[i].session = gets[i].session
                                  /\ gets'[i].answer = gets[i].answer
<1>1. gets \in [Requests -> [session : Tokens, answer : Answers, live : BOOLEAN]]
  BY DEF SInv, Typed
<1>2. \A i \in Requests : gets[i] # NoGet =>
         gets'[i] = [session |-> gets[i].session, answer |-> gets[i].answer, live |-> FALSE]
  BY <1>1 DEF Dropped
<1>3. \A i \in Requests : gets[i] = NoGet => gets'[i] = NoGet /\ ~gets'[i].live
  BY <1>1 DEF Dropped, NoGet
<1>4. DOMAIN gets' = Requests /\ gets' = [i \in Requests |-> gets'[i]]
  BY <1>1 DEF Dropped
<1>5. \A i \in Requests :
         /\ gets'[i] \in [session : Tokens, answer : Answers, live : BOOLEAN] /\ ~gets'[i].live
         /\ gets'[i].session = gets[i].session /\ gets'[i].answer = gets[i].answer
  <2>1. TAKE i \in Requests
  <2>2. CASE gets[i] = NoGet
    BY <1>1, <1>3, <2>2
  <2>3. CASE gets[i] # NoGet
    <3>1. /\ gets[i] \in [session : Tokens, answer : Answers, live : BOOLEAN]
          /\ gets'[i] = [session |-> gets[i].session, answer |-> gets[i].answer, live |-> FALSE]
      BY <1>1, <1>2, <2>3
    <3> QED BY <3>1
  <2> QED BY <2>2, <2>3
<1> QED BY <1>4, <1>5 DEF Empty

LEMMA RemovedFacts ==
    ASSUME SInv
    PROVE  /\ Removed \in Setups /\ Removed.get = Idle
           /\ Removed.data = "fresh" => Fresh /\ Removed.gone
<1>1. setup \in Setups
  BY DEF SInv, Typed
<1>2. CASE path \in {"app", "admin", "setup"}
  <2>1. Removed = [data |-> setup.data, get |-> Idle, gone |-> TRUE]
    BY <1>1, <1>2 DEF Removed, Setups
  <2> QED BY <1>1, <2>1 DEF Setups, Fresh
<1>3. CASE path \notin {"app", "admin", "setup"}
  BY <1>3 DEF Removed, NoSetup, Setups, Unknown
<1> QED BY <1>2, <1>3

LEMMA SignedInArrivesInv ==
    ASSUME SInv, SignedInArrives
    PROVE  SInv'
<1>1. /\ UNCHANGED <<server, watching, behind, path, from>>
      /\ form.phase = "answered" /\ form.kind \in SignIns /\ form.answer = "ok" /\ form \in Forms
      /\ cookie' = form.session /\ gets' = Dropped /\ cached' = {} /\ me' = MeAgain
      /\ \/ me.data = Unknown /\ shown = Nobody /\ Render(path, Unknown, Removed)
         \/ ~(me.data = Unknown /\ shown = Nobody) /\ setup' = Removed /\ UNCHANGED shown
      /\ form.session \in Tokens /\ form.session \in Nat
  BY DEF SignedInArrives, Render, SInv, Typed, Tokens
<1>2. me.get = NoFlight /\ shown # Unknown
  BY <1>1, FormAlone
<1>3. /\ form' \in Forms /\ form'.kind = form.kind /\ form'.right = form.right /\ form'.user = form.user
      /\ form'.phase = "me" /\ form'.answer = form.answer /\ form'.session = form.session
  <2>1. form' = Gone(form, "me", "ok", form.session)
    BY <1>1 DEF SignedInArrives, Forms, Gone
  <2>2. "me" \in Phases /\ "ok" \in Replies
    BY DEF Phases, Replies
  <2> QED BY <1>1, <2>1, <2>2, GoneFacts
<1>4. /\ Empty'
      /\ gets' \in [Requests -> [session : Tokens, answer : Answers, live : BOOLEAN]]
      /\ \A i \in Requests : gets'[i].session = gets[i].session /\ gets'[i].answer = gets[i].answer
  BY <1>1, DroppedFacts
<1>13. shown' = shown \/ (me.data = Unknown /\ shown' = Unknown)
  BY <1>1 DEF Render
<1>5. /\ setup' \in Setups /\ (setup'.gone => setup'.get = Idle)
      /\ Fresh' => Fresh /\ setup'.gone /\ shown' = shown
  <2>1. /\ Removed \in Setups /\ Removed.get = Idle
        /\ Removed.data = "fresh" => Fresh /\ Removed.gone
    BY RemovedFacts
  <2>2. CASE setup' = Removed /\ UNCHANGED shown
    BY <2>1, <2>2 DEF Fresh, Idle
  <2>3. CASE Render(path, Unknown, Removed)
    BY <2>1, <2>3, RenderFacts DEF Idle
  <2> QED BY <1>1, <2>2, <2>3
<1>6. /\ me'.data = me.data /\ me'.get.session \in Tokens /\ me'.get.answer \in {Idle, Sent}
      /\ me' \in [data : accounts \cup {Nobody, Unknown}, get : [session : Tokens, answer : Answers]]
      /\ me'.get # NoFlight => me'.get.session = cookie'
      /\ me'.get = NoFlight <=> ~watching
  <2>1. CASE ~watching
    BY <1>1, <1>2, <2>1 DEF MeAgain, SInv, Typed, NoFlight
  <2>2. CASE watching
    <3>1. me' = [data |-> me.data, get |-> [session |-> cookie', answer |-> Sent]]
      BY <1>1, <1>2, <2>2 DEF MeAgain, SInv, Typed
    <3> QED BY <1>1, <2>2, <3>1, Names DEF NoFlight, SInv, Typed, Answers
  <2> QED BY <2>1, <2>2
<1>7. SignedIn(shown) => path = "invite" /\ watching
  BY <1>1 DEF SInv, Filled, SignIns
<1>8. Typed'
  BY <1>1, <1>3, <1>4, <1>5, <1>6, <1>13 DEF SInv, server, Typed, Tokens, Answers
<1>14. SignedIn(shown') => shown' = shown
  BY <1>13, Names DEF SignedIn
<1>15. me.data = Unknown => watching
  BY DEF SInv, Agree
<1>9. Own' /\ Asked' /\ Loaded' /\ Agree' /\ Mine'
  <2>1. Own'
    BY <1>1, <1>4 DEF Own, Empty
  <2>2. Asked'
    BY <1>1, <1>3, <1>4, <1>6, <1>7, <1>14 DEF Asked
  <2>3. Loaded' /\ Agree'
    BY <1>1, <1>2, <1>3, <1>6, <1>13, <1>15 DEF SInv, Loaded, Agree
  <2>4. Mine'
    BY <1>1, <1>6, <1>7, <1>14 DEF Mine
  <2> QED BY <2>1, <2>2, <2>3, <2>4
<1>10. Told'
  BY <1>1, <1>4, <1>6, Names DEF SInv, server, Told, Holds, Holder
<1>11. Filled'
  BY <1>1, <1>3 DEF SInv, server, Filled, SignIns, Idle, Sent
<1>12. Unfresh'
  BY <1>5, <1>14 DEF SInv, Unfresh
<1> QED BY <1>8, <1>9, <1>10, <1>11, <1>12 DEF SInv

LEMMA PasswordArrivesInv ==
    ASSUME SInv, PasswordArrives
    PROVE  SInv'
<1>1. /\ UNCHANGED <<server, me, setup, watching, behind, shown, path, from, gets, cached>>
      /\ form.phase = "answered" /\ form.kind = "password" /\ form.answer = "ok"
      /\ cookie' = form.session /\ form' = NoForm /\ form.session \in Tokens
  BY DEF PasswordArrives, SInv, Typed
<1>2. me.get = NoFlight /\ shown # Unknown
  BY <1>1, FormAlone
<1>3. SignedIn(shown) /\ ~behind => Holder(form.session) \in {shown, Nobody}
  BY <1>1 DEF SInv, Filled
<1>4. ~(Fresh /\ ~setup.gone)
  BY <1>1 DEF SInv, Unfresh
<1>5. Typed' /\ Own' /\ Asked' /\ Loaded' /\ Agree' /\ Told' /\ Mine'
  BY <1>1, <1>2, <1>3, NoFormTyped
     DEF SInv, server, Typed, Tokens, Answers, Own, Brings, Holder, Asked, Loaded, Agree, Told, Holds, Mine
<1>6. Filled'
  BY <1>1, NoFormTyped DEF SInv, server, Filled, Idle, Sent, SignIns
<1>7. Unfresh'
  BY <1>1, <1>4 DEF SInv, Unfresh, Fresh
<1> QED BY <1>5, <1>6, <1>7 DEF SInv

LEMMA SetupAgainFacts ==
    ASSUME SInv
    PROVE  /\ SetupAgain \in Setups /\ SetupAgain.data = setup.data /\ SetupAgain.gone = setup.gone
           /\ SetupAgain = setup \/ (SetupAgain.get = Sent /\ ~setup.gone)
<1>1. setup \in Setups
  BY DEF SInv, Typed
<1>2. CASE SetupAgain = setup
  BY <1>1, <1>2
<1>3. CASE SetupAgain # setup
  <2>1. SetupAgain = [data |-> setup.data, get |-> Sent, gone |-> FALSE] /\ ~setup.gone
    BY <1>1, <1>3 DEF SetupAgain, Setups
  <2> QED BY <1>1, <2>1 DEF Setups
<1> QED BY <1>2, <1>3

\* A form that now waits for the setup status.
LEMMA WaitsForSetup ==
    ASSUME SInv, form.kind \in SignIns \cup {"finish"}, me.get = NoFlight, shown # Unknown,
           setup' = SetupAgain, form' = [form EXCEPT !.phase = "setup"],
           UNCHANGED <<server, cookie, me, watching, behind, shown, path, from, gets, cached>>
    PROVE  SInv'
<1>1. form \in Forms /\ form.session \in Nat /\ form.answer \in Replies /\ form.session \in Tokens
  BY DEF SInv, Typed, Forms
<1>2. /\ form' \in Forms /\ form'.kind = form.kind /\ form'.right = form.right /\ form'.user = form.user
      /\ form'.phase = "setup" /\ form'.session = form.session
  <2>1. form' = Gone(form, "setup", form.answer, form.session)
    BY <1>1 DEF Forms, Gone
  <2>2. "setup" \in Phases
    BY DEF Phases
  <2> QED BY <1>1, <2>1, <2>2, GoneFacts
<1>3. /\ setup' \in Setups /\ setup'.data = setup.data /\ setup'.gone = setup.gone
      /\ setup' = setup \/ (setup'.get = Sent /\ ~setup.gone)
  BY SetupAgainFacts
<1>4. Fresh' => Fresh
  BY <1>3 DEF Fresh, Sent
<1>5. Typed'
  BY <1>1, <1>2, <1>3 DEF SInv, server, Typed, Tokens, Answers
<1>6. Own' /\ Asked' /\ Loaded' /\ Agree' /\ Told' /\ Mine'
  BY DEF SInv, server, Own, Brings, Holder, Asked, Loaded, Agree, Told, Holds, Mine
<1>7. Filled'
  BY <1>2 DEF SInv, Filled, Idle, Sent, SignIns
<1>8. Unfresh'
  BY <1>2, <1>3, <1>4 DEF SInv, server, Unfresh, Holder
<1> QED BY <1>5, <1>6, <1>7, <1>8 DEF SInv

LEMMA FinishArrivesInv ==
    ASSUME SInv, FinishArrives
    PROVE  SInv'
BY FormAlone, WaitsForSetup DEF FinishArrives

LEMMA MeAwaitedInv ==
    ASSUME SInv, MeAwaited
    PROVE  SInv'
<1>1. form.kind \in SignIns \cup {"finish"}
  BY DEF SInv, Filled, MeAwaited
<1>2. shown # Unknown
  BY DEF SInv, Loaded, MeAwaited
<1> QED BY <1>1, <1>2, WaitsForSetup DEF MeAwaited

LEMMA LogoutArrivesInv ==
    ASSUME SInv, LogoutArrives
    PROVE  SInv'
<1> DEFINE out == form.answer \in {"401", Mistaken} /\ SignedIn(me.data) /\ watching
<1>1. /\ UNCHANGED <<server, behind, from>> /\ form.phase = "answered" /\ form.kind = "logout"
      /\ cookie' \in {0, cookie} /\ gets' = Dropped /\ cached' = {}
      /\ me' = [data |-> Nobody, get |-> NoFlight] /\ watching' = out
      /\ IF out THEN Render(path, Nobody, Removed)
         ELSE setup' = Removed /\ UNCHANGED <<path, shown>>
      /\ form' = NoForm
  BY DEF LogoutArrives
<1> HIDE DEF out
<1>2. me.get = NoFlight /\ shown # Unknown /\ path # "invite"
  BY <1>1, FormAlone DEF SInv, Filled
<1>3. /\ Empty'
      /\ gets' \in [Requests -> [session : Tokens, answer : Answers, live : BOOLEAN]]
      /\ \A i \in Requests : gets'[i].session = gets[i].session /\ gets'[i].answer = gets[i].answer
  BY <1>1, DroppedFacts
<1>4. Removed \in Setups /\ Removed.get = Idle /\ (Removed.data = "fresh" => Fresh /\ Removed.gone)
  BY RemovedFacts
<1>5. /\ setup' \in Setups /\ path' = path /\ shown' \in {shown, Nobody}
      /\ setup'.gone => setup'.get = Idle
      /\ Fresh' => Fresh /\ setup'.gone /\ shown' = shown
  <2>1. CASE out
    BY <1>1, <1>4, <2>1, RenderFacts DEF Idle
  <2>2. CASE ~out
    BY <1>1, <1>4, <2>2 DEF Fresh, Idle
  <2> QED BY <2>1, <2>2
<1>6. SignedIn(shown') => shown' = shown
  BY <1>5, Names DEF SignedIn
<1>7. Typed'
  <2>1. NoFlight \in [session : Tokens, answer : Answers] /\ 0 \in Tokens
    BY DEF SInv, Typed, Tokens, Answers, NoFlight
  <2>2. me' \in [data : accounts \cup {Nobody, Unknown}, get : [session : Tokens, answer : Answers]]
    BY <1>1, <2>1
  <2>3. watching' \in BOOLEAN /\ cookie' \in Tokens /\ shown' \in accounts \cup {Nobody, Unknown}
    BY <1>1, <1>5, <2>1 DEF SInv, Typed, out
  <2> QED BY <1>1, <1>3, <1>5, <2>1, <2>2, <2>3, NoFormTyped DEF SInv, server, Typed, Tokens, Answers
<1>8. me'.get = NoFlight /\ NoFlight.answer = Idle
  BY <1>1 DEF NoFlight
<1>9. Own' /\ Asked' /\ Loaded' /\ Agree'
  <2>1. out => shown' = Nobody
    BY <1>1 DEF Render
  <2>2. Agree'
    BY <1>1, <1>8, <2>1, Names DEF Agree
  <2> QED BY <1>1, <1>2, <1>3, <1>5, <1>8, <2>2, Names DEF Own, Empty, Asked, Loaded
<1>10. Told'
  BY <1>1, <1>3, <1>8, Names DEF SInv, server, Told, Holds, Holder
<1>11. Mine'
  BY <1>1, <1>2, <1>6 DEF SInv, server, Mine, Holder
<1>12. Filled'
  BY <1>1, <1>2, <1>5, NoFormTyped DEF Filled, Idle, Sent, SignIns
<1>13. Unfresh'
  BY <1>5 DEF SInv, Unfresh
<1> QED BY <1>7, <1>9, <1>10, <1>11, <1>12, <1>13 DEF SInv

LEMMA RefusedInv ==
    ASSUME SInv, Refused
    PROVE  SInv'
<1>1. /\ UNCHANGED <<server, cookie, watching, behind, from, gets, cached>>
      /\ form.phase = "answered" /\ form' = NoForm
  BY DEF Refused
<1>2. me.get = NoFlight /\ shown # Unknown
  BY <1>1, FormAlone
<1>3. CASE form.answer \in {"401", Mistaken}
  BY <1>1, <1>3, UnauthorizedInv DEF Refused, SInv, Typed
<1>4. CASE form.answer \notin {"401", Mistaken}
  <2>1. UNCHANGED <<me, path, shown, setup>>
    BY <1>4 DEF Refused
  <2>2. Typed' /\ Own' /\ Asked' /\ Loaded' /\ Agree' /\ Told' /\ Mine'
    BY <1>1, <1>2, <2>1, NoFormTyped
       DEF SInv, server, Typed, Tokens, Answers, Own, Brings, Holder, Asked, Loaded, Agree, Told, Holds, Mine
  <2>3. Filled' /\ Unfresh'
    BY <1>1, <2>1, NoFormTyped DEF SInv, server, Filled, Unfresh, Fresh, Holder, Idle, Sent, SignIns
  <2> QED BY <2>2, <2>3 DEF SInv
<1> QED BY <1>3, <1>4

LEMMA FormDoneInv ==
    ASSUME SInv, FormDone
    PROVE  SInv'
<1>1. /\ UNCHANGED <<server, cookie, me, watching, behind, from, gets, cached>>
      /\ form.phase = "setup" /\ form' = NoForm
      /\ \/ UNCHANGED <<path, shown, setup>>
         \/ Render(from, shown, setup) \/ Render("app", shown, setup)
  BY DEF FormDone
<1>2. me.get = NoFlight /\ shown # Unknown
  BY <1>1, FormAlone
<1>3. /\ setup' \in Setups /\ shown' = shown /\ path' \in {path, "app", "admin"}
      /\ setup' = setup \/ setup'.gone = FALSE
      /\ Fresh' => Fresh /\ (setup' = setup \/ ~setup.gone)
  <2>1. CASE UNCHANGED <<path, shown, setup>>
    BY <2>1 DEF SInv, Typed, Fresh
  <2>2. ASSUME NEW p, Render(p, shown, setup)
        PROVE  /\ path' = p /\ shown' = shown /\ setup' \in Setups /\ setup'.gone = FALSE
               /\ Fresh' => ~setup.gone /\ Fresh
    BY <2>2, RenderFacts DEF SInv, Typed, Fresh
  <2> QED BY <1>1, <2>1, <2>2 DEF SInv, Typed
<1>4. Typed' /\ Own' /\ Asked' /\ Loaded' /\ Agree' /\ Told' /\ Mine'
  BY <1>1, <1>2, <1>3, NoFormTyped
     DEF SInv, server, Typed, Tokens, Answers, Paths, Own, Brings, Holder, Asked, Loaded, Agree, Told, Holds,
         Mine
<1>5. Filled'
  BY <1>1, <1>3, NoFormTyped DEF SInv, server, Filled, Idle, Sent, SignIns
<1>6. Unfresh'
  BY <1>1, <1>3, NoFormTyped DEF SInv, server, Unfresh, Holder
<1> QED BY <1>4, <1>5, <1>6 DEF SInv

LEMMA OthersInv ==
    ASSUME SInv, \/ WizardNext \/ OtherFinishes
                 \/ \E u \in Users : OtherRegisters(u)
                 \/ \E s \in Sessions : SessionEnds(s)
    PROVE  SInv'
<1>1. /\ UNCHANGED <<issued, cookie, me, setup, watching, behind, shown, path, from, gets, cached, form>>
      /\ accounts \subseteq accounts' /\ accounts' \subseteq Users
      /\ accounts' = accounts \/ accounts = {}
  BY DEF WizardNext, OtherFinishes, OtherRegisters, SessionEnds, server, SInv, Typed
<1>2. \A s \in Sessions : owner'[s] \in {owner[s], Nobody}
  BY DEF WizardNext, OtherFinishes, OtherRegisters, SessionEnds, server, SInv, Typed
<1>3. owner' \in [Sessions -> accounts' \cup {Nobody}]
  BY <1>1 DEF WizardNext, OtherFinishes, OtherRegisters, SessionEnds, server, SInv, Typed
<1>4. \A s \in Tokens : Holder(s)' \in {Holder(s), Nobody}
  BY <1>2, HolderTyped DEF Holder, SInv
<1>5. /\ issued \in 0 .. MaxSessions /\ form \in Forms /\ form.session \in Tokens /\ cookie \in Tokens
  BY DEF SInv, Typed
<1>6. /\ Own' /\ Agree' /\ Told' /\ Mine'
      /\ form' \in Forms /\ form'.session \in Tokens' => Typed'
      /\ Fresh /\ ~setup.gone => Holder(cookie)' = Nobody
  <2>1. issued <= issued' /\ issued' \in 0 .. MaxSessions
    BY <1>1, <1>5
  <2> QED BY <1>1, <1>3, <1>4, <2>1, ServerInv
<1>7. Typed'
  BY <1>1, <1>5, <1>6 DEF Tokens
<1>8. Asked' /\ Loaded'
  BY <1>1 DEF SInv, Asked, Empty, Loaded
<1>9. Filled'
  <2>1. Holder(form.session)' \in {Holder(form.session), Nobody}
    BY <1>1, <1>4, <1>5 DEF Holder
  <2> QED BY <1>1, <2>1 DEF SInv, Filled
<1>10. Unfresh'
  BY <1>1, <1>6 DEF SInv, Unfresh, Fresh
<1> QED BY <1>6, <1>7, <1>8, <1>9, <1>10 DEF SInv

-----------------------------------------------------------------------------
(* The invariant *)

LEMMA SInit == Init => SInv
<1> SUFFICES ASSUME Init
             PROVE  SInv
  OBVIOUS
<1>1. /\ path \in Paths /\ path \in {"app", "setup", "invite"} /\ from = "app"
      /\ me = [data |-> Unknown, get |-> [session |-> cookie, answer |-> Sent]]
      /\ shown = Unknown /\ watching = TRUE /\ behind = FALSE /\ setup = Watched(path, NoSetup)
      /\ gets = [i \in Requests |-> NoGet] /\ cached = {} /\ form = NoForm
      /\ owner \in [Sessions -> accounts \cup {Nobody}] /\ accounts \subseteq Users
      /\ issued = cookie /\ cookie \in 0 .. MaxSessions /\ cookie \in Tokens
  BY WebSessionConstants DEF Init, Paths, Requests, Tokens
<1>2. NoGet \in [session : Tokens, answer : Answers, live : BOOLEAN] /\ ~NoGet.live /\ NoGet.answer = Idle
  BY <1>1 DEF Tokens, Answers, NoGet
<1>3. setup \in Setups /\ setup.gone = FALSE /\ ~Fresh
  BY <1>1 DEF Watched, NoSetup, Setups, Statuses, Fresh, Unknown, Idle, Sent
<1>4. me.get.session = cookie /\ me.get.answer = Sent /\ me.get # NoFlight /\ me.data = Unknown
  BY <1>1, Names DEF NoFlight
<1>5. ~SignedIn(shown)
  BY <1>1, Names DEF SignedIn
<1>10. me \in [data : accounts \cup {Nobody, Unknown}, get : [session : Tokens, answer : Answers]]
  BY <1>1 DEF Answers
<1>6. Typed
  <2>1. gets \in [Requests -> [session : Tokens, answer : Answers, live : BOOLEAN]] /\ 0 \in Tokens
    BY <1>1, <1>2 DEF Tokens
  <2> QED BY <1>1, <1>3, <1>10, <2>1, NoFormTyped DEF Typed
<1>7. Own /\ Asked /\ Loaded /\ Agree /\ Mine
  BY <1>1, <1>2, <1>4, <1>5 DEF Own, Asked, Empty, Loaded, Agree, Mine
<1>8. Told
  BY <1>1, <1>2, <1>4, Names DEF Told, Holds
<1>9. Filled /\ Unfresh
  BY <1>1, <1>3, <1>5, NoFormTyped DEF Filled, SignIns, Idle, Sent, Unfresh
<1> QED BY <1>6, <1>7, <1>8, <1>9 DEF SInv

LEMMA SNext ==
    ASSUME ~Early, SInv, [Next]_vars
    PROVE  SInv'
<1>1. CASE Browser
  BY <1>1, RedirectsInv, MeReadInv, MeArrivesInv, SetupReadInv, SetupArrivesInv, FormHandledInv,
     SignedInArrivesInv, PasswordArrivesInv, FinishArrivesInv, LogoutArrivesInv, RefusedInv,
     MeAwaitedInv, FormDoneInv DEF Browser
<1>2. CASE FormLost
  BY <1>2, FormLostInv
<1>3. CASE \E p \in Paths : Loads(p)
  BY <1>3, LoadsInv
<1>4. CASE \E i \in DOMAIN gets : Opens(i) \/ GetRead(i) \/ GetArrives(i)
  BY <1>4, OpensInv, GetReadInv, GetArrivesInv DEF SInv, Typed
<1>5. ASSUME NEW kind \in {"login", "invite", "account", "finish", "password", "logout"},
             NEW u \in Users \cup {Nobody}, NEW right \in BOOLEAN, Submit(kind, u, right)
      PROVE  SInv'
  <2>1. kind \in Kinds \ {"none"}
    BY DEF Kinds, SignIns
  <2> QED BY <1>5, <2>1, SubmitInv
<1>6. CASE \/ WizardNext \/ OtherFinishes
           \/ \E u \in Users : OtherRegisters(u)
           \/ \E s \in Sessions : SessionEnds(s)
  BY <1>6, OthersInv
<1>7. CASE UNCHANGED vars
  BY <1>7 DEF vars, server, SInv, Typed, Tokens, Answers, Own, Brings, Holder, Asked, Empty, Loaded, Agree,
     Told, Holds, Mine, Filled, Unfresh, Fresh
<1> QED BY <1>1, <1>2, <1>3, <1>4, <1>5, <1>6, <1>7 DEF Next

THEOREM Invariance ==
    ASSUME ~Early
    PROVE  Spec => []SInv
<1>1. Init => SInv
  BY SInit
<1>2. SInv /\ [Next]_vars => SInv'
  BY SNext
<1> QED BY <1>1, <1>2, PTL DEF Spec

-----------------------------------------------------------------------------
(* The rest of the types *)

\* What Typed leaves out.
Rest ==
    /\ admin \in accounts \cup {Nobody} /\ completed \in BOOLEAN
    /\ step \in {NoStep, 0, 1, 2} /\ loads \in 0 .. MaxLoads

LEMMA RestInit == Init => Rest
<1> SUFFICES ASSUME Init
             PROVE  Rest
  OBVIOUS
<1>1. admin \in accounts \cup {Nobody}
  BY DEF Init
<1>2. completed \in BOOLEAN /\ step = NoStep /\ loads = 0
  BY DEF Init
<1> QED BY <1>1, <1>2, WebSessionConstants DEF Rest

LEMMA RestNext ==
    ASSUME SInv, Rest, [Next]_vars
    PROVE  Rest'
<1>1. step' \in {NoStep, 0, 1, 2}
  <2>1. ASSUME NEW p, NEW u, NEW s, Render(p, u, s)
        PROVE  step' \in {NoStep, 0, 1, 2}
    BY <2>1 DEF Render, Wizard, Rest
  <2>2. ASSUME NEW d, Becomes(d)
        PROVE  step' \in {NoStep, 0, 1, 2}
    BY <2>1, <2>2 DEF Becomes, Rest
  <2>3. CASE Browser
    BY <2>1, <2>2, <2>3 DEF Rest, Browser, Redirects, MeRead, MeArrives, SetupRead, SetupArrives, FormHandled,
       SignedInArrives, PasswordArrives, FinishArrives, LogoutArrives, Refused, Unauthorized,
       MeAwaited, FormDone
  <2>4. CASE ~Browser
    BY <2>2, <2>4 DEF Rest, Next, vars, FormLost, WizardNext, OtherFinishes, Loads, Opens, GetRead,
       GetArrives, Unauthorized, Submit, OtherRegisters, SessionEnds
  <2> QED BY <2>3, <2>4
<1>2. admin' \in accounts' \cup {Nobody} /\ completed' \in BOOLEAN
  <2>1. CASE FormHandled
    <3>1. CASE Answer(form) = "ok" /\ accounts = {}
      <4>1. Holder(form.session) = Nobody
        BY <3>1, HolderTyped DEF SInv, Typed
      <4>2. form.kind \in SignIns
        <5>1. form.kind \in SignIns \cup {"finish", "password", "logout"}
          BY <2>1, FormAlone, Names DEF FormHandled, SInv, Filled, Typed, Forms, Kinds, NoForm
        <5> QED BY <3>1, <4>1, <5>1 DEF Answer, SignIns
      <4> QED BY <2>1, <3>1, <4>2 DEF FormHandled, Rest
    <3>2. CASE ~(Answer(form) = "ok" /\ accounts = {})
      BY <2>1, <3>2 DEF FormHandled, Rest
    <3> QED BY <3>1, <3>2
  <2>2. CASE ~FormHandled
    BY <2>2 DEF Rest, Next, vars, server, Browser, Redirects, MeRead, MeArrives, SetupRead, SetupArrives,
       SignedInArrives, PasswordArrives, FinishArrives, LogoutArrives, Refused, MeAwaited, FormDone,
       FormLost, WizardNext, OtherFinishes, Loads, Opens, GetRead, GetArrives, Submit,
       OtherRegisters, SessionEnds
  <2> QED BY <2>1, <2>2
<1>3. loads' \in 0 .. MaxLoads
  <2>1. CASE Browser
    BY <2>1 DEF Rest, Browser, Redirects, MeRead, MeArrives, SetupRead, SetupArrives, FormHandled,
       SignedInArrives, PasswordArrives, FinishArrives, LogoutArrives, Refused, MeAwaited, FormDone
  <2>2. CASE \E p \in Paths : Loads(p)
    BY <2>2, WebSessionConstants DEF Rest, Loads
  <2>3. CASE ~Browser /\ ~\E p \in Paths : Loads(p)
    BY <2>3 DEF Rest, Next, vars, FormLost, WizardNext, OtherFinishes, Opens, GetRead, GetArrives, Submit,
       OtherRegisters, SessionEnds
  <2> QED BY <2>1, <2>2, <2>3
<1> QED BY <1>1, <1>2, <1>3 DEF Rest

-----------------------------------------------------------------------------
(* The setup status and the wizard *)

\* The pages that show the setup status.
Shows == {"app", "admin", "setup"}

\* A status that is not known is asked for.
Spins == path \in Shows /\ setup.data = Unknown => setup.get # Idle

\* An entry that is gone from the cache is not fetched before the next render:
\* who may still leave the page by a form is not there, or is not watched.
Gones ==
    setup.gone =>
        /\ SignedIn(shown) /\ path \in {"app", "admin"} => ~watching
        /\ form.kind = "logout" => ~watching
        /\ form.kind = "password" => path \in {"app", "admin"}

\* The forms that take the status away have one to leave.
Outs ==
    /\ ~watching \/ form.kind = "logout" => accounts # {} /\ ~Fresh
    /\ form.kind = "logout" => setup.data # Unknown
    /\ form.kind = "account" /\ form.phase \in {Sent, "answered"} =>
         setup.data # Unknown /\ ~setup.gone /\ step \in {NoStep, 0} /\ ~SignedIn(shown)
    /\ form.kind = "account" /\ form.phase = "answered" /\ form.answer = "ok" =>
         accounts # {} /\ Holder(form.session) \in {admin, Nobody}

\* The first step is that of a server without accounts; it outlives its status
\* only while the new account waits to be let in.
Wizards ==
    /\ step # NoStep =>
         /\ path = "setup" /\ setup.data # Unknown
         /\ ~setup.gone => SetupPage(shown, setup.data) = "setup"
    /\ step = 0 =>
         /\ setup.data = "fresh"
         /\ setup.gone => /\ form.kind = "account" /\ form.phase \in {"me", "setup"}
                          /\ Holder(cookie) \in {admin, Nobody}
    /\ WizardIsAdmins

Routed == Spins /\ Gones /\ Outs /\ Wizards

\* Who sees the wizard is the admin, or has no session.
LEMMA PageAdmins ==
    ASSUME NEW u, NEW s \in Statuses, SetupPage(u, s) = "setup"
    PROVE  (SignedIn(u) /\ u = admin) \/ (~SignedIn(u) /\ s = "fresh")
BY DEF SetupPage, Statuses, Unknown

\* A render leaves a status that is known or asked for, and the wizard where it
\* belongs.
LEMMA RenderRouted ==
    ASSUME SInv', Rest, NEW p, NEW u, NEW s \in Setups, Render(p, u, s), admin' = admin,
           step = 0 => s.data = "fresh" \/ ~SignedIn(u)
    PROVE  /\ setup'.gone = FALSE /\ Spins' /\ Gones' /\ Wizards'
           /\ ~s.gone /\ s.data # Unknown => setup' = s
           /\ step' > 0 => step > 0 \/ SignedIn(u)
<1> DEFINE new == [data |-> Unknown, get |-> Sent, gone |-> FALSE]
<1>1. new.gone = FALSE /\ new.data = Unknown /\ new.get # Idle
  BY DEF Unknown, Sent, Idle
<1>2. NoSetup.gone = FALSE /\ NoSetup.data = Unknown
  BY DEF NoSetup
<1>3. /\ Watched(p, s) = new \/ (p \notin Shows /\ Watched(p, s) = NoSetup)
         \/ (Watched(p, s) = s /\ s.gone = FALSE /\ (p \in Shows => s.data # Unknown \/ s.get # Idle))
      /\ ~s.gone /\ s.data # Unknown => Watched(p, s) = s
  BY DEF Watched, Setups, Shows
<1> HIDE DEF new
<1>4. path' = p /\ shown' = u /\ setup' = Watched(p, s) /\ step' = Wizard(p, u, setup')
  BY DEF Render
<1>5. /\ setup'.gone = FALSE /\ (~s.gone /\ s.data # Unknown => setup' = s)
      /\ setup'.data \in {s.data, Unknown}
  BY <1>1, <1>2, <1>3, <1>4
<1>6. Spins' /\ Gones'
  BY <1>1, <1>2, <1>3, <1>4, <1>5 DEF Spins, Gones
<1>7. setup' \in Setups
  BY DEF SInv, Typed
<1>8. ASSUME step' # NoStep
      PROVE  /\ path' = "setup" /\ setup'.data \in Statuses /\ setup'.data = s.data
             /\ SetupPage(u, setup'.data) = "setup"
             /\ step' = step \/ step' = (IF SignedIn(u) THEN 1 ELSE 0)
  BY <1>4, <1>5, <1>7, <1>8 DEF Wizard, Setups
<1>9. step' # NoStep => (SignedIn(u) /\ u = admin) \/ (~SignedIn(u) /\ setup'.data = "fresh")
  BY <1>8, PageAdmins
<1>10. SetupPage(shown, setup.data)' = SetupPage(u, setup'.data)
  BY <1>4 DEF SetupPage, SignedIn
<1>11. step' = 0 => setup'.data = "fresh"
  BY <1>8, <1>9 DEF NoStep
<1>12. step' > 0 => shown' = admin' \/ Holder(cookie)' \in {admin', Nobody}
  <2> SUFFICES ASSUME step' > 0, ~SignedIn(u)
               PROVE  Holder(cookie)' = Nobody
    BY <1>4, <1>9 DEF NoStep
  <2>1. step' # NoStep
    BY DEF NoStep
  <2> QED BY <1>5, <1>9, <2>1 DEF SInv, Unfresh, Fresh
<1>13. Wizards'
  BY <1>5, <1>8, <1>10, <1>11, <1>12, Names DEF Wizards, WizardIsAdmins, Statuses, Unknown
<1>14. step' > 0 => step > 0 \/ SignedIn(u)
  BY <1>8 DEF NoStep, Rest
<1> QED BY <1>5, <1>6, <1>13, <1>14

\* What neither renders nor changes the cookie.
LEMMA StaysRouted ==
    ASSUME SInv, SInv', Rest, Routed,
           UNCHANGED <<cookie, watching, shown, path, step>>,
           accounts \subseteq accounts', admin' = admin \/ accounts = {},
           Holder(cookie)' \in {Holder(cookie), Nobody},
           setup'.data = setup.data, setup'.gone = setup.gone,
           setup'.get = setup.get \/ setup'.get # Idle,
           Fresh' => Fresh \/ accounts = {},
           form'.kind \in {form.kind, "none"},
           form'.phase \in {Sent, "answered"} => form.phase \in {Sent, "answered"},
           form.phase \in {"me", "setup"} =>
               form'.kind = form.kind /\ form'.phase \in {"me", "setup"},
           form'.kind = "account" /\ form'.phase = "answered" /\ form'.answer = "ok" =>
               accounts' # {} /\ Holder(form.session)' \in {admin', Nobody}
    PROVE  Routed'
<1>1. Spins'
  BY DEF Routed, Spins
<1>2. Gones'
  BY DEF Routed, Gones
<1>3. Outs'
  BY DEF Routed, Outs
<1>4. SetupPage(shown, setup.data) = "setup" => SetupPage(shown, setup.data)' = "setup"
  <2>1. CASE admin' = admin
    BY <2>1 DEF SetupPage, SignedIn
  <2>2. CASE accounts = {}
    BY <2>2, Names DEF SetupPage, SignedIn, SInv, Typed
  <2> QED BY <2>1, <2>2
<1>5. WizardIsAdmins'
  <2>1. CASE admin' = admin
    BY <2>1 DEF Routed, Wizards, WizardIsAdmins
  <2>2. CASE accounts = {}
    BY <2>2, HolderTyped DEF WizardIsAdmins, SInv, Typed
  <2> QED BY <2>1, <2>2
<1>7. Holder(cookie) \in {admin, Nobody} => Holder(cookie)' \in {admin', Nobody}
  BY HolderTyped DEF SInv, Typed
<1>6. Wizards'
  BY <1>4, <1>5, <1>7 DEF Routed, Wizards
<1> QED BY <1>1, <1>2, <1>3, <1>6 DEF Routed

LEMMA BecomesRouted ==
    ASSUME SInv, SInv', Rest, Routed, NEW d, Becomes(d),
           UNCHANGED <<accounts, admin, owner, cookie, watching>>,
           form' = form \/ (form' = NoForm /\ form.phase = "answered"),
           me.get = NoFlight => d = Nobody
    PROVE  Routed'
<1> DEFINE u == IF watching THEN d ELSE shown
<1>1. \A n : Holder(n)' = Holder(n) /\ setup \in Setups
  BY DEF Holder, SInv, Typed
<1>2. /\ form'.kind \in {form.kind, "none"}
      /\ form'.phase \in {Sent, "answered"} => form.phase \in {Sent, "answered"} /\ form' = form
      /\ form.phase \in {"me", "setup"} => form' = form
  BY NoFormTyped, Names DEF Idle, Sent
<1>3. CASE UNCHANGED <<path, shown, setup, step>> /\ u = shown
  <2>1. Wizards'
    BY <1>1, <1>2, <1>3 DEF Routed, Wizards, WizardIsAdmins, SetupPage, SignedIn
  <2>2. Spins' /\ Gones'
    BY <1>2, <1>3 DEF Routed, Spins, Gones
  <2>3. Outs'
    BY <1>1, <1>2, <1>3 DEF Routed, Outs, Fresh
  <2> QED BY <2>1, <2>2, <2>3 DEF Routed
<1>4. CASE Render(path, u, setup) /\ u # shown
  <2>1. watching /\ u = d
    BY <1>4
  <2>2. /\ setup'.gone = FALSE /\ Spins' /\ Gones' /\ Wizards'
        /\ ~setup.gone /\ setup.data # Unknown => setup' = setup
        /\ step' > 0 => step > 0 \/ SignedIn(u)
    BY <1>1, <1>4, RenderRouted DEF Routed, Wizards
  <2>3. shown' = u /\ (Fresh' => Fresh) /\ step' \in {NoStep, 0, 1, 2}
    BY <1>1, <1>4, RenderFacts DEF Render, Fresh, Wizard, Rest
  <2>4. Outs'
    <3>1. form'.kind = "logout" => ~setup.gone /\ setup.data # Unknown
      BY <1>2, <2>1 DEF Routed, Gones, Outs
    <3>2. ASSUME form'.kind = "account", form'.phase \in {Sent, "answered"}
          PROVE  /\ setup'.data # Unknown /\ ~setup'.gone /\ step' \in {NoStep, 0}
                 /\ ~SignedIn(shown')
      <4>1. /\ form.kind = "account" /\ form.phase \in {Sent, "answered"}
        BY <1>2, <3>2 DEF NoForm
      <4>2. setup.data # Unknown /\ ~setup.gone /\ step \in {NoStep, 0} /\ me.get = NoFlight
        BY <4>1, FormAlone DEF Routed, Outs
      <4>3. ~SignedIn(u)
        BY <2>1, <4>2, Names DEF SignedIn
      <4> QED BY <2>2, <2>3, <4>2, <4>3 DEF NoStep
    <3>3. accounts' = accounts /\ watching' = watching /\ (form'.kind = "logout" => form.kind = "logout")
      BY <1>2
    <3>4. form'.kind = "account" /\ form'.phase = "answered" /\ form'.answer = "ok" =>
             accounts # {} /\ Holder(form.session)' \in {admin', Nobody}
      BY <1>1, <1>2 DEF Routed, Outs
    <3> QED BY <2>2, <2>3, <3>1, <3>2, <3>3, <3>4 DEF Routed, Outs
  <2> QED BY <2>2, <2>4 DEF Routed
<1> QED BY <1>3, <1>4 DEF Becomes

LEMMA UnauthorizedRouted ==
    ASSUME SInv, SInv', Rest, Routed, Unauthorized,
           UNCHANGED <<accounts, admin, owner, cookie, watching>>,
           form' = form \/ (form' = NoForm /\ form.phase = "answered")
    PROVE  Routed'
<1>1. CASE SignedIn(me.data)
  <2>1. Becomes(Nobody) /\ me'.get = me.get
    BY <1>1, UnauthorizedFacts DEF Unauthorized
  <2> QED BY <2>1, BecomesRouted
<1>2. CASE ~SignedIn(me.data)
  <2>1. UNCHANGED <<me, path, shown, setup, step>>
    BY <1>2 DEF Unauthorized
  <2>2. (\A n : Holder(n)' = Holder(n)) /\ Fresh' = Fresh
    BY <2>1 DEF Holder, Fresh
  <2>3. /\ form'.kind \in {form.kind, "none"}
        /\ form'.phase \in {Sent, "answered"} => form.phase \in {Sent, "answered"} /\ form' = form
        /\ form.phase \in {"me", "setup"} => form' = form
    BY NoFormTyped DEF Idle, Sent
  <2>4. form'.kind = "account" /\ form'.phase = "answered" /\ form'.answer = "ok" =>
           accounts' # {} /\ Holder(form.session)' \in {admin', Nobody}
    BY <2>2, <2>3 DEF Routed, Outs
  <2> QED BY <2>1, <2>2, <2>3, <2>4, StaysRouted
<1> QED BY <1>1, <1>2

LEMMA SubmitRouted ==
    ASSUME SInv, Rest, Routed, NEW kind \in Kinds \ {"none"}, NEW u, NEW right,
           Submit(kind, u, right)
    PROVE  Routed'
<1>1. /\ UNCHANGED <<server, cookie, me, setup, watching, shown, path, step>>
      /\ form = NoForm /\ Offered(kind) /\ form'.kind = kind /\ form'.phase = Sent
      /\ form'.phase # "answered"
  BY DEF Submit, Sent
<1>2. Spins'
  BY <1>1 DEF Routed, Spins
<1>3. kind \in {"password", "logout"} =>
         SignedIn(shown) /\ path \in {"app", "admin"} /\ setup.data # Unknown
  BY <1>1 DEF Offered, InApp
<1>4. Gones'
  BY <1>1, <1>3 DEF Routed, Gones
<1>5. kind = "logout" => accounts # {} /\ ~Fresh /\ setup.data # Unknown
  BY <1>3, Names DEF SInv, Typed, Unfresh, SignedIn
<1>6. ASSUME kind = "account"
      PROVE  setup.data # Unknown /\ ~setup.gone /\ step = 0 /\ ~SignedIn(shown)
  <2>1. step = 0
    BY <1>1, <1>6 DEF Offered
  <2> QED BY <1>1, <2>1, NoFormTyped DEF SInv, Unfresh, Fresh, Routed, Wizards, Unknown
<1>7. Outs'
  BY <1>1, <1>5, <1>6 DEF Routed, Outs, server, Fresh
<1>8. Wizards'
  <2>1. step = 0 => ~setup.gone
    BY <1>1, NoFormTyped DEF Routed, Wizards
  <2> QED BY <1>1, <2>1 DEF Routed, Wizards, WizardIsAdmins, Holder, server, SetupPage
<1> QED BY <1>2, <1>4, <1>7, <1>8 DEF Routed

LEMMA RemovedRouted ==
    ASSUME SInv
    PROVE  /\ path \in Shows => Removed.data = setup.data /\ Removed.gone = TRUE /\ Removed.get = Idle
           /\ path \notin Shows => Removed.gone = FALSE /\ Removed.get = Idle
           /\ "fresh" \in {Removed.data, Removed.get} => Fresh
<1>1. setup \in Setups
  BY DEF SInv, Typed
<1>2. path \in Shows => Removed = [data |-> setup.data, get |-> Idle, gone |-> TRUE]
  BY <1>1 DEF Removed, Setups, Shows
<1>3. path \notin Shows => Removed = NoSetup
  BY DEF Removed, Shows
<1> QED BY <1>2, <1>3 DEF NoSetup, Unknown, Idle, Fresh

LEMMA SignedInArrivesRouted ==
    ASSUME SInv, SInv', Rest, Routed, SignedInArrives
    PROVE  Routed'
<1>1. /\ UNCHANGED <<server, watching>>
      /\ form.phase = "answered" /\ form.kind \in SignIns /\ form.answer = "ok" /\ form \in Forms
      /\ cookie' = form.session
      /\ \/ me.data = Unknown /\ Render(path, Unknown, Removed)
         \/ setup' = Removed /\ UNCHANGED <<path, shown, step>>
  BY DEF SignedInArrives, SInv, Typed
<1>2. form'.kind = form.kind /\ form'.phase = "me"
  BY <1>1 DEF SignedInArrives, Forms
<1>5. form.kind \in {"account", "login", "invite"}
  BY <1>1 DEF SignIns
<1>3. CASE me.data = Unknown /\ Render(path, Unknown, Removed)
  <2>1. ~SignedIn(Unknown) /\ Removed \in Setups /\ watching
    BY <1>3, Names, RemovedFacts DEF SignedIn, SInv, Agree
  <2>2. Spins' /\ Gones' /\ Wizards'
    BY <1>1, <1>3, <2>1, RenderRouted DEF server
  <2>3. Outs'
    BY <1>1, <1>2, <1>5, <2>1 DEF Outs, Sent
  <2> QED BY <2>2, <2>3 DEF Routed
<1>4. CASE setup' = Removed /\ UNCHANGED <<path, shown, step>>
  <2>6. path \in Shows =>
           form.kind = "account" /\ setup.data # Unknown /\ step \in {NoStep, 0} /\ ~SignedIn(shown)
    BY <1>1, <1>5 DEF SInv, Filled, Shows, Routed, Outs
  <2>7. /\ path \in Shows => setup'.data = setup.data /\ setup'.gone = TRUE
        /\ path \notin Shows => setup'.gone = FALSE
        /\ Fresh' => Fresh
    <3>1. Fresh' => Fresh
      BY <1>4, RemovedRouted DEF Fresh
    <3> QED BY <1>4, <3>1, RemovedRouted
  <2>8. Spins'
    BY <1>4, <2>6, <2>7 DEF Spins
  <2>9. Gones'
    BY <1>2, <1>4, <1>5, <2>6, <2>7 DEF Gones, Shows
  <2>10. Outs'
    BY <1>1, <1>2, <1>5, <2>7 DEF Routed, Outs, server, Sent
  <2>11. step # NoStep => path \in Shows /\ step = 0
    <3>1. step # NoStep => path \in Shows
      BY DEF Routed, Wizards, Shows
    <3> QED BY <2>6, <3>1
  <2>12. Wizards'
    <3>1. step > 0 => FALSE
      BY <2>11 DEF NoStep, Rest
    <3>2. step' = step /\ path' = path
      BY <1>4
    <3>3. step # NoStep => path = "setup" /\ setup'.gone = TRUE /\ setup'.data = setup.data /\ setup.data # Unknown
      BY <2>6, <2>7, <2>11 DEF Routed, Wizards
    <3>4. step = 0 => setup.data = "fresh" /\ form'.kind = "account" /\ form.kind = "account"
      BY <1>2, <2>6, <2>11 DEF Routed, Wizards, NoStep
    <3>5. WizardIsAdmins'
      BY <3>1, <3>2 DEF WizardIsAdmins
    <3>6. form.kind = "account" => Holder(cookie)' \in {admin', Nobody}
      BY <1>1 DEF Routed, Outs, Holder, server
    <3> QED BY <1>2, <3>2, <3>3, <3>4, <3>5, <3>6 DEF Wizards, NoStep
  <2> QED BY <2>8, <2>9, <2>10, <2>12 DEF Routed
<1> QED BY <1>1, <1>3, <1>4

LEMMA PasswordArrivesRouted ==
    ASSUME SInv, SInv', Rest, Routed, PasswordArrives
    PROVE  Routed'
<1>1. /\ UNCHANGED <<server, me, setup, watching, shown, path, step>>
      /\ form.kind = "password" /\ form' = NoForm
  BY DEF PasswordArrives
<1>2. Spins' /\ Gones' /\ Outs'
  BY <1>1, NoFormTyped DEF Routed, Spins, Gones, Outs, Fresh, server, Idle, Sent
<1>3. step # NoStep => ~setup.gone /\ setup.data \in Statuses /\ SetupPage(shown, setup.data) = "setup"
  BY <1>1 DEF SInv, Typed, Setups, Routed, Gones, Wizards
<1>4. step # NoStep => shown = admin \/ (~SignedIn(shown) /\ setup.data = "fresh")
  BY <1>3, PageAdmins
<1>5. step # NoStep => WizardIsAdmins'
  BY <1>1, <1>3, <1>4 DEF SInv, Unfresh, Fresh, WizardIsAdmins, server
<1>6. Wizards'
  <2>1. step = NoStep => WizardIsAdmins'
    BY <1>1 DEF WizardIsAdmins, NoStep
  <2> QED BY <1>1, <1>3, <1>5, <2>1 DEF Routed, Wizards, SetupPage, server
<1> QED BY <1>2, <1>6 DEF Routed

LEMMA LogoutArrivesRouted ==
    ASSUME SInv, SInv', Rest, Routed, LogoutArrives
    PROVE  Routed'
<1> DEFINE out == form.answer \in {"401", Mistaken} /\ SignedIn(me.data) /\ watching
<1>1. /\ UNCHANGED server /\ form.kind = "logout" /\ cookie' \in {0, cookie}
      /\ watching' = out /\ form' = NoForm
      /\ out => Render(path, Nobody, Removed)
      /\ ~out => setup' = Removed /\ UNCHANGED <<path, shown, step>>
  BY DEF LogoutArrives
<1>2. Holder(cookie)' \in {Holder(cookie), Nobody}
  BY <1>1 DEF Holder, server
<1>3. CASE out
  <2>1. ~SignedIn(Nobody) /\ Removed \in Setups
    BY Names, RemovedFacts DEF SignedIn
  <2>2. Spins' /\ Gones' /\ Wizards'
    BY <1>1, <1>3, <2>1, RenderRouted DEF server
  <2>3. Outs'
    BY <1>1, <1>3, NoFormTyped DEF Outs
  <2> QED BY <2>2, <2>3 DEF Routed
<1>4. CASE ~out
  <2> HIDE DEF out
  <2>1. accounts # {} /\ ~Fresh /\ setup.data # Unknown /\ step # 0
    BY <1>1 DEF Routed, Outs, Wizards, Fresh
  <2>2. /\ path \in Shows => setup'.data = setup.data /\ setup'.gone = TRUE
        /\ ~Fresh'
    BY <1>1, <1>4, <2>1, RemovedRouted DEF Fresh
  <2>3. Spins' /\ Gones' /\ Outs'
    BY <1>1, <1>4, <2>1, <2>2, NoFormTyped DEF Spins, Gones, Outs, server
  <2>4. step # NoStep => path \in Shows
    BY DEF Routed, Wizards, Shows
  <2>5. WizardIsAdmins'
    BY <1>1, <1>2, <1>4 DEF Routed, Wizards, WizardIsAdmins, server
  <2>6. Wizards'
    BY <1>1, <1>4, <2>1, <2>2, <2>4, <2>5 DEF Routed, Wizards
  <2> QED BY <2>3, <2>6 DEF Routed
<1> QED BY <1>3, <1>4

LEMMA FormDoneRouted ==
    ASSUME SInv, SInv', Rest, Routed, FormDone
    PROVE  Routed'
<1>1. /\ UNCHANGED <<server, cookie, me, watching>> /\ form.phase = "setup" /\ form' = NoForm
      /\ \/ /\ UNCHANGED <<path, shown, setup>>
            /\ step' = IF step = 0 /\ setup.gone THEN 1 ELSE step
            /\ form.kind = "account"
         \/ \E p \in {from, "app"} : Render(p, shown, setup)
  BY DEF FormDone
<1>2. me.get = NoFlight /\ setup \in Setups
  BY <1>1, FormAlone DEF SInv, Typed
<1>3. CASE /\ UNCHANGED <<path, shown, setup>>
           /\ step' = IF step = 0 /\ setup.gone THEN 1 ELSE step
  <2>1. Spins' /\ Gones' /\ Outs'
    BY <1>1, <1>3, NoFormTyped DEF Routed, Spins, Gones, Outs, Fresh, server, Idle, Sent
  <2>2. step = 0 /\ setup.gone => Holder(cookie) \in {admin, Nobody}
    BY DEF Routed, Wizards
  <2>3. Holder(cookie)' = Holder(cookie)
    BY <1>1 DEF Holder, server
  <2>4. WizardIsAdmins'
    BY <1>1, <1>3, <2>2, <2>3 DEF Routed, Wizards, WizardIsAdmins, server
  <2>5. Wizards'
    BY <1>1, <1>3, <2>4 DEF Routed, Wizards, SetupPage, server, NoStep
  <2> QED BY <2>1, <2>5 DEF Routed
<1>4. ASSUME NEW p, Render(p, shown, setup)
      PROVE  Routed'
  <2>1. Spins' /\ Gones' /\ Wizards'
    BY <1>1, <1>2, <1>4, RenderRouted DEF Routed, Wizards, server
  <2>2. Fresh' => Fresh
    BY <1>2, <1>4, RenderFacts DEF Fresh
  <2>3. Outs'
    BY <1>1, <2>2, NoFormTyped DEF Routed, Outs, server, Idle, Sent
  <2> QED BY <2>1, <2>3 DEF Routed
<1> QED BY <1>1, <1>3, <1>4

LEMMA RendersRouted ==
    ASSUME SInv, SInv', Rest, Routed, Redirects \/ SetupArrives
    PROVE  Routed'
<1>1. UNCHANGED <<server, cookie, me, watching, form>> /\ ~setup.gone /\ setup \in Setups
  BY DEF Redirects, SetupArrives, SInv, Typed, Unfresh
<1>2. PICK p, s : /\ s \in Setups /\ Render(p, shown, s) /\ s.gone = FALSE
                  /\ setup.data # Unknown => s.data # Unknown
                  /\ "fresh" \in {s.data, s.get} => Fresh
  <2>1. CASE Redirects
    <3>1. PICK s \in {setup, [setup EXCEPT !.get = Sent]} : Render(Target, shown, s)
      BY <2>1 DEF Redirects
    <3>2. s \in Setups /\ s.gone = FALSE /\ s.data = setup.data /\ s.get \in {setup.get, Sent}
      BY <1>1 DEF Setups
    <3>3. "fresh" \in {s.data, s.get} => Fresh
      BY <3>2 DEF Fresh, Sent
    <3> QED BY <3>1, <3>2, <3>3
  <2>2. CASE SetupArrives
    <3> DEFINE s == [data |-> setup.get, get |-> Idle, gone |-> FALSE]
    <3>1. Render(path, shown, s) /\ setup.get \in Statuses
      BY <1>1, <2>2 DEF SetupArrives, Setups
    <3>2. s \in Setups /\ s.gone = FALSE /\ s.data = setup.get /\ s.get = Idle /\ s.data # Unknown
      BY <3>1 DEF Setups, Statuses, Unknown
    <3> HIDE DEF s
    <3>3. "fresh" \in {s.data, s.get} => Fresh
      BY <3>2 DEF Fresh, Idle
    <3> QED BY <3>1, <3>2, <3>3
  <2> QED BY <2>1, <2>2
<1>3. step = 0 => ~SignedIn(shown)
  BY DEF SInv, Unfresh, Fresh, Routed, Wizards
<1>4. /\ setup'.gone = FALSE /\ Spins' /\ Gones' /\ Wizards' /\ (s.data # Unknown => setup' = s)
      /\ step' > 0 => step > 0 \/ SignedIn(shown)
  BY <1>1, <1>2, <1>3, RenderRouted DEF server
<1>5. shown' = shown /\ (Fresh' => Fresh) /\ step' \in {NoStep, 0, 1, 2}
  BY <1>2, RenderFacts DEF Render, Wizard, Rest
<1>6. Outs'
  <2>1. Holder(form.session)' = Holder(form.session)
    BY <1>1 DEF Holder, server
  <2> QED BY <1>1, <1>2, <1>4, <1>5, <2>1 DEF Routed, Outs, server, NoStep
<1> QED BY <1>4, <1>6 DEF Routed

LEMMA LoadsRouted ==
    ASSUME NEW p \in Paths, Loads(p)
    PROVE  Routed'
<1>1. /\ watching' = TRUE /\ path' = p /\ form' = NoForm /\ setup' = Watched(p, NoSetup) /\ step' = NoStep
  BY DEF Loads
<1>2. setup'.gone = FALSE /\ (p \in Shows => setup'.get = Sent)
  BY <1>1 DEF Watched, NoSetup, Shows
<1> QED BY <1>1, <1>2, NoFormTyped
        DEF Routed, Spins, Gones, Outs, Wizards, WizardIsAdmins, NoStep, Idle, Sent

LEMMA InitRouted == Init => Routed
<1> SUFFICES ASSUME Init
             PROVE  Routed
  OBVIOUS
<1>1. /\ watching = TRUE /\ form = NoForm /\ setup = Watched(path, NoSetup) /\ step = NoStep
  BY DEF Init
<1>2. setup.gone = FALSE /\ (path \in Shows => setup.get = Sent)
  BY <1>1 DEF Watched, NoSetup, Shows
<1> QED BY <1>1, <1>2, NoFormTyped
        DEF Routed, Spins, Gones, Outs, Wizards, WizardIsAdmins, NoStep, Idle, Sent


LEMMA OthersRouted ==
    ASSUME SInv, SInv', Rest, Routed,
           \/ MeRead \/ SetupRead \/ FormHandled \/ FormLost \/ FinishArrives \/ MeAwaited
           \/ OtherFinishes \/ \E u \in Users : OtherRegisters(u)
           \/ \E s \in Sessions : SessionEnds(s)
           \/ \E i \in Requests : Opens(i) \/ GetRead(i)
           \/ UNCHANGED vars
    PROVE  Routed'
<1> DEFINE Kept ==
             /\ form'.kind \in {form.kind, "none"}
             /\ form'.phase \in {Sent, "answered"} => form.phase \in {Sent, "answered"}
             /\ form.phase \in {"me", "setup"} => form'.kind = form.kind /\ form'.phase \in {"me", "setup"}
           Same ==
             /\ setup'.data = setup.data /\ setup'.gone = setup.gone
             /\ setup'.get = setup.get \/ setup'.get # Idle
             /\ Fresh' => Fresh \/ accounts = {}
           Made ==
             form'.kind = "account" /\ form'.phase = "answered" /\ form'.answer = "ok" =>
                 accounts' # {} /\ Holder(form.session)' \in {admin', Nobody}
<1>1. ASSUME UNCHANGED <<cookie, watching, shown, path, step>>,
             accounts \subseteq accounts', admin' = admin \/ accounts = {},
             Holder(cookie)' \in {Holder(cookie), Nobody}, Same, Kept,
             Made
      PROVE  Routed'
  BY <1>1, StaysRouted
<1>2. UNCHANGED setup => Same
  BY DEF Fresh
<1>3. UNCHANGED form => Kept
  OBVIOUS
<1>14. ASSUME UNCHANGED form, accounts \subseteq accounts', admin' = admin \/ accounts = {},
              \A n \in Tokens : Holder(n)' \in {Holder(n), Nobody}
       PROVE  Made
  BY <1>14 DEF Routed, Outs, SInv, Typed
<1>15. ASSUME UNCHANGED <<form, accounts, admin, owner>>
       PROVE  Made
  BY <1>15 DEF Routed, Outs, Holder
<1>16. form'.kind # "account" \/ form'.phase # "answered" \/ form'.answer # "ok" => Made
  OBVIOUS
<1>4. UNCHANGED <<owner, cookie>> => Holder(cookie)' \in {Holder(cookie), Nobody}
  BY DEF Holder
<1>5. /\ form \in Forms /\ setup \in Setups /\ cookie \in Tokens /\ issued \in Nat
      /\ owner \in [Sessions -> accounts \cup {Nobody}]
  BY WebSessionConstants DEF SInv, Typed
<1>6. SetupAgain.data = setup.data /\ SetupAgain.gone = setup.gone /\ (SetupAgain = setup \/ SetupAgain.get = Sent)
  BY SetupAgainFacts
<1> HIDE DEF Kept, Same, Made
<1>7. CASE MeRead
  BY <1>1, <1>2, <1>3, <1>4, <1>7, <1>15 DEF MeRead, server
<1>8. CASE SetupRead
  <2>1. setup' = [data |-> setup.data, get |-> Status, gone |-> setup.gone]
    BY <1>5, <1>8 DEF SetupRead, Setups
  <2>2. Status # Idle /\ (Status = "fresh" => accounts = {})
    BY DEF Status, Idle
  <2>3. Same
    BY <2>1, <2>2 DEF Same, Fresh
  <2> QED BY <1>1, <1>3, <1>4, <1>8, <1>15, <2>3 DEF SetupRead, server
<1>9. CASE FormLost
  <2>1. form'.kind = form.kind /\ form'.phase = "answered" /\ form.phase = Sent /\ form'.answer # "ok"
    BY <1>5, <1>9 DEF FormLost, Forms, Mistaken
  <2>2. Kept
    BY <2>1 DEF Kept, Sent
  <2> QED BY <1>1, <1>2, <1>4, <1>9, <1>16, <2>1, <2>2 DEF FormLost, server
<1>10. CASE FormHandled
  <2>1. form'.kind = form.kind /\ form'.phase = "answered" /\ form.phase = Sent
    BY <1>5, <1>10 DEF FormHandled, Forms
  <2>2. Kept
    BY <2>1 DEF Kept, Sent
  <2>3. /\ UNCHANGED <<cookie, me, setup, watching, shown, path, step>>
        /\ accounts \subseteq accounts' /\ (admin' = admin \/ accounts = {})
        /\ \A s \in Sessions : s # issued + 1 => owner'[s] \in {owner[s], Nobody}
    BY <1>10 DEF FormHandled
  <2>4. Holder(cookie)' \in {Holder(cookie), Nobody}
    BY <1>5, <2>3, HolderTyped DEF Holder, Tokens, SInv
  <2>5. Made
    <3> SUFFICES ASSUME form.kind = "account", form'.answer = "ok"
                 PROVE  accounts' # {} /\ Holder(form.session)' \in {admin', Nobody}
      BY <2>1 DEF Made
    <3>1. form'.answer = Answer(form)
      BY <1>5, <1>10 DEF FormHandled, Forms
    <3>2. accounts = {} /\ Answer(form) = "ok"
      BY <3>1 DEF Answer
    <3>3. form'.session = issued + 1 /\ issued < MaxSessions /\ issued + 1 \in Sessions
      BY <1>5, <1>10, <3>2, WebSessionConstants DEF FormHandled, Forms, SignIns, Sessions
    <3>4. /\ accounts' = accounts \cup {form.user} /\ admin' = form.user
          /\ owner'[issued + 1] = form.user
      BY <1>10, <3>2, <3>3 DEF FormHandled, SignIns
    <3>5. Holder(form.session)' = form.user
      BY <1>5, <3>3, <3>4 DEF Holder
    <3> QED BY <3>4, <3>5
  <2> QED BY <1>1, <1>2, <2>2, <2>3, <2>4, <2>5
<1>11. CASE FinishArrives \/ MeAwaited
  <2>1. /\ UNCHANGED <<server, cookie, me, watching, shown, path, step>> /\ setup' = SetupAgain
        /\ form.phase \in {"answered", "me"} /\ form' = [form EXCEPT !.phase = "setup"]
    BY <1>11 DEF FinishArrives, MeAwaited
  <2>2. form'.kind = form.kind /\ form'.phase = "setup"
    BY <1>5, <2>1 DEF Forms
  <2>3. Kept
    BY <2>2 DEF Kept, Sent
  <2>4. Same
    BY <1>6, <2>1 DEF Same, Fresh, Sent, Idle
  <2> QED BY <1>1, <1>4, <1>16, <2>1, <2>2, <2>3, <2>4 DEF server
<1>12. CASE \/ OtherFinishes \/ \E u \in Users : OtherRegisters(u)
            \/ \E s \in Sessions : SessionEnds(s)
            \/ UNCHANGED vars
  <2>1. /\ UNCHANGED <<cookie, me, setup, watching, shown, path, step, form>>
        /\ accounts \subseteq accounts' /\ (admin' = admin \/ accounts = {})
    BY <1>12 DEF OtherFinishes, OtherRegisters, SessionEnds, vars, server
  <2>2. \A s \in Sessions : owner'[s] \in {owner[s], Nobody}
    BY <1>5, <1>12 DEF OtherFinishes, OtherRegisters, SessionEnds, vars, server
  <2>3. Holder(cookie)' \in {Holder(cookie), Nobody}
    BY <1>5, <2>1, <2>2, HolderTyped DEF Holder, SInv
  <2>4. \A n \in Tokens : Holder(n)' \in {Holder(n), Nobody}
    BY <1>5, <2>2, HolderTyped DEF Holder, SInv
  <2> QED BY <1>1, <1>2, <1>3, <1>14, <2>1, <2>3, <2>4
<1>13. CASE \E i \in Requests : Opens(i) \/ GetRead(i)
  BY <1>1, <1>2, <1>3, <1>4, <1>13, <1>15 DEF Opens, GetRead, server
<1> QED BY <1>7, <1>8, <1>9, <1>10, <1>11, <1>12, <1>13

LEMMA AnswersRouted ==
    ASSUME SInv, SInv', Rest, Routed,
           \/ MeArrives \/ Refused \/ WizardNext
           \/ \E i \in Requests : GetArrives(i)
    PROVE  Routed'
<1>1. CASE MeArrives
  <2>1. /\ UNCHANGED <<server, cookie, watching, form>> /\ me.get # NoFlight
        /\ \E d : Becomes(d)
    BY <1>1 DEF MeArrives, NoFlight
  <2> QED BY <2>1, BecomesRouted DEF server
<1>2. CASE Refused \/ \E i \in Requests : GetArrives(i)
  <2>1. /\ UNCHANGED <<server, cookie, watching>>
        /\ form' = form \/ (form' = NoForm /\ form.phase = "answered")
        /\ Unauthorized \/ UNCHANGED <<me, path, shown, setup, step>>
    BY <1>2 DEF Refused, GetArrives
  <2>2. CASE Unauthorized
    BY <2>1, <2>2, UnauthorizedRouted DEF server
  <2>3. CASE UNCHANGED <<me, path, shown, setup, step>>
    <3>1. (\A n : Holder(n)' = Holder(n)) /\ Fresh' = Fresh
      BY <2>1, <2>3 DEF Holder, Fresh, server
    <3>2. /\ form'.kind \in {form.kind, "none"}
          /\ form'.phase \in {Sent, "answered"} => form.phase \in {Sent, "answered"} /\ form' = form
          /\ form.phase \in {"me", "setup"} => form' = form
      BY <2>1, NoFormTyped DEF Idle, Sent
    <3>3. form'.kind = "account" /\ form'.phase = "answered" /\ form'.answer = "ok" =>
             accounts' # {} /\ Holder(form.session)' \in {admin', Nobody}
      BY <2>1, <3>1, <3>2 DEF Routed, Outs, server
    <3> QED BY <2>1, <2>3, <3>1, <3>2, <3>3, StaysRouted DEF server
  <2> QED BY <2>1, <2>2, <2>3
<1>3. CASE WizardNext
  <2>1. /\ UNCHANGED <<server, cookie, me, setup, watching, shown, path, form>> /\ step = 1 /\ step' = 2
    BY <1>3 DEF WizardNext
  <2>2. Spins' /\ Gones'
    BY <2>1 DEF Routed, Spins, Gones
  <2>3. Outs'
    BY <2>1 DEF Routed, Outs, NoStep, Fresh, server
  <2>4. Wizards'
    BY <2>1 DEF Routed, Wizards, WizardIsAdmins, NoStep, Holder, SetupPage, server
  <2> QED BY <2>2, <2>3, <2>4 DEF Routed
<1> QED BY <1>1, <1>2, <1>3

LEMMA NextRouted ==
    ASSUME SInv, SInv', Rest, Routed, [Next]_vars
    PROVE  Routed'
<1>1. CASE Browser
  BY <1>1, RendersRouted, OthersRouted, AnswersRouted, SignedInArrivesRouted, PasswordArrivesRouted,
     LogoutArrivesRouted, FormDoneRouted DEF Browser
<1>2. CASE \E p \in Paths : Loads(p)
  BY <1>2, LoadsRouted
<1>3. CASE \E i \in DOMAIN gets : Opens(i) \/ GetRead(i) \/ GetArrives(i)
  BY <1>3, OthersRouted, AnswersRouted DEF SInv, Typed
<1>4. ASSUME NEW kind \in {"login", "invite", "account", "finish", "password", "logout"},
             NEW u \in Users \cup {Nobody}, NEW right \in BOOLEAN, Submit(kind, u, right)
      PROVE  Routed'
  <2>1. kind \in Kinds \ {"none"}
    BY DEF Kinds, SignIns
  <2> QED BY <1>4, <2>1, SubmitRouted
<1>5. CASE \/ FormLost \/ WizardNext \/ OtherFinishes
           \/ \E u \in Users : OtherRegisters(u)
           \/ \E s \in Sessions : SessionEnds(s)
           \/ UNCHANGED vars
  BY <1>5, OthersRouted, AnswersRouted
<1> QED BY <1>1, <1>2, <1>3, <1>4, <1>5 DEF Next

LEMMA RoutedInvariance ==
    ASSUME ~Early
    PROVE  Spec => [](SInv /\ Rest /\ Routed)
<1>1. Init => SInv /\ Rest /\ Routed
  BY SInit, RestInit, InitRouted
<1>2. SInv /\ Rest /\ Routed /\ [Next]_vars => (SInv /\ Rest /\ Routed)'
  BY SNext, RestNext, NextRouted
<1> QED BY <1>1, <1>2, PTL DEF Spec

-----------------------------------------------------------------------------
(* Theorems *)

\* Every variable holds a value of its kind, whatever is answered and ended.
THEOREM TypeCorrect ==
    ASSUME ~Early
    PROVE  Spec => []SessionTypeOK
<1>2. SInv /\ Rest /\ [Next]_vars => Rest'
  BY RestNext
<1>3. SInv /\ Rest => SessionTypeOK
  <2> SUFFICES ASSUME SInv, Rest
               PROVE  SessionTypeOK
    OBVIOUS
  <2>1. accounts \subseteq Users /\ owner \in [Sessions -> Users \cup {Nobody}]
    BY DEF SInv, Typed
  <2> QED BY <2>1 DEF SInv, Typed, Rest, SessionTypeOK, Setups, Statuses, Tokens
<1> QED BY <1>2, <1>3, RestInit, Invariance, PTL DEF Spec

\* The pages of the app hold their user's data only, whoever was signed in
\* before and whatever requests are still out, unless the last request for
\* /api/me failed (refresh, logout and onUnauthorized in auth.tsx).
THEOREM CacheStaysOwn ==
    ASSUME ~Early
    PROVE  Spec => []CacheIsOwn
<1>1. SInv => CacheIsOwn
  BY DEF SInv, Own, CacheIsOwn, InApp
<1> QED BY <1>1, Invariance, PTL

\* A page that shows a spinner has an answer on its way, of /api/me or of the
\* setup status, whatever refresh and logout took from the cache (RequireUser,
\* SetupPage).
THEOREM SpinnerAwaited ==
    ASSUME ~Early
    PROVE  Spec => []SpinnerIsAwaited
<1>1. SInv /\ Routed => SpinnerIsAwaited
  BY DEF SInv, Loaded, Loading, Routed, Spins, Shows, SpinnerIsAwaited
<1> QED BY <1>1, RoutedInvariance, PTL

\* Past its first step the wizard is shown to the admin, or in a browser whose
\* session is the admin's or over (SetupPage, SetupSteps).
THEOREM WizardIsForAdmins ==
    ASSUME ~Early
    PROVE  Spec => []WizardIsAdmins
<1>1. Routed => WizardIsAdmins
  BY DEF Routed, Wizards
<1> QED BY <1>1, RoutedInvariance, PTL

\* Three redirects end on a page that stays, for every user and setup status
\* that the browser can have cached together (RequireUser, LoginPage,
\* SetupPage).
THEOREM RoutesEnd ==
    ASSUME ~Early
    PROVE  Spec => []NoRedirectLoop
<1>1. SInv => NoRedirectLoop
  <2> SUFFICES ASSUME SInv
               PROVE  NoRedirectLoop
    OBVIOUS
  <2>1. /\ path \in Paths /\ from \in {"app", "admin"} /\ setup.data \in Statuses \cup {Unknown}
        /\ SignedIn(shown) => setup.data # "fresh"
    BY DEF SInv, Typed, Setups, Unfresh, Fresh
  <2>2. shown = Unknown => ~SignedIn(shown)
    BY Names DEF SignedIn
  <2> DEFINE To(p) == Route(p, shown, setup.data)
             s == setup.data
             user == SignedIn(shown)
  <2>3. /\ To("invite") = "invite"
        /\ To("login") = IF user THEN from ELSE "login"
        /\ To("setup") = IF s = "done" THEN "app"
                         ELSE IF s = "open" /\ ~user THEN "login"
                         ELSE IF s # Unknown /\ user /\ shown # admin THEN "app"
                         ELSE "setup"
    BY <2>1 DEF Route, SetupPage, Unknown
  <2>4. \A p \in {"app", "admin"} :
          To(p) = IF shown = Unknown \/ s = Unknown THEN p
                  ELSE IF s = "fresh" THEN "setup"
                  ELSE IF ~user THEN "login"
                  ELSE IF s = "open" /\ shown = admin THEN "setup"
                  ELSE IF p = "admin" /\ shown # admin THEN "app"
                  ELSE p
    BY DEF Route, RequireUser
  <2> HIDE DEF To, s, user
  <2>5. /\ s \in {"fresh", "open", "done", Unknown} /\ (user => s # "fresh") /\ (shown = Unknown => ~user)
        /\ s = Unknown => s \notin {"fresh", "open", "done"}
    BY <2>1, <2>2 DEF s, user, Statuses, Unknown
  <2>6. /\ To("app") \in {"app", "setup", "login"} /\ To("setup") \in {"app", "setup", "login"}
        /\ To("app") = "setup" => To("setup") = "setup"
        /\ To("app") = "login" => To("login") = "login"
        /\ To("setup") = "app" => To("app") = "app" \/ (To("app") = "login" /\ To("login") = "login")
        /\ To("setup") = "login" => To("login") = "login"
    BY <2>3, <2>4, <2>5
  <2>7. /\ To("admin") \in {"admin", "app", "setup", "login"}
        /\ To("admin") = "app" => To("app") = "app"
        /\ To("admin") = "setup" => To("setup") = "setup"
        /\ To("admin") = "login" => To("login") = "login"
        /\ To("login") \in {"login", "app", "admin"}
        /\ To("login") = "app" => To("app") \in {"app", "setup"}
        /\ To("login") = "admin" => To("admin") \in {"admin", "app", "setup"}
    BY <2>1, <2>3, <2>4, <2>5
  <2>8. \A p \in Paths : To(To(To(To(p)))) = To(To(To(p)))
    BY <2>3, <2>6, <2>7 DEF Paths
  <2> QED BY <2>1, <2>8 DEF NoRedirectLoop, To
<1> QED BY <1>1, Invariance, PTL

\* Nobody whose session is alive is put out, but by a 401 that is not about it:
\* for an earlier session, for an error of the server or for a mistyped password
\* (UserFromRequest, ChangePassword and the handler of every 401).
THEOREM SessionIsKept ==
    ASSUME ~Early
    PROVE  Spec => KeepsSession
<1> DEFINE Known == Holder(cookie) = Nobody \/ ByEarlier \/ ByError \/ ByMistyping
           Put == SignedIn(shown) /\ shown' = Nobody => Known
<1>1. SInv /\ [Next]_vars => Put
  <2> SUFFICES ASSUME SInv, [Next]_vars, SignedIn(shown), shown' = Nobody
               PROVE  Known
    OBVIOUS
  <2>1. shown # Nobody /\ shown # Unknown
    BY Names DEF SignedIn
  <2>2. CASE Browser
    <3>1. CASE MeArrives
      <4> DEFINE a == me.get.answer
                 data == IF a = Mistaken THEN Nobody ELSE IF a = Broken THEN me.data ELSE a
                 d == IF data = Unknown THEN Nobody ELSE data
      <4>1. a \notin {Idle, Sent} /\ Becomes(d) /\ me' = [data |-> data, get |-> NoFlight]
        BY <3>1 DEF MeArrives
      <4>2. me.get # NoFlight /\ me'.get = NoFlight
        BY <4>1, Names DEF NoFlight
      <4> HIDE DEF d
      <4>3. watching /\ d = Nobody
        BY <4>1, BecomesFacts, <2>1
      <4>4. me.data = shown
        BY <2>1, <4>3 DEF SInv, Agree
      <4>5. a \in {Nobody, Mistaken}
        <5>1. a # Broken
          BY <2>1, <4>3, <4>4, Names DEF d
        <5>2. a # Unknown
          BY <4>1, Names DEF SInv, Typed, Answers
        <5> QED BY <4>3, <5>1, <5>2 DEF d
      <4>6. CASE a = Nobody
        BY <4>2, <4>6 DEF SInv, Asked, Told, Holds
      <4> QED BY <4>2, <4>5, <4>6 DEF ByError
    <3>2. CASE Refused
      <4>1. /\ form.answer \in {"401", Mistaken} /\ form.phase = "answered" /\ form' = NoForm
            /\ form.kind # "logout"
        BY <2>1, <3>2 DEF Refused
      <4>2. form.kind = "password" /\ form.session = cookie
        BY <4>1, Names DEF SInv, Filled, Mistaken
      <4>3. form.answer = "401" => Holder(cookie) = Nobody \/ ~form.right
        BY <4>1, <4>2 DEF SInv, Filled
      <4> QED BY <4>1, <4>2, <4>3 DEF ByError, ByMistyping
    <3>3. CASE LogoutArrives
      <4>1. /\ form.answer \in {"401", Mistaken} /\ form.phase = "answered" /\ form.kind = "logout"
            /\ form' = NoForm
        BY <2>1, <3>3 DEF LogoutArrives
      <4>2. form.answer = "401" => Holder(cookie) = Nobody
        BY <4>1 DEF SInv, Filled
      <4> QED BY <4>1, <4>2 DEF ByError
    <3>4. CASE Redirects
      BY <2>1, <3>4 DEF Redirects, Render
    <3>5. CASE SetupArrives \/ FormDone \/ SignedInArrives
      BY <2>1, <3>5, Names DEF SetupArrives, FormDone, SignedInArrives, Render
    <3>6. CASE \/ MeRead \/ SetupRead \/ FormHandled \/ PasswordArrives
               \/ FinishArrives \/ MeAwaited
      BY <2>1, <3>6 DEF MeRead, SetupRead, FormHandled, PasswordArrives, FinishArrives, MeAwaited
    <3> QED BY <2>2, <3>1, <3>2, <3>3, <3>4, <3>5, <3>6 DEF Browser
  <2>3. CASE \E i \in DOMAIN gets : GetArrives(i)
    <3>1. PICK i \in Requests : GetArrives(i)
      BY <2>3 DEF SInv, Typed
    <3>2. i \in DOMAIN gets /\ DOMAIN gets = Requests
      BY <3>1 DEF SInv, Typed
    <3>3. gets[i].answer \in {Nobody, Mistaken} /\ gets'[i] = NoGet
      BY <2>1, <3>1, <3>2 DEF GetArrives
    <3>4. gets[i].answer = Nobody => Holder(gets[i].session) = Nobody
      BY <3>1 DEF SInv, Told, Holds
    <3>5. CASE gets[i].answer = Mistaken
      BY <3>2, <3>3, <3>5 DEF ByError
    <3>6. CASE gets[i].answer = Nobody
      BY <3>2, <3>3, <3>4, <3>6 DEF ByEarlier
    <3> QED BY <3>3, <3>5, <3>6
  <2>4. CASE \E p \in Paths : Loads(p)
    BY <2>4, Names DEF Loads
  <2>5. CASE UNCHANGED shown
    BY <2>1, <2>5
  <2>6. ASSUME ~Browser, \A i \in DOMAIN gets : ~GetArrives(i), \A p \in Paths : ~Loads(p)
        PROVE  UNCHANGED shown
    BY <2>6 DEF Next, vars, FormLost, WizardNext, OtherFinishes, Opens, GetRead, Submit,
       OtherRegisters, SessionEnds
  <2> QED BY <2>2, <2>3, <2>4, <2>5, <2>6
<1>2. ([][Put]_vars) => KeepsSession
  BY DEF KeepsSession
<1> QED BY <1>1, <1>2, Invariance, PTL DEF Spec
=============================================================================
