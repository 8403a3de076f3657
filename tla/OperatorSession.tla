--------------------------- MODULE OperatorSession ---------------------------
(***************************************************************************)
(* How an operator reaches a decision: one browser, its tabs, the cookies  *)
(* they share, and the handlers of api/routes/auth.py and operator.py.     *)
(* Nothing about a session is stored on the server: a session is a signed  *)
(* cookie with a user, an expiry and a CSRF token, and the operators and   *)
(* their roles are read from a configuration file on every request.        *)
(*                                                                         *)
(* A request carries the cookies the browser has when it is sent; the      *)
(* cookies of the answer are stored when the answer arrives. The handlers  *)
(* of forms check something, wait for the form's body, and go on with what *)
(* they have checked. Between these moments the other tabs, the            *)
(* administrator, the clock and the workflow move. Cookies are not shared  *)
(* between browsers, so one browser is enough; signatures are taken to be  *)
(* sound, and a generated token to be new.                                 *)
(***************************************************************************)
EXTENDS Domain, Integers, Sequences

CONSTANTS
    Tabs,             \* the tabs of the browser
    Users,            \* the people who use it
    RoleSets,         \* role sets an operator may be given; {} is no operator
    Ttl,              \* OPERATOR_SESSION_TTL_SECONDS, in ticks
    MaxTime,          \* ticks in a behaviour
    MaxTokens,        \* CSRF tokens generated in a behaviour
    MaxDecisions,     \* decisions recorded in a behaviour
    Nobody            \* no user

OperatorRole == {"reviewer", "approver", "executor", "admin"}

ASSUME RolesAssumption == RoleSets \subseteq SUBSET OperatorRole
ASSUME TimeAssumption == Ttl \in Nat \ {0} /\ MaxTime \in Nat
ASSUME BoundsAssumption == MaxTokens \in Nat /\ MaxDecisions \in Nat
ASSUME NobodyAssumption == Nobody \notin Users

VARIABLES
    now,              \* the server's clock
    roles,            \* the operator configuration
    tokens,           \* how many CSRF tokens have been generated
    jar,              \* the browser's two cookies
    page,             \* per tab, what it shows
    req,              \* per tab, its outstanding request
    approval,         \* the approval_state of the case under review
    record,           \* the decisions recorded for it, oldest first
    logins,           \* history: when a password of whom was accepted
    approvers,        \* history: who was an approver when
    retired           \* history: tokens of sessions whose logout has arrived

browser == <<jar, page>>
case == <<approval, record>>
history == <<logins, approvers, retired>>
vars == <<now, roles, tokens, browser, req, case, history>>

-----------------------------------------------------------------------------
(* Cookies, pages and requests. Token 0 stands for no token.               *)

SessionCookie == [user: Users \cup {Nobody}, exp: Nat, csrf: Nat]
NoSession == [user |-> Nobody, exp |-> 0, csrf |-> 0]
LoginCookie == [exp: Nat, csrf: Nat]
NoLogin == [exp |-> 0, csrf |-> 0]

(* What a tab shows: a page without forms, the login form, or a page for   *)
(* an authenticated user, which has a logout form and may have a form for  *)
(* a new decision or for the repetition of the one given by "verdict".     *)
Page == [kind: {"bare", "login", "inside"}, csrf: Nat, user: Users \cup {Nobody},
         form: {"none", "decide", "retry"}, verdict: ApprovalDecisionType]
Bare == [kind |-> "bare", csrf |-> 0, user |-> Nobody, form |-> "none",
         verdict |-> "approved"]
LoginPage(csrf) == [Bare EXCEPT !.kind = "login", !.csrf = csrf]
Inside(user, csrf) ==
    [Bare EXCEPT !.kind = "inside", !.user = user, !.csrf = csrf]

(* An answer: the page and the cookies it sets, if any.                    *)
Answer == [page: Page, session: {"keep", "clear", "set"}, user: Users \cup {Nobody},
           exp: Nat, csrf: Nat, login: {"keep", "clear", "set"}]
Show(p) == [page |-> p, session |-> "keep", user |-> Nobody, exp |-> 0,
            csrf |-> 0, login |-> "keep"]

Request ==
    [pc: {"none", "sent", "checked", "answered"},
     kind: {"login page", "login", "case page", "decide", "logout"},
     cookies: [session: SessionCookie, login: LoginCookie],
     csrf: Nat,                        \* the form's token
     user: Users \cup {Nobody},        \* typed into the login form
     right: BOOLEAN,                   \* whether with the right password
     verdict: ApprovalDecisionType,    \* the form's action
     reason: BOOLEAN,                  \* whether it carries a reason
     from: Page,                       \* history: the page it was sent from
     late: BOOLEAN,                    \* history: whether after its logout
     at: Nat,                          \* history: when it was checked
     answer: Answer]
NoRequest ==
    [pc |-> "none", kind |-> "case page",
     cookies |-> [session |-> NoSession, login |-> NoLogin], csrf |-> 0,
     user |-> Nobody, right |-> FALSE, verdict |-> "approved", reason |-> FALSE,
     from |-> Bare, late |-> FALSE, at |-> 0, answer |-> Show(Bare)]

Entry == [actor: Users, verdict: ApprovalDecisionType, from: Page,
          late: BOOLEAN, at: Nat]

TypeOK ==
    /\ now \in 0 .. MaxTime
    /\ roles \in [Users -> RoleSets]
    /\ tokens \in 0 .. MaxTokens
    /\ jar \in [session: SessionCookie, login: LoginCookie]
    /\ page \in [Tabs -> Page]
    /\ req \in [Tabs -> Request]
    /\ approval \in {"pending", "approved", "rejected"}
    /\ record \in Seq(Entry)
    /\ logins \subseteq Users \X (0 .. MaxTime)
    /\ approvers \subseteq Users \X (0 .. MaxTime)
    /\ retired \subseteq 1 .. MaxTokens

-----------------------------------------------------------------------------
(* Who is allowed what.                                                    *)

HasAnyRole(user, wanted) ==
    user \in Users /\ ("admin" \in roles[user] \/ roles[user] \cap wanted # {})
CanReview(user) == HasAnyRole(user, OperatorRole)
CanApprove(user) == HasAnyRole(user, {"approver", "admin"})
AuthConfigured == \E u \in Users : roles[u] # {}

(* Mutant of Valid: the expiry is compared one second too late.            *)
ValidAtExpiry(cookie) == cookie.csrf # 0 /\ now <= cookie.exp

(* A cookie that is there and has not expired.                             *)
Valid(cookie) == cookie.csrf # 0 /\ now < cookie.exp

(* get_optional_operator: the configured operator of a valid session.      *)
Operator(session) ==
    IF Valid(session) /\ roles[session.user] # {} THEN session.user ELSE Nobody

(* Mutant of FormAccepted: any token will do.                              *)
AnyToken(r) == r.csrf # 0

(* validate_session_csrf: the form was rendered in the session that is     *)
(* sent with it.                                                           *)
FormAccepted(r) == r.csrf # 0 /\ r.csrf = r.cookies.session.csrf

(* validate_login_csrf.                                                    *)
LoginFormAccepted(r) == Valid(r.cookies.login) /\ r.csrf = r.cookies.login.csrf

Init ==
    /\ now = 0
    /\ roles \in [Users -> RoleSets]
    /\ tokens = 0
    /\ jar = [session |-> NoSession, login |-> NoLogin]
    /\ page = [t \in Tabs |-> Bare]
    /\ req = [t \in Tabs |-> NoRequest]
    /\ approval = "pending"
    /\ record = <<>>
    /\ logins = {}
    /\ approvers = {<<u, 0>> : u \in {v \in Users : CanApprove(v)}}
    /\ retired = {}

-----------------------------------------------------------------------------
(* The browser.                                                            *)

Send(t, r) ==
    /\ req[t].pc = "none"
    /\ req' = [req EXCEPT ![t] =
                 [r EXCEPT !.pc = "sent", !.cookies = jar, !.csrf = page[t].csrf,
                           !.from = page[t], !.late = page[t].csrf \in retired]]
    /\ UNCHANGED <<now, roles, tokens, browser, case, history>>

AskLoginPage(t) == Send(t, [NoRequest EXCEPT !.kind = "login page"])
AskCasePage(t) == Send(t, [NoRequest EXCEPT !.kind = "case page"])

SubmitLogin(t) ==
    /\ page[t].kind = "login"
    /\ \E u \in Users, right \in BOOLEAN :
         Send(t, [NoRequest EXCEPT !.kind = "login", !.user = u, !.right = right])

(* The form for a new decision asks for a reason, which may be blank; the  *)
(* form that repeats a decision has no such field.                         *)
SubmitDecision(t) ==
    /\ page[t].form # "none"
    /\ \E d \in ApprovalDecisionType, reason \in BOOLEAN :
         /\ page[t].form = "retry" => d = page[t].verdict /\ ~reason
         /\ Send(t, [NoRequest EXCEPT !.kind = "decide", !.verdict = d,
                                      !.reason = reason])

SubmitLogout(t) ==
    /\ page[t].kind = "inside"
    /\ Send(t, [NoRequest EXCEPT !.kind = "logout"])

(* The answer arrives: its cookies replace the browser's.                  *)
Receive(t) ==
    /\ req[t].pc = "answered"
    /\ LET a == req[t].answer IN
         /\ page' = [page EXCEPT ![t] = a.page]
         /\ jar' =
              [session |->
                 CASE a.session = "keep" -> jar.session
                   [] a.session = "clear" -> NoSession
                   [] a.session = "set" ->
                        [user |-> a.user, exp |-> a.exp, csrf |-> a.csrf],
               login |->
                 CASE a.login = "keep" -> jar.login
                   [] a.login = "clear" -> NoLogin
                   [] a.login = "set" -> [exp |-> a.exp, csrf |-> a.csrf]]
         /\ retired' = IF req[t].kind = "logout" /\ a.login = "clear"
                         THEN retired \cup {req[t].csrf} ELSE retired
    /\ req' = [req EXCEPT ![t] = NoRequest]
    /\ UNCHANGED <<now, roles, tokens, case, logins, approvers>>

-----------------------------------------------------------------------------
(* The server.                                                             *)

Respond(t, a) ==
    req' = [req EXCEPT ![t].pc = "answered", ![t].answer = a]

(* A login form, with a new token in the form and in the cookie.           *)
RenderLogin(t) ==
    /\ tokens < MaxTokens
    /\ tokens' = tokens + 1
    /\ Respond(t, [Show(LoginPage(tokens')) EXCEPT
                     !.login = "set", !.csrf = tokens', !.exp = now + Ttl])

OperatorLoginPage(t) ==
    /\ req[t].pc = "sent" /\ req[t].kind = "login page"
    /\ IF Operator(req[t].cookies.session) # Nobody \/ ~AuthConfigured
         THEN Respond(t, Show(Bare)) /\ UNCHANGED tokens
         ELSE RenderLogin(t)
    /\ UNCHANGED <<now, roles, browser, case, history>>

(* The first half of operator_login, before it waits for the form.         *)
CheckConfigured(t) ==
    /\ req[t].pc = "sent" /\ req[t].kind = "login"
    /\ IF AuthConfigured THEN req' = [req EXCEPT ![t].pc = "checked"]
                         ELSE Respond(t, Show(Bare))
    /\ UNCHANGED <<now, roles, tokens, browser, case, history>>

OperatorLogin(t) ==
    /\ req[t].pc = "checked" /\ req[t].kind = "login"
    /\ LET r == req[t] IN
         IF LoginFormAccepted(r) /\ r.right /\ roles[r.user] # {}
           THEN /\ tokens < MaxTokens
                /\ tokens' = tokens + 1
                /\ logins' = logins \cup {<<r.user, now>>}
                /\ Respond(t, [Show(Bare) EXCEPT
                                 !.session = "set", !.user = r.user,
                                 !.exp = now + Ttl, !.csrf = tokens',
                                 !.login = "clear"])
           ELSE RenderLogin(t) /\ UNCHANGED logins
    /\ UNCHANGED <<now, roles, browser, case, approvers, retired>>

(* _render_approval_controls: the forms an operator is offered.            *)
CasePage(user, csrf) ==
    [Inside(user, csrf) EXCEPT
       !.form = IF ~CanApprove(user) THEN "none"
                ELSE IF approval = "pending" THEN "decide" ELSE "retry",
       !.verdict = IF record = <<>> THEN "approved"
                                    ELSE record[Len(record)].verdict]

OperatorCasePage(t) ==
    /\ req[t].pc = "sent" /\ req[t].kind = "case page"
    /\ LET session == req[t].cookies.session
           user == Operator(session)
       IN  Respond(t, Show(IF CanReview(user) THEN CasePage(user, session.csrf)
                                              ELSE Bare))
    /\ UNCHANGED <<now, roles, tokens, browser, case, history>>

(* The first half of the two handlers that hold a session across an await: *)
(* operator and token are looked up and kept. Without a session the answer *)
(* is a redirect to the login. For an operator without the role the page   *)
(* context is a prepared 403 page, which the callers take for a pair and   *)
(* fail to unpack, so that a bare 500 arrives; as on every answer that is  *)
(* Bare here, nothing is recorded and no cookie is set.                    *)
CheckSession(t) ==
    /\ req[t].pc = "sent" /\ req[t].kind \in {"decide", "logout"}
    /\ LET user == Operator(req[t].cookies.session)
           allowed == user # Nobody /\ (req[t].kind = "decide" => CanApprove(user))
       IN  IF allowed
             THEN req' = [req EXCEPT ![t].pc = "checked", ![t].user = user,
                                     ![t].at = now]
             ELSE Respond(t, Show(Bare))
    /\ UNCHANGED <<now, roles, tokens, browser, case, history>>

(* Mutant of LoggedOut: only the login cookie is cleared.                  *)
LoginCookieCleared == [Show(Bare) EXCEPT !.login = "clear"]

LoggedOut == [Show(Bare) EXCEPT !.session = "clear", !.login = "clear"]

Forbidden(r) == Show(Inside(r.user, r.cookies.session.csrf))

OperatorLogout(t) ==
    /\ req[t].pc = "checked" /\ req[t].kind = "logout"
    /\ Respond(t, IF FormAccepted(req[t]) THEN LoggedOut ELSE Forbidden(req[t]))
    /\ UNCHANGED <<now, roles, tokens, browser, case, history>>

(* Mutant of NewDecision: a missing reason is filled in.                   *)
ReasonOptional(r) == approval = "pending"

(* submit_approval_decision records a decision, or else repeats one or     *)
(* refuses, which leaves the record as it is.                              *)
NewDecision(r) == approval = "pending" /\ r.reason

HandleOperatorDecision(t) ==
    /\ req[t].pc = "checked" /\ req[t].kind = "decide"
    /\ LET r == req[t] IN
         IF FormAccepted(r) /\ NewDecision(r)
           THEN /\ Len(record) < MaxDecisions
                /\ record' = Append(record,
                     [actor |-> r.user, verdict |-> r.verdict, from |-> r.from,
                      late |-> r.late, at |-> r.at])
                /\ approval' = TargetState(r.verdict)
                /\ Respond(t, Show(Bare))
           ELSE /\ Respond(t, IF FormAccepted(r) THEN Show(Bare) ELSE Forbidden(r))
                /\ UNCHANGED case
    /\ UNCHANGED <<now, roles, tokens, browser, history>>

-----------------------------------------------------------------------------
(* The surroundings.                                                       *)

(* The gate activity runs again (see CaseResolution) and reopens the case. *)
GateReopens ==
    /\ approval # "pending"
    /\ approval' = "pending"
    /\ UNCHANGED <<now, roles, tokens, browser, req, record, history>>

(* The administrator edits the operator file.                              *)
Configure(u) ==
    /\ \E rs \in RoleSets \ {roles[u]} : roles' = [roles EXCEPT ![u] = rs]
    /\ approvers' = approvers \cup
         {<<v, now>> : v \in {w \in Users : CanApprove(w)'}}
    /\ UNCHANGED <<now, tokens, browser, req, case, logins, retired>>

Tick ==
    /\ now < MaxTime
    /\ now' = now + 1
    /\ approvers' = approvers \cup
         {<<v, now'>> : v \in {w \in Users : CanApprove(w)}}
    /\ UNCHANGED <<roles, tokens, browser, req, case, logins, retired>>

BrowserStep(t) ==
    \/ AskLoginPage(t) \/ AskCasePage(t) \/ SubmitLogin(t) \/ SubmitDecision(t)
    \/ SubmitLogout(t) \/ Receive(t)

ServerStep(t) ==
    \/ OperatorLoginPage(t) \/ CheckConfigured(t) \/ OperatorLogin(t)
    \/ OperatorCasePage(t) \/ CheckSession(t) \/ OperatorLogout(t)
    \/ HandleOperatorDecision(t)

Next ==
    \/ \E t \in Tabs : BrowserStep(t) \/ ServerStep(t)
    \/ \E u \in Users : Configure(u)
    \/ GateReopens \/ Tick

Spec == Init /\ [][Next]_vars
-----------------------------------------------------------------------------
(* What a recorded decision stands for.                                    *)

(* architecture.md: "session cookies are signed and time-bounded"; and     *)
(* approval-policy.md: "approver and admin roles can approve/reject".      *)
(* When a request was admitted, its actor held the role in the file of     *)
(* that moment and had given the password less than a session's life ago:  *)
(* neither a demotion nor an expiry is overlooked because a cookie is old. *)
DecisionAuthorised ==
    \A i \in DOMAIN record :
        LET e == record[i] IN
          /\ <<e.actor, e.at>> \in approvers
          /\ \E l \in logins : /\ l[1] = e.actor
                               /\ l[2] <= e.at /\ e.at < l[2] + Ttl

(* A decision is recorded in the name of the user whose name was on the    *)
(* page it was taken on, though the tabs share one session cookie and      *)
(* another user may have logged in meanwhile in another tab.               *)
ActorSawTheCase == \A i \in DOMAIN record : record[i].actor = record[i].from.user

(* A form that offers to repeat a signal never records a new decision,     *)
(* even when the gate has reopened the case since the page was rendered.   *)
RetryFormNeverDecides == \A i \in DOMAIN record : record[i].from.form = "decide"

(* Once the answer to a logout has arrived, no form of that session that   *)
(* is still open in a tab decides anything, whoever logs in next.          *)
LoggedOutFormsAreDead == \A i \in DOMAIN record : ~record[i].late
=============================================================================
