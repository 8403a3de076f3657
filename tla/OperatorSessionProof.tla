------------------------ MODULE OperatorSessionProof ------------------------
(***************************************************************************)
(* Proofs about OperatorSession, for any number of tabs, people, tokens    *)
(* and decisions and any life of a session. First type correctness, then   *)
(* what a recorded decision stands for: it was admitted by the roles and   *)
(* the login of its moment, it was taken on a page that showed its actor's *)
(* name and asked for it, and not after a logout.                          *)
(***************************************************************************)
EXTENDS OperatorSession, SequenceTheorems, TLAPS

LEMMA Constants ==
    /\ RoleSets \subseteq SUBSET OperatorRole
    /\ Ttl \in Nat /\ Ttl > 0 /\ MaxTime \in Nat
    /\ MaxTokens \in Nat /\ MaxDecisions \in Nat
    /\ Nobody \notin Users
BY RolesAssumption, TimeAssumption, BoundsAssumption, NobodyAssumption

-----------------------------------------------------------------------------
(* Type correctness. A logout retires the token of its form, so that token *)
(* has to be one that was generated: every token a page, a cookie, a form  *)
(* or an answer carries was. A login records the user it was typed for,    *)
(* and a decision the user who was admitted, so these have to be somebody. *)

TokensOfRequest(r) ==
    /\ r.csrf <= tokens
    /\ r.cookies.session.csrf <= tokens
    /\ r.answer.csrf <= tokens
    /\ r.answer.page.csrf <= tokens
TokensExist ==
    /\ jar.session.csrf <= tokens
    /\ \A t \in Tabs : page[t].csrf <= tokens /\ TokensOfRequest(req[t])
UserKnown(r) ==
    r.kind = "login" \/ (r.kind \in {"decide", "logout"} /\ r.pc = "checked")
        => r.user \in Users
LogoutHadToken(r) ==
    r.kind = "logout" /\ r.answer.login = "clear" => r.csrf > 0
TypeInv ==
    /\ TypeOK
    /\ TokensExist
    /\ \A t \in Tabs : UserKnown(req[t]) /\ LogoutHadToken(req[t])

(* The cookies, pages and answers the handlers make.                       *)
LEMMA BlankTypes ==
    /\ NoSession \in SessionCookie /\ NoSession.csrf = 0
    /\ NoLogin \in LoginCookie
    /\ Bare \in Page /\ Bare.csrf = 0 /\ Bare.kind = "bare" /\ Bare.form = "none"
BY DEF NoSession, SessionCookie, NoLogin, LoginCookie, Bare, Page,
       ApprovalDecisionType

LEMMA ShowType ==
    ASSUME NEW p \in Page
    PROVE  /\ Show(p) \in Answer
           /\ Show(p).page = p /\ Show(p).csrf = 0
           /\ Show(p).session = "keep" /\ Show(p).login = "keep"
BY DEF Show, Answer

LEMMA LoginPageType ==
    ASSUME NEW c \in Nat
    PROVE  /\ LoginPage(c) \in Page /\ LoginPage(c).csrf = c
           /\ LoginPage(c).kind = "login" /\ LoginPage(c).form = "none"
BY DEF LoginPage, Bare, Page, ApprovalDecisionType

LEMMA InsideType ==
    ASSUME NEW u \in Users, NEW c \in Nat
    PROVE  /\ Inside(u, c) \in Page /\ Inside(u, c).csrf = c
           /\ Inside(u, c).kind = "inside" /\ Inside(u, c).user = u
           /\ Inside(u, c).form = "none"
BY DEF Inside, Bare, Page, ApprovalDecisionType

LEMMA LastVerdict ==
    ASSUME record \in Seq(Entry), record # <<>>
    PROVE  record[Len(record)].verdict \in ApprovalDecisionType
<1>1. Len(record) \in 1 .. Len(record)
  BY EmptySeq, LenProperties
<1>2. record[Len(record)] \in Entry
  BY <1>1, ElementOfSeq
<1> QED
  BY <1>2 DEF Entry

LEMMA CasePageType ==
    ASSUME record \in Seq(Entry), NEW u \in Users, NEW c \in Nat
    PROVE  /\ CasePage(u, c) \in Page /\ CasePage(u, c).csrf = c
           /\ CasePage(u, c).kind = "inside" /\ CasePage(u, c).user = u
BY LastVerdict DEF CasePage, Inside, Bare, Page, ApprovalDecisionType

LEMMA LoggedOutType ==
    /\ LoggedOut \in Answer /\ LoggedOut.page = Bare /\ LoggedOut.csrf = 0
    /\ LoggedOut.session = "clear" /\ LoggedOut.login = "clear"
BY BlankTypes DEF LoggedOut, Show, Answer

(* The answer with a login form, and the one of a login.                   *)
LoginForm(c, e) ==
    [Show(LoginPage(c)) EXCEPT !.login = "set", !.csrf = c, !.exp = e]
LoggedIn(u, c, e) ==
    [Show(Bare) EXCEPT !.session = "set", !.user = u, !.exp = e, !.csrf = c,
                       !.login = "clear"]

LEMMA LoginFormType ==
    ASSUME NEW c \in Nat, NEW e \in Nat
    PROVE  /\ LoginForm(c, e) \in Answer
           /\ LoginForm(c, e).page = LoginPage(c) /\ LoginForm(c, e).csrf = c
           /\ LoginForm(c, e).session = "keep" /\ LoginForm(c, e).login = "set"
           /\ LoginForm(c, e).exp = e
BY LoginPageType DEF LoginForm, Show, Answer

LEMMA LoggedInType ==
    ASSUME NEW u \in Users, NEW c \in Nat, NEW e \in Nat
    PROVE  /\ LoggedIn(u, c, e) \in Answer
           /\ LoggedIn(u, c, e).page = Bare /\ LoggedIn(u, c, e).csrf = c
           /\ LoggedIn(u, c, e).session = "set" /\ LoggedIn(u, c, e).login = "clear"
           /\ LoggedIn(u, c, e).user = u /\ LoggedIn(u, c, e).exp = e
BY BlankTypes DEF LoggedIn, Show, Answer

-----------------------------------------------------------------------------
(* What a step does to the one request it handles.                         *)

(* The other requests are as before.                                       *)
OnlyRequest(t) == \A u \in Tabs : u # t => req'[u] = req[u]

LEMMA NoRequestType ==
    /\ NoRequest \in Request /\ NoRequest.csrf = 0 /\ NoRequest.pc = "none"
    /\ NoRequest.kind = "case page"
    /\ NoRequest.cookies.session.csrf = 0
    /\ NoRequest.answer.csrf = 0 /\ NoRequest.answer.page.csrf = 0
    /\ NoRequest.answer.login = "keep" /\ NoRequest.answer.session = "keep"
    /\ NoRequest.answer.page = Bare
<1>1. Show(Bare) \in Answer /\ Show(Bare).page = Bare /\ Show(Bare).csrf = 0
      /\ Show(Bare).login = "keep" /\ Show(Bare).session = "keep"
  BY BlankTypes, ShowType
<1>2. [session |-> NoSession, login |-> NoLogin]
        \in [session: SessionCookie, login: LoginCookie]
  BY BlankTypes
<1>3. NoRequest \in Request
  BY <1>1, <1>2, BlankTypes DEF NoRequest, Request, ApprovalDecisionType
<1>4. /\ NoRequest.csrf = 0 /\ NoRequest.pc = "none"
      /\ NoRequest.kind = "case page" /\ NoRequest.answer = Show(Bare)
      /\ NoRequest.cookies.session = NoSession
  BY DEF NoRequest
<1> QED
  BY <1>1, <1>3, <1>4, BlankTypes

LEMMA SendMeans ==
    ASSUME TypeOK, NEW t \in Tabs, NEW r \in Request, Send(t, r)
    PROVE  /\ req' \in [Tabs -> Request] /\ OnlyRequest(t)
           /\ req'[t].pc = "sent" /\ req'[t].cookies = jar
           /\ req'[t].csrf = page[t].csrf /\ req'[t].from = page[t]
           /\ req'[t].late = (page[t].csrf \in retired)
           /\ req'[t].kind = r.kind /\ req'[t].user = r.user
           /\ req'[t].reason = r.reason /\ req'[t].verdict = r.verdict
           /\ req'[t].answer = r.answer /\ req'[t].at = r.at
<1> DEFINE gone == page[t].csrf \in retired
<1>0. gone \in BOOLEAN
  OBVIOUS
<1> HIDE DEF gone
<1> DEFINE s == [r EXCEPT !.pc = "sent", !.cookies = jar, !.csrf = page[t].csrf,
                          !.from = page[t], !.late = gone]
<1>1. page[t] \in Page /\ page[t].csrf \in Nat
  BY DEF TypeOK, Page
<1>2. s \in Request
  BY <1>0, <1>1 DEF TypeOK, Request
<1>3. /\ s.pc = "sent" /\ s.cookies = jar
      /\ s.csrf = page[t].csrf /\ s.from = page[t]
      /\ s.late = gone
      /\ s.kind = r.kind /\ s.user = r.user
      /\ s.reason = r.reason /\ s.verdict = r.verdict
      /\ s.answer = r.answer /\ s.at = r.at
  BY DEF Request
<1>4. req' = [req EXCEPT ![t] = s] /\ req \in [Tabs -> Request]
  BY DEF Send, TypeOK, gone
<1> HIDE DEF s
<1>5. req'[t] = s /\ OnlyRequest(t) /\ req' \in [Tabs -> Request]
  BY <1>2, <1>4 DEF OnlyRequest
<1> QED
  BY <1>3, <1>5 DEF gone

LEMMA RespondMeans ==
    ASSUME TypeOK, NEW t \in Tabs, NEW a \in Answer, Respond(t, a)
    PROVE  /\ req' \in [Tabs -> Request] /\ OnlyRequest(t)
           /\ req'[t].pc = "answered" /\ req'[t].answer = a
           /\ req'[t].kind = req[t].kind /\ req'[t].cookies = req[t].cookies
           /\ req'[t].csrf = req[t].csrf /\ req'[t].from = req[t].from
           /\ req'[t].late = req[t].late /\ req'[t].user = req[t].user
           /\ req'[t].reason = req[t].reason /\ req'[t].at = req[t].at
<1>1. req[t] \in Request
  BY DEF TypeOK
<1> DEFINE s == [req[t] EXCEPT !.pc = "answered", !.answer = a]
<1>2. s \in Request
  BY <1>1 DEF Request
<1>3. /\ s.pc = "answered" /\ s.answer = a
      /\ s.kind = req[t].kind /\ s.cookies = req[t].cookies
      /\ s.csrf = req[t].csrf /\ s.from = req[t].from
      /\ s.late = req[t].late /\ s.user = req[t].user
      /\ s.reason = req[t].reason /\ s.at = req[t].at
  BY <1>1 DEF Request
<1>4. req' = [req EXCEPT ![t] = s] /\ req \in [Tabs -> Request]
  BY DEF Respond, TypeOK
<1> HIDE DEF s
<1>5. req'[t] = s /\ OnlyRequest(t) /\ req' \in [Tabs -> Request]
  BY <1>2, <1>4 DEF OnlyRequest
<1> QED
  BY <1>3, <1>5

(* A request that passes the first half of its handler.                    *)
Passes(t, user, at) ==
    req' = [req EXCEPT ![t].pc = "checked", ![t].user = user, ![t].at = at]

LEMMA PassesMeans ==
    ASSUME TypeOK, NEW t \in Tabs, NEW user \in Users, NEW at \in Nat,
           Passes(t, user, at)
    PROVE  /\ req' \in [Tabs -> Request] /\ OnlyRequest(t)
           /\ req'[t].pc = "checked" /\ req'[t].user = user /\ req'[t].at = at
           /\ req'[t].kind = req[t].kind /\ req'[t].cookies = req[t].cookies
           /\ req'[t].csrf = req[t].csrf /\ req'[t].from = req[t].from
           /\ req'[t].late = req[t].late /\ req'[t].reason = req[t].reason
           /\ req'[t].answer = req[t].answer
<1>1. req[t] \in Request
  BY DEF TypeOK
<1> DEFINE s == [req[t] EXCEPT !.pc = "checked", !.user = user, !.at = at]
<1>2. s \in Request
  BY <1>1 DEF Request
<1>3. /\ s.pc = "checked" /\ s.user = user /\ s.at = at
      /\ s.kind = req[t].kind /\ s.cookies = req[t].cookies
      /\ s.csrf = req[t].csrf /\ s.from = req[t].from
      /\ s.late = req[t].late /\ s.reason = req[t].reason
      /\ s.answer = req[t].answer
  BY <1>1 DEF Request
<1>4. req' = [req EXCEPT ![t] = s] /\ req \in [Tabs -> Request]
  BY DEF Passes, TypeOK
<1> HIDE DEF s
<1>5. req'[t] = s /\ OnlyRequest(t) /\ req' \in [Tabs -> Request]
  BY <1>2, <1>4 DEF OnlyRequest
<1> QED
  BY <1>3, <1>5

(* The login handler, whose first half keeps nothing.                      *)
LEMMA ConfiguredMeans ==
    ASSUME TypeOK, NEW t \in Tabs,
           req' = [req EXCEPT ![t].pc = "checked"]
    PROVE  /\ req' \in [Tabs -> Request] /\ OnlyRequest(t)
           /\ req'[t].pc = "checked" /\ req'[t].user = req[t].user
           /\ req'[t].kind = req[t].kind /\ req'[t].cookies = req[t].cookies
           /\ req'[t].csrf = req[t].csrf /\ req'[t].from = req[t].from
           /\ req'[t].late = req[t].late /\ req'[t].reason = req[t].reason
           /\ req'[t].answer = req[t].answer /\ req'[t].at = req[t].at
<1>1. req[t] \in Request
  BY DEF TypeOK
<1> DEFINE s == [req[t] EXCEPT !.pc = "checked"]
<1>2. s \in Request
  BY <1>1 DEF Request
<1>3. /\ s.pc = "checked" /\ s.user = req[t].user
      /\ s.kind = req[t].kind /\ s.cookies = req[t].cookies
      /\ s.csrf = req[t].csrf /\ s.from = req[t].from
      /\ s.late = req[t].late /\ s.reason = req[t].reason
      /\ s.answer = req[t].answer /\ s.at = req[t].at
  BY <1>1 DEF Request
<1>4. req' = [req EXCEPT ![t] = s] /\ req \in [Tabs -> Request]
  BY DEF TypeOK
<1> HIDE DEF s
<1>5. req'[t] = s /\ OnlyRequest(t) /\ req' \in [Tabs -> Request]
  BY <1>2, <1>4 DEF OnlyRequest
<1> QED
  BY <1>3, <1>5

-----------------------------------------------------------------------------
LEMMA InitType == Init => TypeInv
<1> SUFFICES ASSUME Init PROVE TypeInv
  OBVIOUS
<1> USE Constants
<1>1. TypeOK
  <2>1. approvers \subseteq Users \X (0 .. MaxTime)
    BY DEF Init
  <2>2. record \in Seq(Entry)
    BY DEF Init
  <2>3. jar \in [session: SessionCookie, login: LoginCookie]
    BY BlankTypes DEF Init
  <2>4. page \in [Tabs -> Page] /\ req \in [Tabs -> Request]
    BY BlankTypes, NoRequestType DEF Init
  <2>5. /\ now \in 0 .. MaxTime /\ tokens \in 0 .. MaxTokens
        /\ roles \in [Users -> RoleSets]
        /\ approval \in {"pending", "approved", "rejected"}
        /\ logins \subseteq Users \X (0 .. MaxTime)
        /\ retired \subseteq 1 .. MaxTokens
    BY DEF Init
  <2> QED
    BY <2>1, <2>2, <2>3, <2>4, <2>5 DEF TypeOK
<1>2. TokensExist
  <2>1. jar.session.csrf = 0 /\ tokens = 0
    BY BlankTypes DEF Init
  <2>2. ASSUME NEW t \in Tabs
        PROVE  page[t].csrf = 0 /\ TokensOfRequest(req[t])
    <3>1. page[t] = Bare /\ req[t] = NoRequest
      BY DEF Init
    <3>2. /\ req[t].csrf = 0 /\ req[t].cookies.session.csrf = 0
          /\ req[t].answer.csrf = 0 /\ req[t].answer.page.csrf = 0
          /\ page[t].csrf = 0
      BY <3>1, BlankTypes, NoRequestType
    <3> QED
      BY <2>1, <3>2 DEF TokensOfRequest
  <2> QED
    BY <2>1, <2>2 DEF TokensExist
<1>3. ASSUME NEW t \in Tabs
      PROVE  UserKnown(req[t]) /\ LogoutHadToken(req[t])
  <2>1. req[t] = NoRequest
    BY DEF Init
  <2> QED
    BY <2>1, NoRequestType DEF UserKnown, LogoutHadToken
<1> QED
  BY <1>1, <1>2, <1>3 DEF TypeInv

(* What a step of one request has to leave well typed.                     *)
ContextOK ==
    /\ now \in 0 .. MaxTime
    /\ roles \in [Users -> RoleSets]
    /\ approval \in {"pending", "approved", "rejected"}
    /\ record \in Seq(Entry)
    /\ logins \subseteq Users \X (0 .. MaxTime)
    /\ approvers \subseteq Users \X (0 .. MaxTime)
    /\ retired \subseteq 1 .. MaxTokens

LEMMA OneRequestMoves ==
    ASSUME TypeInv, NEW t \in Tabs,
           req' \in [Tabs -> Request], OnlyRequest(t), UNCHANGED browser,
           tokens' \in {tokens, tokens + 1}, tokens' <= MaxTokens, ContextOK',
           TokensOfRequest(req[t])', UserKnown(req[t])', LogoutHadToken(req[t])'
    PROVE  TypeInv'
<1> USE Constants
<1>1. tokens \in Nat /\ tokens' \in 0 .. MaxTokens /\ tokens <= tokens'
  BY DEF TypeInv, TypeOK
<1>2. TypeOK'
  BY <1>1 DEF TypeInv, TypeOK, ContextOK, browser
<1>3. ASSUME NEW u \in Tabs
      PROVE  /\ page'[u].csrf <= tokens' /\ TokensOfRequest(req[u])'
             /\ UserKnown(req[u])' /\ LogoutHadToken(req[u])'
  <2>1. page[u].csrf \in Nat /\ page[u].csrf <= tokens /\ page' = page
    BY DEF TypeInv, TypeOK, TokensExist, Page, browser
  <2>2. CASE u = t
    BY <1>1, <2>1, <2>2
  <2>3. CASE u # t
    <3>1. req'[u] = req[u] /\ req[u] \in Request
      BY <2>3 DEF OnlyRequest, TypeInv, TypeOK
    <3>2. /\ req[u].csrf \in Nat /\ req[u].cookies.session.csrf \in Nat
          /\ req[u].answer.csrf \in Nat /\ req[u].answer.page.csrf \in Nat
      BY <3>1 DEF Request, SessionCookie, Answer, Page
    <3> QED
      BY <1>1, <2>1, <3>1, <3>2
      DEF TypeInv, TokensExist, TokensOfRequest, UserKnown, LogoutHadToken
  <2> QED
    BY <2>2, <2>3
<1>4. jar'.session.csrf <= tokens'
  BY <1>1 DEF TypeInv, TypeOK, TokensExist, SessionCookie, browser
<1> QED
  BY <1>2, <1>3, <1>4 DEF TypeInv, TokensExist

LEMMA SendType ==
    ASSUME TypeInv, NEW t \in Tabs, NEW r \in Request, Send(t, r),
           r.kind = "login" => r.user \in Users, r.answer = NoRequest.answer
    PROVE  TypeInv'
<1>2. /\ page[t].csrf <= tokens
      /\ jar.session.csrf <= tokens /\ tokens \in Nat /\ tokens <= MaxTokens
  BY Constants DEF TypeInv, TokensExist, TypeOK
<1>3. UNCHANGED <<now, roles, tokens, browser, case, history>>
  BY DEF Send
<1>4. ContextOK'
  BY <1>3 DEF ContextOK, TypeInv, TypeOK, case, history
<1>5. /\ req' \in [Tabs -> Request] /\ OnlyRequest(t)
      /\ req'[t].pc = "sent" /\ req'[t].cookies = jar
      /\ req'[t].csrf = page[t].csrf /\ req'[t].kind = r.kind /\ req'[t].user = r.user
      /\ req'[t].answer = NoRequest.answer
  BY SendMeans DEF TypeInv
<1>6. TokensOfRequest(req[t])'
  <2>1. req'[t].answer.csrf = 0 /\ req'[t].answer.page.csrf = 0
    BY <1>5, NoRequestType
  <2>2. req'[t].cookies.session.csrf <= tokens /\ req'[t].csrf <= tokens
    BY <1>2, <1>5
  <2> QED
    BY <1>2, <1>3, <2>1, <2>2 DEF TokensOfRequest
<1>7. UserKnown(req[t])' /\ LogoutHadToken(req[t])'
  BY <1>5, NoRequestType DEF UserKnown, LogoutHadToken
<1> QED
  BY <1>2, <1>3, <1>4, <1>5, <1>6, <1>7, OneRequestMoves DEF browser

(* The requests a tab sends.                                               *)
Wanted(k) == [NoRequest EXCEPT !.kind = k]
LoginOf(u, right) == [NoRequest EXCEPT !.kind = "login", !.user = u, !.right = right]
DecisionOf(d, reason) ==
    [NoRequest EXCEPT !.kind = "decide", !.verdict = d, !.reason = reason]

LEMMA WantedType ==
    ASSUME NEW k \in {"login page", "case page", "logout"}
    PROVE  /\ Wanted(k) \in Request /\ Wanted(k).kind = k
           /\ Wanted(k).answer = NoRequest.answer
BY NoRequestType DEF Wanted, Request

LEMMA LoginOfType ==
    ASSUME NEW u \in Users, NEW right \in BOOLEAN
    PROVE  /\ LoginOf(u, right) \in Request /\ LoginOf(u, right).kind = "login"
           /\ LoginOf(u, right).user = u
           /\ LoginOf(u, right).answer = NoRequest.answer
BY NoRequestType DEF LoginOf, Request

LEMMA DecisionOfType ==
    ASSUME NEW d \in ApprovalDecisionType, NEW reason \in BOOLEAN
    PROVE  /\ DecisionOf(d, reason) \in Request
           /\ DecisionOf(d, reason).kind = "decide"
           /\ DecisionOf(d, reason).reason = reason
           /\ DecisionOf(d, reason).answer = NoRequest.answer
BY NoRequestType DEF DecisionOf, Request

(* A step that sends something sends one of these.                         *)
Sends(t) == AskLoginPage(t) \/ AskCasePage(t) \/ SubmitLogin(t)
              \/ SubmitDecision(t) \/ SubmitLogout(t)

LEMMA WhatIsSent ==
    ASSUME NEW t \in Tabs, Sends(t)
    PROVE  \E r \in Request :
             /\ Send(t, r) /\ r.answer = NoRequest.answer
             /\ r.kind = "login" => r.user \in Users
             /\ r.kind = "decide" => /\ page[t].form # "none"
                                     /\ page[t].form = "retry" => ~r.reason
<1>1. CASE AskLoginPage(t)
  <2>1. Send(t, Wanted("login page"))
    BY <1>1 DEF AskLoginPage, Wanted
  <2> QED
    BY <2>1, WantedType
<1>2. CASE AskCasePage(t)
  <2>1. Send(t, Wanted("case page"))
    BY <1>2 DEF AskCasePage, Wanted
  <2> QED
    BY <2>1, WantedType
<1>3. CASE SubmitLogin(t)
  <2>1. PICK u \in Users, right \in BOOLEAN : Send(t, LoginOf(u, right))
    BY <1>3 DEF SubmitLogin, LoginOf
  <2> QED
    BY <2>1, LoginOfType
<1>4. CASE SubmitDecision(t)
  <2>1. PICK d \in ApprovalDecisionType, reason \in BOOLEAN :
          /\ page[t].form = "retry" => ~reason
          /\ Send(t, DecisionOf(d, reason))
    BY <1>4 DEF SubmitDecision, DecisionOf
  <2>2. page[t].form # "none"
    BY <1>4 DEF SubmitDecision
  <2>3. /\ DecisionOf(d, reason) \in Request
        /\ DecisionOf(d, reason).kind = "decide"
        /\ DecisionOf(d, reason).reason = reason
        /\ DecisionOf(d, reason).answer = NoRequest.answer
    BY DecisionOfType
  <2> QED
    BY <2>1, <2>2, <2>3
<1>5. CASE SubmitLogout(t)
  <2>1. Send(t, Wanted("logout"))
    BY <1>5 DEF SubmitLogout, Wanted
  <2> QED
    BY <2>1, WantedType
<1> QED
  BY <1>1, <1>2, <1>3, <1>4, <1>5 DEF Sends

(* The cookies after an answer.                                            *)
SessionAfter(a) ==
    CASE a.session = "keep" -> jar.session
      [] a.session = "clear" -> NoSession
      [] a.session = "set" -> [user |-> a.user, exp |-> a.exp, csrf |-> a.csrf]
LoginAfter(a) ==
    CASE a.login = "keep" -> jar.login
      [] a.login = "clear" -> NoLogin
      [] a.login = "set" -> [exp |-> a.exp, csrf |-> a.csrf]

LEMMA ReceiveMeans ==
    ASSUME TypeInv, NEW t \in Tabs, Receive(t)
    PROVE  /\ req' \in [Tabs -> Request] /\ OnlyRequest(t) /\ req'[t] = NoRequest
           /\ page' \in [Tabs -> Page] /\ page'[t] = req[t].answer.page
           /\ \A u \in Tabs : u # t => page'[u] = page[u]
           /\ jar' \in [session: SessionCookie, login: LoginCookie]
           /\ jar'.session = SessionAfter(req[t].answer)
           /\ jar'.login = LoginAfter(req[t].answer)
           /\ UNCHANGED <<now, roles, tokens, case, logins, approvers>>
<1>1. req[t] \in Request /\ req \in [Tabs -> Request] /\ page \in [Tabs -> Page]
      /\ jar.session \in SessionCookie /\ jar.login \in LoginCookie
  BY DEF TypeInv, TypeOK
<1> DEFINE a == req[t].answer
<1>2. a \in Answer
  BY <1>1 DEF Request
<1>3. req' = [req EXCEPT ![t] = NoRequest] /\ page' = [page EXCEPT ![t] = a.page]
      /\ jar' = [session |-> SessionAfter(a), login |-> LoginAfter(a)]
      /\ UNCHANGED <<now, roles, tokens, case, logins, approvers>>
  BY DEF Receive, SessionAfter, LoginAfter
<1> HIDE DEF a
<1>4. /\ a.page \in Page /\ a.user \in Users \cup {Nobody}
      /\ a.exp \in Nat /\ a.csrf \in Nat
      /\ a.session \in {"keep", "clear", "set"} /\ a.login \in {"keep", "clear", "set"}
  BY <1>2 DEF Answer
<1>5. SessionAfter(a) \in SessionCookie
  BY <1>1, <1>4, BlankTypes DEF SessionAfter, SessionCookie
<1>6. LoginAfter(a) \in LoginCookie
  BY <1>1, <1>4, BlankTypes DEF LoginAfter, LoginCookie
<1>7. req' \in [Tabs -> Request] /\ req'[t] = NoRequest /\ OnlyRequest(t)
  BY <1>1, <1>3, NoRequestType DEF OnlyRequest
<1>8. /\ page' \in [Tabs -> Page] /\ page'[t] = a.page
      /\ \A u \in Tabs : u # t => page'[u] = page[u]
  BY <1>1, <1>3, <1>4
<1> QED
  BY <1>3, <1>5, <1>6, <1>7, <1>8 DEF a

LEMMA ReceiveType == ASSUME TypeInv, NEW t \in Tabs, Receive(t) PROVE TypeInv'
<1> DEFINE a == req[t].answer
<1>1. /\ req[t] \in Request /\ TokensOfRequest(req[t]) /\ LogoutHadToken(req[t])
      /\ tokens \in 0 .. MaxTokens /\ MaxTokens \in Nat
      /\ retired \subseteq 1 .. MaxTokens
  BY Constants DEF TypeInv, TypeOK, TokensExist
<1>2. a \in Answer /\ a.csrf \in Nat /\ req[t].csrf \in Nat /\ a.page \in Page
  BY <1>1 DEF Request, Answer
<1>3. /\ req' \in [Tabs -> Request] /\ OnlyRequest(t) /\ req'[t] = NoRequest
      /\ page' \in [Tabs -> Page] /\ page'[t] = a.page
      /\ \A u \in Tabs : u # t => page'[u] = page[u]
      /\ jar' \in [session: SessionCookie, login: LoginCookie]
      /\ jar'.session = SessionAfter(a)
      /\ UNCHANGED <<now, roles, tokens, case, logins, approvers>>
  BY ReceiveMeans
<1>4. retired' \subseteq 1 .. MaxTokens
  <2>1. CASE req[t].kind = "logout" /\ a.login = "clear"
    <3>1. req[t].csrf > 0 /\ req[t].csrf <= tokens
      BY <1>1, <2>1 DEF LogoutHadToken, TokensOfRequest
    <3>2. req[t].csrf \in 1 .. MaxTokens
      BY <1>1, <1>2, <3>1
    <3>3. retired' = retired \cup {req[t].csrf}
      BY <2>1 DEF Receive
    <3> QED
      BY <1>1, <3>2, <3>3
  <2>2. CASE ~(req[t].kind = "logout" /\ a.login = "clear")
    BY <1>1, <2>2 DEF Receive
  <2> QED
    BY <2>1, <2>2
<1>5. TypeOK'
  BY <1>3, <1>4 DEF TypeInv, TypeOK, case
<1>6. jar'.session.csrf <= tokens'
  <2>1. a.csrf <= tokens /\ jar.session.csrf <= tokens /\ tokens' = tokens
    BY <1>1, <1>3 DEF TypeInv, TokensExist, TokensOfRequest
  <2>2. a.session \in {"keep", "clear", "set"} /\ NoSession.csrf <= tokens
    BY <1>1, <1>2, BlankTypes DEF Answer
  <2> QED
    BY <1>3, <2>1, <2>2 DEF SessionAfter
<1>7. ASSUME NEW u \in Tabs
      PROVE  /\ page'[u].csrf <= tokens' /\ TokensOfRequest(req[u])'
             /\ UserKnown(req[u])' /\ LogoutHadToken(req[u])'
  <2>1. CASE u = t
    <3>1. a.page.csrf <= tokens /\ tokens' = tokens /\ 0 <= tokens
      BY <1>1, <1>3 DEF TokensOfRequest
    <3>2. TokensOfRequest(req[t])'
      BY <1>3, <3>1, NoRequestType DEF TokensOfRequest
    <3>3. UserKnown(req[t])' /\ LogoutHadToken(req[t])'
      BY <1>3, NoRequestType DEF UserKnown, LogoutHadToken
    <3> QED
      BY <1>3, <2>1, <3>1, <3>2, <3>3
  <2>2. CASE u # t
    BY <1>3, <2>2
    DEF TypeInv, TokensExist, TokensOfRequest, UserKnown, LogoutHadToken, OnlyRequest
  <2> QED
    BY <2>1, <2>2
<1> QED
  BY <1>5, <1>6, <1>7 DEF TypeInv, TokensExist

(* A handler that answers leaves the types in order when the answer speaks *)
(* of tokens that exist and a logout is answered as such for a form with a *)
(* token only.                                                             *)
LEMMA RespondType ==
    ASSUME TypeInv, NEW t \in Tabs, NEW a \in Answer, Respond(t, a),
           UNCHANGED browser, ContextOK',
           tokens' \in {tokens, tokens + 1}, tokens' <= MaxTokens,
           a.csrf <= tokens', a.page.csrf <= tokens',
           req[t].kind = "login" => req[t].user \in Users,
           req[t].kind = "logout" /\ a.login = "clear" => req[t].csrf > 0
    PROVE  TypeInv'
<1>1. /\ req[t] \in Request /\ TokensOfRequest(req[t]) /\ tokens \in Nat
      /\ tokens <= tokens' /\ tokens' \in Nat
  BY Constants DEF TypeInv, TypeOK, TokensExist
<1>2. /\ req[t].csrf \in Nat /\ req[t].cookies.session.csrf \in Nat
      /\ a.csrf \in Nat /\ a.page.csrf \in Nat
  BY <1>1 DEF Request, SessionCookie, Answer, Page
<1>3. /\ req' \in [Tabs -> Request] /\ OnlyRequest(t)
      /\ req'[t].pc = "answered" /\ req'[t].answer = a
      /\ req'[t].kind = req[t].kind /\ req'[t].cookies = req[t].cookies
      /\ req'[t].csrf = req[t].csrf /\ req'[t].user = req[t].user
  BY RespondMeans DEF TypeInv
<1>4. TokensOfRequest(req[t])'
  <2>1. req[t].csrf <= tokens' /\ req[t].cookies.session.csrf <= tokens'
    BY <1>1, <1>2 DEF TokensOfRequest
  <2> QED
    BY <1>3, <2>1 DEF TokensOfRequest
<1>5. UserKnown(req[t])' /\ LogoutHadToken(req[t])'
  BY <1>3 DEF UserKnown, LogoutHadToken
<1> QED
  BY <1>3, <1>4, <1>5, OneRequestMoves

LEMMA Numbers ==
    ASSUME TypeInv
    PROVE  /\ tokens \in Nat /\ tokens <= MaxTokens
           /\ now \in Nat /\ now <= MaxTime /\ now + Ttl \in Nat
<1>1. now \in 0 .. MaxTime /\ tokens \in 0 .. MaxTokens
  BY DEF TypeInv, TypeOK
<1>2. MaxTime \in Nat /\ MaxTokens \in Nat /\ Ttl \in Nat
  BY Constants
<1> QED
  BY <1>1, <1>2

LoginHasUser(r) == r.kind = "login" => r.user \in Users

LEMMA RenderLoginType ==
    ASSUME TypeInv, NEW t \in Tabs, RenderLogin(t), UNCHANGED browser, ContextOK',
           req[t].kind # "logout", LoginHasUser(req[t])
    PROVE  TypeInv'
<1>1. tokens \in Nat /\ tokens <= MaxTokens /\ now \in Nat /\ now + Ttl \in Nat
  BY Numbers
<1>2. tokens < MaxTokens /\ tokens' = tokens + 1
  BY DEF RenderLogin
<1>3. PICK k \in Nat, e \in Nat : k = tokens' /\ e = now + Ttl
  BY <1>1, <1>2
<1>4. Respond(t, LoginForm(k, e))
  BY <1>3 DEF RenderLogin, LoginForm
<1>5. /\ LoginForm(k, e) \in Answer /\ LoginForm(k, e).csrf = k
      /\ LoginForm(k, e).page.csrf = k
  BY LoginFormType, LoginPageType
<1>6. k <= tokens' /\ tokens' <= MaxTokens
  BY <1>1, <1>2, <1>3, BoundsAssumption
<1> QED
  BY <1>2, <1>4, <1>5, <1>6, RespondType DEF LoginHasUser

(* A plain page without forms.                                             *)
LEMMA PlainType ==
    ASSUME TypeInv, NEW t \in Tabs, Respond(t, Show(Bare)),
           UNCHANGED <<browser, tokens>>, ContextOK',
           LoginHasUser(req[t])
    PROVE  TypeInv'
<1>1. tokens \in Nat /\ tokens <= MaxTokens /\ tokens' = tokens
  BY Constants DEF TypeInv, TypeOK
<1>2. /\ Show(Bare) \in Answer /\ Show(Bare).csrf = 0
      /\ Show(Bare).page.csrf = 0 /\ Show(Bare).login = "keep"
  BY BlankTypes, ShowType
<1> QED
  BY <1>1, <1>2, RespondType DEF LoginHasUser

(* Most handlers change nothing but their request.                         *)
LEMMA ContextStays ==
    ASSUME TypeInv, UNCHANGED <<now, roles, case, history>>
    PROVE  ContextOK'
BY DEF ContextOK, TypeInv, TypeOK, case, history

-----------------------------------------------------------------------------
(* The handlers, one by one.                                               *)

LEMMA OperatorLoginPageType ==
    ASSUME TypeInv, NEW t \in Tabs, OperatorLoginPage(t)
    PROVE  TypeInv'
<1>1. UNCHANGED browser /\ ContextOK'
  BY ContextStays DEF OperatorLoginPage
<1>2. req[t].kind # "logout" /\ LoginHasUser(req[t])
  BY DEF OperatorLoginPage, LoginHasUser
<1>3. \/ Respond(t, Show(Bare)) /\ UNCHANGED tokens
      \/ RenderLogin(t)
  BY DEF OperatorLoginPage
<1> QED
  BY <1>1, <1>2, <1>3, PlainType, RenderLoginType

LEMMA CheckConfiguredType ==
    ASSUME TypeInv, NEW t \in Tabs, CheckConfigured(t)
    PROVE  TypeInv'
<1>1. UNCHANGED <<browser, tokens>> /\ ContextOK'
  BY ContextStays DEF CheckConfigured
<1>2. LoginHasUser(req[t]) /\ TokensOfRequest(req[t]) /\ LogoutHadToken(req[t])
      /\ UserKnown(req[t])
  BY DEF TypeInv, TokensExist, UserKnown, LoginHasUser
<1>3. CASE Respond(t, Show(Bare))
  BY <1>1, <1>2, <1>3, PlainType
<1>4. CASE req' = [req EXCEPT ![t].pc = "checked"]
  <2>1. /\ req' \in [Tabs -> Request] /\ OnlyRequest(t)
        /\ req'[t].user = req[t].user /\ req'[t].answer = req[t].answer
        /\ req'[t].kind = req[t].kind /\ req'[t].cookies = req[t].cookies
        /\ req'[t].csrf = req[t].csrf
    BY <1>4, ConfiguredMeans DEF TypeInv
  <2>2. TokensOfRequest(req[t])'
    BY <1>1, <1>2, <2>1 DEF TokensOfRequest
  <2>3. req[t].kind = "login"
    BY DEF CheckConfigured
  <2>4. UserKnown(req[t])' /\ LogoutHadToken(req[t])'
    BY <1>2, <2>1, <2>3 DEF UserKnown, LogoutHadToken, LoginHasUser
  <2>5. tokens' \in {tokens, tokens + 1} /\ tokens' <= MaxTokens
    BY <1>1, Numbers
  <2> QED
    BY <1>1, <2>1, <2>2, <2>4, <2>5, OneRequestMoves
<1> QED
  BY <1>3, <1>4 DEF CheckConfigured

(* A login that succeeds.                                                  *)
LEMMA LoggedInMeans ==
    ASSUME TypeInv, NEW t \in Tabs, OperatorLogin(t),
           LoginFormAccepted(req[t]), req[t].right, roles[req[t].user] # {}
    PROVE  /\ tokens < MaxTokens /\ tokens' = tokens + 1
           /\ logins' = logins \cup {<<req[t].user, now>>}
           /\ Respond(t, LoggedIn(req[t].user, tokens', now + Ttl))
           /\ req[t].user \in Users
           /\ UNCHANGED <<now, roles, browser, case, approvers, retired>>
<1>1. req[t].user \in Users
  BY DEF OperatorLogin, TypeInv, UserKnown
<1>2. /\ tokens < MaxTokens /\ tokens' = tokens + 1
      /\ logins' = logins \cup {<<req[t].user, now>>}
      /\ Respond(t, LoggedIn(req[t].user, tokens', now + Ttl))
      /\ UNCHANGED <<now, roles, browser, case, approvers, retired>>
  BY DEF OperatorLogin, LoggedIn
<1> QED
  BY <1>1, <1>2

LEMMA LoginRefusedMeans ==
    ASSUME TypeInv, NEW t \in Tabs, OperatorLogin(t),
           ~(LoginFormAccepted(req[t]) /\ req[t].right /\ roles[req[t].user] # {})
    PROVE  RenderLogin(t) /\ UNCHANGED <<now, roles, browser, case, history>>
BY DEF OperatorLogin, history

LEMMA OperatorLoginType ==
    ASSUME TypeInv, NEW t \in Tabs, OperatorLogin(t)
    PROVE  TypeInv'
<1>1. req[t].kind = "login" /\ LoginHasUser(req[t])
  BY DEF OperatorLogin, TypeInv, UserKnown, LoginHasUser
<1>2. CASE LoginFormAccepted(req[t]) /\ req[t].right /\ roles[req[t].user] # {}
  <2> DEFINE u == req[t].user
  <2>1. /\ tokens < MaxTokens /\ tokens' = tokens + 1
        /\ logins' = logins \cup {<<u, now>>} /\ u \in Users
        /\ Respond(t, LoggedIn(u, tokens', now + Ttl))
        /\ UNCHANGED <<now, roles, browser, case, approvers, retired>>
    BY <1>2, LoggedInMeans
  <2> HIDE DEF u
  <2>2. ContextOK'
    <3>1. now \in 0 .. MaxTime /\ logins \subseteq Users \X (0 .. MaxTime)
      BY DEF TypeInv, TypeOK
    <3>2. logins' \subseteq Users \X (0 .. MaxTime)
      BY <2>1, <3>1
    <3> QED
      BY <2>1, <3>2 DEF ContextOK, TypeInv, TypeOK, case
  <2>3. PICK k \in Nat, e \in Nat : k = tokens' /\ e = now + Ttl
    BY <2>1, Numbers
  <2>4. /\ LoggedIn(u, k, e) \in Answer /\ LoggedIn(u, k, e).csrf = k
        /\ LoggedIn(u, k, e).page.csrf = 0
    <3>1. u \in Users
      BY <2>1
    <3>2. /\ LoggedIn(u, k, e) \in Answer /\ LoggedIn(u, k, e).csrf = k
          /\ LoggedIn(u, k, e).page = Bare
      BY <3>1, LoggedInType
    <3> QED
      BY <3>2, BlankTypes
  <2>5. Respond(t, LoggedIn(u, k, e))
    BY <2>1, <2>3
  <2>6. k <= tokens' /\ 0 <= tokens' /\ tokens' \in {tokens, tokens + 1}
        /\ tokens' <= MaxTokens
    <3>1. tokens < MaxTokens /\ tokens' = tokens + 1
      BY <2>1
    <3> QED
      BY <2>3, <3>1, Numbers, BoundsAssumption
  <2>7. req[t].kind # "logout" /\ UNCHANGED browser
    BY <1>1, <2>1
  <2> QED
    BY <1>1, <2>2, <2>4, <2>5, <2>6, <2>7, RespondType DEF LoginHasUser
<1>3. CASE ~(LoginFormAccepted(req[t]) /\ req[t].right /\ roles[req[t].user] # {})
  <2>1. RenderLogin(t) /\ UNCHANGED <<now, roles, browser, case, history>>
    BY <1>3, LoginRefusedMeans
  <2> QED
    BY <1>1, <2>1, ContextStays, RenderLoginType
<1> QED
  BY <1>2, <1>3

LEMMA OperatorCasePageType ==
    ASSUME TypeInv, NEW t \in Tabs, OperatorCasePage(t)
    PROVE  TypeInv'
<1> DEFINE c == req[t].cookies.session.csrf
           user == Operator(req[t].cookies.session)
<1>1. UNCHANGED <<browser, tokens>> /\ ContextOK'
  BY ContextStays DEF OperatorCasePage
<1>2. c \in Nat /\ c <= tokens /\ record \in Seq(Entry)
  BY DEF TypeInv, TypeOK, TokensExist, TokensOfRequest, Request, SessionCookie
<1>3. req[t].kind # "logout" /\ LoginHasUser(req[t])
  BY DEF OperatorCasePage, LoginHasUser
<1>4. CASE Respond(t, Show(Bare))
  BY <1>1, <1>3, <1>4, PlainType
<1>5. CASE CanReview(user) /\ Respond(t, Show(CasePage(user, c)))
  <2>1. user \in Users
    BY <1>5 DEF CanReview, HasAnyRole
  <2>2. CasePage(user, c) \in Page /\ CasePage(user, c).csrf = c
    BY <1>2, <2>1, CasePageType
  <2> HIDE DEF user, c
  <2>3. /\ Show(CasePage(user, c)) \in Answer
        /\ Show(CasePage(user, c)).csrf = 0
        /\ Show(CasePage(user, c)).page.csrf = c
    BY <2>2, ShowType
  <2>4. c <= tokens' /\ 0 <= tokens' /\ tokens' \in {tokens, tokens + 1}
        /\ tokens' <= MaxTokens
    BY <1>1, <1>2, Numbers
  <2> QED
    BY <1>1, <1>3, <1>5, <2>3, <2>4, RespondType DEF LoginHasUser
<1> QED
  BY <1>4, <1>5 DEF OperatorCasePage

LEMMA CheckSessionType ==
    ASSUME TypeInv, NEW t \in Tabs, CheckSession(t)
    PROVE  TypeInv'
<1> DEFINE user == Operator(req[t].cookies.session)
<1>1. UNCHANGED <<browser, tokens>> /\ ContextOK'
  BY ContextStays DEF CheckSession
<1>2. req[t].kind \in {"decide", "logout"} /\ LoginHasUser(req[t])
  BY DEF CheckSession, LoginHasUser
<1>3. CASE Respond(t, Show(Bare))
  BY <1>1, <1>2, <1>3, PlainType
<1>4. CASE user # Nobody /\ Passes(t, user, now)
  <2>1. user \in Users
    <3>1. req[t].cookies.session.user \in Users \cup {Nobody}
      BY DEF TypeInv, TypeOK, Request, SessionCookie
    <3> QED
      BY <1>4, <3>1 DEF Operator
  <2>2. now \in Nat
    BY Numbers
  <2> HIDE DEF user
  <2>3. /\ req' \in [Tabs -> Request] /\ OnlyRequest(t)
        /\ req'[t].pc = "checked" /\ req'[t].user = user
        /\ req'[t].kind = req[t].kind /\ req'[t].cookies = req[t].cookies
        /\ req'[t].csrf = req[t].csrf /\ req'[t].answer = req[t].answer
    BY <1>4, <2>1, <2>2, PassesMeans DEF TypeInv
  <2>4. TokensOfRequest(req[t])' /\ LogoutHadToken(req[t])'
    BY <1>1, <2>3 DEF TypeInv, TokensExist, TokensOfRequest, LogoutHadToken
  <2>5. UserKnown(req[t])'
    BY <2>1, <2>3 DEF UserKnown
  <2>6. tokens' \in {tokens, tokens + 1} /\ tokens' <= MaxTokens
    BY <1>1, Numbers
  <2> QED
    BY <1>1, <2>3, <2>4, <2>5, <2>6, OneRequestMoves
<1> QED
  BY <1>3, <1>4 DEF CheckSession, Passes

(* The refusal of a form whose token is not the session's.                 *)
LEMMA ForbiddenType ==
    ASSUME NEW r \in Request, r.user \in Users
    PROVE  /\ Forbidden(r) \in Answer /\ Forbidden(r).csrf = 0
           /\ Forbidden(r).session = "keep" /\ Forbidden(r).login = "keep"
           /\ Forbidden(r).page = Inside(r.user, r.cookies.session.csrf)
           /\ Forbidden(r).page.csrf = r.cookies.session.csrf
<1>1. r.cookies.session.csrf \in Nat
  BY DEF Request, SessionCookie
<1>2. Inside(r.user, r.cookies.session.csrf) \in Page
      /\ Inside(r.user, r.cookies.session.csrf).csrf = r.cookies.session.csrf
  BY <1>1, InsideType
<1> QED
  BY <1>2, ShowType DEF Forbidden

(* A refusal keeps the types.                                              *)
LEMMA RefusedType ==
    ASSUME TypeInv, NEW t \in Tabs, Respond(t, Forbidden(req[t])),
           UNCHANGED <<browser, tokens>>, ContextOK',
           req[t].user \in Users
    PROVE  TypeInv'
<1>1. req[t] \in Request /\ TokensOfRequest(req[t])
  BY DEF TypeInv, TypeOK, TokensExist
<1>2. /\ Forbidden(req[t]) \in Answer /\ Forbidden(req[t]).csrf = 0
      /\ Forbidden(req[t]).login = "keep"
      /\ Forbidden(req[t]).page.csrf = req[t].cookies.session.csrf
  BY <1>1, ForbiddenType
<1>3. req[t].cookies.session.csrf <= tokens' /\ 0 <= tokens'
      /\ tokens' \in {tokens, tokens + 1} /\ tokens' <= MaxTokens
  BY <1>1, Numbers DEF TokensOfRequest
<1> QED
  BY <1>2, <1>3, RespondType

LEMMA OperatorLogoutType ==
    ASSUME TypeInv, NEW t \in Tabs, OperatorLogout(t)
    PROVE  TypeInv'
<1>1. UNCHANGED <<browser, tokens>> /\ ContextOK'
  BY ContextStays DEF OperatorLogout
<1>2. req[t].kind = "logout" /\ req[t].user \in Users
      /\ req[t] \in Request /\ req[t].csrf \in Nat
  BY DEF OperatorLogout, TypeInv, TypeOK, UserKnown, Request
<1>3. CASE FormAccepted(req[t]) /\ Respond(t, LoggedOut)
  <2>1. req[t].csrf > 0
    BY <1>2, <1>3 DEF FormAccepted
  <2>2. LoggedOut \in Answer /\ LoggedOut.csrf = 0 /\ LoggedOut.page.csrf = 0
    BY LoggedOutType, BlankTypes
  <2>3. 0 <= tokens' /\ tokens' \in {tokens, tokens + 1} /\ tokens' <= MaxTokens
    BY <1>1, Numbers
  <2>4. req[t].kind # "login"
    BY <1>2
  <2> QED
    BY <1>1, <1>3, <2>1, <2>2, <2>3, <2>4, RespondType
<1>4. CASE Respond(t, Forbidden(req[t]))
  BY <1>1, <1>2, <1>4, RefusedType
<1> QED
  BY <1>3, <1>4 DEF OperatorLogout

(* What a decision that is recorded adds to the record.                    *)
EntryOf(r) == [actor |-> r.user, verdict |-> r.verdict, from |-> r.from,
               late |-> r.late, at |-> r.at]

LEMMA EntryOfType ==
    ASSUME NEW r \in Request, r.user \in Users
    PROVE  EntryOf(r) \in Entry
BY DEF EntryOf, Entry, Request

(* A decision is recorded, or the handler answers and changes nothing.     *)
LEMMA DecisionMeans ==
    ASSUME NEW t \in Tabs, HandleOperatorDecision(t)
    PROVE  /\ req[t].pc = "checked" /\ req[t].kind = "decide"
           /\ \/ /\ FormAccepted(req[t]) /\ NewDecision(req[t])
                 /\ record' = Append(record, EntryOf(req[t]))
                 /\ approval' = TargetState(req[t].verdict)
                 /\ Respond(t, Show(Bare))
              \/ /\ UNCHANGED case
                 /\ Respond(t, Show(Bare)) \/ Respond(t, Forbidden(req[t]))
           /\ UNCHANGED <<now, roles, tokens, browser, history>>
BY DEF HandleOperatorDecision, EntryOf

LEMMA HandleOperatorDecisionType ==
    ASSUME TypeInv, NEW t \in Tabs, HandleOperatorDecision(t)
    PROVE  TypeInv'
<1>1. req[t].pc = "checked" /\ req[t].kind = "decide"
      /\ UNCHANGED <<now, roles, tokens, browser, history>>
  BY DecisionMeans
<1>2. req[t] \in Request /\ req[t].user \in Users /\ LoginHasUser(req[t])
  BY <1>1 DEF TypeInv, TypeOK, UserKnown, LoginHasUser
<1>3. ASSUME record' = Append(record, EntryOf(req[t])),
             approval' = TargetState(req[t].verdict)
      PROVE  ContextOK'
  <2>1. EntryOf(req[t]) \in Entry /\ record \in Seq(Entry)
    BY <1>2, EntryOfType DEF TypeInv, TypeOK
  <2>2. record' \in Seq(Entry)
    BY <1>3, <2>1, AppendProperties
  <2>3. approval' \in {"pending", "approved", "rejected"}
    BY <1>3 DEF TargetState
  <2> QED
    BY <1>1, <2>2, <2>3 DEF ContextOK, TypeInv, TypeOK, history
<1>4. ContextOK'
  <2>1. CASE UNCHANGED case
    BY <1>1, <2>1, ContextStays
  <2> QED
    BY <1>3, <2>1, DecisionMeans
<1>5. Respond(t, Show(Bare)) \/ Respond(t, Forbidden(req[t]))
  BY DecisionMeans
<1> QED
  BY <1>1, <1>2, <1>4, <1>5, PlainType, RefusedType

LEMMA SurroundingsType ==
    ASSUME TypeInv, GateReopens \/ Tick \/ \E u \in Users : Configure(u)
    PROVE  TypeInv'
<1>1. UNCHANGED <<tokens, browser, req>>
  BY DEF GateReopens, Tick, Configure
<1>2. ContextOK'
  <2>1. CASE GateReopens
    BY <2>1 DEF GateReopens, ContextOK, TypeInv, TypeOK, history
  <2>2. CASE Tick
    <3>1. now' \in 0 .. MaxTime
      <4>1. now < MaxTime /\ now' = now + 1
        BY <2>2 DEF Tick
      <4> QED
        BY <4>1, Numbers, Constants
    <3>2. approvers \subseteq Users \X (0 .. MaxTime)
      BY DEF TypeInv, TypeOK
    <3>3. approvers' = approvers \cup {<<v, now'>> : v \in {w \in Users : CanApprove(w)}}
      BY <2>2 DEF Tick
    <3>4. approvers' \subseteq Users \X (0 .. MaxTime)
      BY <3>1, <3>2, <3>3
    <3> QED
      BY <2>2, <3>1, <3>4 DEF Tick, ContextOK, TypeInv, TypeOK, case
  <2>3. ASSUME NEW u \in Users, Configure(u) PROVE ContextOK'
    <3>1. now \in 0 .. MaxTime /\ approvers \subseteq Users \X (0 .. MaxTime)
      BY DEF TypeInv, TypeOK
    <3>2. approvers' = approvers \cup {<<v, now>> : v \in {w \in Users : CanApprove(w)'}}
      BY <2>3 DEF Configure
    <3>3. approvers' \subseteq Users \X (0 .. MaxTime)
      BY <3>1, <3>2
    <3>4. roles' \in [Users -> RoleSets]
      BY <2>3 DEF Configure, TypeInv, TypeOK
    <3> QED
      BY <2>3, <3>3, <3>4 DEF Configure, ContextOK, TypeInv, TypeOK, case
  <2> QED
    BY <2>1, <2>2, <2>3
<1>3. TypeOK' /\ TokensExist'
  BY <1>1, <1>2
  DEF ContextOK, TypeInv, TypeOK, TokensExist, TokensOfRequest, browser
<1> QED
  BY <1>1, <1>3 DEF TypeInv, UserKnown, LogoutHadToken

LEMMA StutterType == ASSUME TypeInv, UNCHANGED vars PROVE TypeInv'
BY DEF vars, browser, case, history, TypeInv, TypeOK, TokensExist, TokensOfRequest,
       UserKnown, LogoutHadToken

(* The steps of a tab: it sends something, receives an answer, or one of   *)
(* the handlers runs.                                                      *)
LEMMA StepsOfATab ==
    ASSUME NEW t \in Tabs, BrowserStep(t) \/ ServerStep(t)
    PROVE  \/ Sends(t) \/ Receive(t)
           \/ OperatorLoginPage(t) \/ CheckConfigured(t) \/ OperatorLogin(t)
           \/ OperatorCasePage(t) \/ CheckSession(t) \/ OperatorLogout(t)
           \/ HandleOperatorDecision(t)
BY DEF BrowserStep, ServerStep, Sends

LEMMA StepType == TypeInv /\ [Next]_vars => TypeInv'
<1> SUFFICES ASSUME TypeInv, [Next]_vars PROVE TypeInv'
  OBVIOUS
<1>1. CASE UNCHANGED vars
  BY <1>1, StutterType
<1>2. ASSUME NEW t \in Tabs, BrowserStep(t) \/ ServerStep(t) PROVE TypeInv'
  <2>1. CASE Sends(t)
    BY <2>1, WhatIsSent, SendType
  <2> QED
    BY <1>2, <2>1, StepsOfATab, ReceiveType, OperatorLoginPageType,
       CheckConfiguredType, OperatorLoginType, OperatorCasePageType,
       CheckSessionType, OperatorLogoutType, HandleOperatorDecisionType
<1>3. CASE GateReopens \/ Tick \/ \E u \in Users : Configure(u)
  BY <1>3, SurroundingsType
<1> QED
  BY <1>1, <1>2, <1>3 DEF Next

LEMMA TypeInvariance == Spec => []TypeInv
<1> QED
  BY InitType, StepType, PTL DEF Spec

(* The cookies, pages, requests and the record keep their types, whatever  *)
(* the tabs, the administrator and the clock do; in particular every token *)
(* that is carried or retired is one the server generated.                 *)
THEOREM SessionsAreTyped == Spec => []TypeOK
<1>1. TypeInv => TypeOK
  BY DEF TypeInv
<1> QED
  BY <1>1, TypeInvariance, PTL

-----------------------------------------------------------------------------
(* Admission. A cookie expires a session's life after some login of its    *)
(* user; the history of approvers is up to date; hence a request that has  *)
(* passed the first half of its handler was admitted by both.              *)

Issued(u, exp) ==
    \E l \in logins : l[1] = u /\ l[2] <= now /\ exp = l[2] + Ttl
CookieIssued(c) == c.csrf # 0 => Issued(c.user, c.exp)
Vouched(u, at) ==
    /\ <<u, at>> \in approvers
    /\ \E l \in logins : l[1] = u /\ l[2] <= at /\ at < l[2] + Ttl

ApproversKnown == \A u \in Users : CanApprove(u) => <<u, now>> \in approvers
RequestAuthorised(r) ==
    /\ CookieIssued(r.cookies.session)
    /\ r.answer.session = "set" => Issued(r.answer.user, r.answer.exp)
    /\ r.kind = "decide" /\ r.pc = "checked" => Vouched(r.user, r.at)
AdmissionInv ==
    /\ TypeInv
    /\ ApproversKnown
    /\ CookieIssued(jar.session)
    /\ \A t \in Tabs : RequestAuthorised(req[t])
    /\ DecisionAuthorised

(* The form. The form that repeats a decision sends no reason.             *)
FormAsks(r) ==
    r.kind = "decide" => /\ r.from.form # "none"
                         /\ r.from.form = "retry" => ~r.reason
FormInv ==
    /\ TypeInv
    /\ \A t \in Tabs : FormAsks(req[t])
    /\ RetryFormNeverDecides

(* The name. A token stands for one user wherever a session cookie or a    *)
(* page of a session carries it; pages with decision forms are of a        *)
(* session, and the user kept across the wait is the cookie's.             *)
PageNames(p, k, u) == p.kind = "inside" /\ p.csrf = k /\ p.user = u
CookieNames(c, k, u) == c.csrf = k /\ c.user = u
RequestNames(r, k, u) ==
    \/ CookieNames(r.cookies.session, k, u)
    \/ PageNames(r.from, k, u)
    \/ PageNames(r.answer.page, k, u)
    \/ r.answer.session = "set" /\ r.answer.csrf = k /\ r.answer.user = u
Names(k, u) ==
    \/ CookieNames(jar.session, k, u)
    \/ \E t \in Tabs : PageNames(page[t], k, u) \/ RequestNames(req[t], k, u)
OneName ==
    \A k \in Nat \ {0}, u, v \in Users \cup {Nobody} :
        Names(k, u) /\ Names(k, v) => u = v

FormsAreInside(p) == p.form # "none" => p.kind = "inside"
RequestOfSession(r) ==
    /\ FormsAreInside(r.answer.page) /\ FormsAreInside(r.from)
    /\ r.csrf = r.from.csrf
    /\ r.kind = "decide" => r.from.form # "none"
    /\ r.kind \in {"decide", "logout"} /\ r.pc = "checked"
         => r.user = r.cookies.session.user
NameInv ==
    /\ TypeInv
    /\ OneName
    /\ \A t \in Tabs : FormsAreInside(page[t]) /\ RequestOfSession(req[t])
    /\ ActorSawTheCase

(* The logout. A session's cookie is set by one answer only, so a token    *)
(* that is still to be set is nowhere yet, and a retired one never comes   *)
(* back to the jar.                                                        *)
Setting(r, k) == r.answer.session = "set" /\ r.answer.csrf = k
Delivered(k) ==
    \/ jar.session.csrf = k
    \/ \E t \in Tabs : req[t].cookies.session.csrf = k
    \/ k \in retired
SetOnce ==
    \A t \in Tabs, k \in Nat \ {0} :
        Setting(req[t], k) =>
          ~Delivered(k) /\ \A u \in Tabs : u # t => ~Setting(req[u], k)
LogoutAnswered(r) ==
    r.kind = "logout" /\ r.answer.login = "clear"
        => r.answer.session = "clear" /\ FormAccepted(r)
LogoutInv ==
    /\ TypeInv
    /\ SetOnce
    /\ \A k \in retired : k <= tokens
    /\ jar.session.csrf \notin retired
    /\ \A t \in Tabs : /\ LogoutAnswered(req[t])
                       /\ req[t].late => ~FormAccepted(req[t])
    /\ LoggedOutFormsAreDead

-----------------------------------------------------------------------------
(* What the server may do to the request of a tab.                         *)

(* The page is of the session that was sent, or of none.                   *)
PageOfSession(r, p) ==
    /\ FormsAreInside(p)
    /\ p.kind = "inside" =>
         /\ p.csrf = r.cookies.session.csrf
         /\ p.user = r.cookies.session.user \/ (r.pc = "checked" /\ p.user = r.user)

Answers(t) ==
    \E a \in Answer : /\ Respond(t, a) /\ a.session = "keep" /\ a.login # "clear"
                      /\ req[t].pc = "checked" => req[t].kind \in {"decide", "logout"}
                                                    \/ a.page.kind # "inside"
                      /\ PageOfSession(req[t], a.page)
LogsOut(t) == /\ req[t].kind = "logout" /\ FormAccepted(req[t])
              /\ Respond(t, LoggedOut)
LogsIn(t) == /\ req[t].kind = "login" /\ req[t].user \in Users
             /\ tokens < MaxTokens /\ tokens' = tokens + 1
             /\ logins' = logins \cup {<<req[t].user, now>>}
             /\ now' = now
             /\ Respond(t, LoggedIn(req[t].user, tokens', now + Ttl))
PassesLogin(t) == /\ req[t].kind = "login"
                  /\ req' = [req EXCEPT ![t].pc = "checked"]
PassesSession(t) ==
    LET user == Operator(req[t].cookies.session) IN
      /\ req[t].kind \in {"decide", "logout"}
      /\ user \in Users
      /\ req[t].kind = "decide" => CanApprove(user)
      /\ Passes(t, user, now)

LEMMA OperatorIs ==
    ASSUME TypeInv, NEW t \in Tabs,
           Operator(req[t].cookies.session) # Nobody
    PROVE  LET c == req[t].cookies.session IN
             /\ Operator(c) = c.user /\ c.user \in Users
             /\ Valid(c) /\ c.csrf # 0 /\ now < c.exp
<1>1. req[t].cookies.session.user \in Users \cup {Nobody}
  BY DEF TypeInv, TypeOK, Request, SessionCookie
<1> QED
  BY <1>1 DEF Operator, Valid

LEMMA PlainAnswer ==
    ASSUME NEW t \in Tabs, Respond(t, Show(Bare))
    PROVE  Answers(t)
<1>1. /\ Show(Bare) \in Answer /\ Show(Bare).session = "keep"
      /\ Show(Bare).login = "keep" /\ Show(Bare).page = Bare
  BY BlankTypes, ShowType
<1>2. PageOfSession(req[t], Bare)
  BY BlankTypes DEF PageOfSession, FormsAreInside
<1>3. Bare.kind # "inside"
  BY BlankTypes
<1> QED
  BY <1>1, <1>2, <1>3 DEF Answers

LEMMA LoginFormAnswer ==
    ASSUME TypeInv, NEW t \in Tabs, RenderLogin(t)
    PROVE  Answers(t)
<1>1. PICK k \in Nat, e \in Nat : Respond(t, LoginForm(k, e))
  <2>1. tokens' = tokens + 1 /\ Respond(t, LoginForm(tokens', now + Ttl))
    BY DEF RenderLogin, LoginForm
  <2>2. tokens' \in Nat /\ now + Ttl \in Nat
    BY <2>1, Numbers
  <2> QED
    BY <2>1, <2>2
<1>2. /\ LoginForm(k, e) \in Answer /\ LoginForm(k, e).session = "keep"
      /\ LoginForm(k, e).login = "set" /\ LoginForm(k, e).page = LoginPage(k)
  BY LoginFormType
<1>3. LoginPage(k).kind = "login" /\ LoginPage(k).form = "none"
  BY LoginPageType
<1>4. PageOfSession(req[t], LoginPage(k)) /\ LoginPage(k).kind # "inside"
  BY <1>3 DEF PageOfSession, FormsAreInside
<1> QED
  BY <1>1, <1>2, <1>4 DEF Answers

LEMMA RefusedAnswer ==
    ASSUME TypeInv, NEW t \in Tabs, Respond(t, Forbidden(req[t])),
           req[t].pc = "checked", req[t].kind \in {"decide", "logout"}
    PROVE  Answers(t)
<1>1. req[t] \in Request /\ req[t].user \in Users
  BY DEF TypeInv, TypeOK, UserKnown
<1> DEFINE p == Inside(req[t].user, req[t].cookies.session.csrf)
<1>2. /\ Forbidden(req[t]) \in Answer /\ Forbidden(req[t]).session = "keep"
      /\ Forbidden(req[t]).login = "keep" /\ Forbidden(req[t]).page = p
  BY <1>1, ForbiddenType
<1>3. /\ p.kind = "inside" /\ p.user = req[t].user /\ p.form = "none"
      /\ p.csrf = req[t].cookies.session.csrf
  <2>1. req[t].cookies.session.csrf \in Nat
    BY <1>1 DEF Request, SessionCookie
  <2> QED
    BY <1>1, <2>1, InsideType
<1> HIDE DEF p
<1>4. PageOfSession(req[t], p)
  BY <1>3 DEF PageOfSession, FormsAreInside
<1> QED
  BY <1>2, <1>4 DEF Answers

LEMMA ServerMoves ==
    ASSUME TypeInv, NEW t \in Tabs, ServerStep(t)
    PROVE  /\ UNCHANGED <<jar, page, retired>>
           /\ \/ Answers(t) \/ LogsOut(t) \/ LogsIn(t) \/ PassesLogin(t)
              \/ PassesSession(t)
<1>1. UNCHANGED <<jar, page, retired>>
  BY DEF ServerStep, OperatorLoginPage, CheckConfigured, OperatorCasePage,
         CheckSession, OperatorLogout, HandleOperatorDecision, OperatorLogin,
         browser, history
<1>2. CASE OperatorLoginPage(t)
  BY <1>1, <1>2, PlainAnswer, LoginFormAnswer DEF OperatorLoginPage
<1>3. CASE CheckConfigured(t)
  BY <1>1, <1>3, PlainAnswer DEF CheckConfigured, PassesLogin
<1>4. CASE OperatorLogin(t)
  <2>1. CASE LoginFormAccepted(req[t]) /\ req[t].right /\ roles[req[t].user] # {}
    <3>1. req[t].kind = "login"
      BY <1>4 DEF OperatorLogin
    <3> QED
      BY <1>1, <1>4, <2>1, <3>1, LoggedInMeans DEF LogsIn
  <2>2. CASE ~(LoginFormAccepted(req[t]) /\ req[t].right /\ roles[req[t].user] # {})
    BY <1>1, <1>4, <2>2, LoginRefusedMeans, LoginFormAnswer
  <2> QED
    BY <2>1, <2>2
<1>5. CASE OperatorCasePage(t)
  <2> DEFINE c == req[t].cookies.session
             user == Operator(c)
  <2>1. CASE Respond(t, Show(Bare))
    BY <1>1, <2>1, PlainAnswer
  <2>2. CASE CanReview(user) /\ Respond(t, Show(CasePage(user, c.csrf)))
    <3>1. user \in Users /\ user # Nobody
      BY <2>2, Constants DEF CanReview, HasAnyRole
    <3>2. user = c.user /\ c.csrf \in Nat /\ record \in Seq(Entry)
      BY <3>1, OperatorIs DEF TypeInv, TypeOK, Request, SessionCookie
    <3> DEFINE p == CasePage(user, c.csrf)
    <3>3. p \in Page /\ p.csrf = c.csrf /\ p.kind = "inside" /\ p.user = user
      BY <3>1, <3>2, CasePageType
    <3> HIDE DEF user, p
    <3>4. /\ Show(p) \in Answer /\ Show(p).session = "keep"
          /\ Show(p).login = "keep" /\ Show(p).page = p
      BY <3>3, ShowType
    <3>5. PageOfSession(req[t], p)
      BY <3>2, <3>3 DEF PageOfSession, FormsAreInside
    <3>6. req[t].pc = "sent" /\ Respond(t, Show(p))
      BY <1>5, <2>2 DEF OperatorCasePage, p
    <3> QED
      BY <1>1, <3>4, <3>5, <3>6 DEF Answers
  <2> QED
    BY <1>5, <2>1, <2>2 DEF OperatorCasePage
<1>6. CASE CheckSession(t)
  <2> DEFINE user == Operator(req[t].cookies.session)
  <2>1. CASE Respond(t, Show(Bare))
    BY <1>1, <2>1, PlainAnswer
  <2>2. CASE /\ user # Nobody
             /\ req[t].kind = "decide" => CanApprove(user)
             /\ Passes(t, user, now)
    <3>1. req[t].kind \in {"decide", "logout"} /\ user \in Users
      BY <1>6, <2>2, OperatorIs DEF CheckSession
    <3> QED
      BY <1>1, <2>2, <3>1 DEF PassesSession
  <2> QED
    BY <1>6, <2>1, <2>2 DEF CheckSession, Passes
<1>7. CASE OperatorLogout(t)
  BY <1>1, <1>7, RefusedAnswer DEF OperatorLogout, LogsOut
<1>8. CASE HandleOperatorDecision(t)
  BY <1>1, <1>8, DecisionMeans, PlainAnswer, RefusedAnswer
<1> QED
  BY <1>2, <1>3, <1>4, <1>5, <1>6, <1>7, <1>8 DEF ServerStep

(* Whatever the server does, the request is the one that was sent.         *)
LEMMA RequestStays ==
    ASSUME TypeInv, NEW t \in Tabs, ServerStep(t)
    PROVE  /\ OnlyRequest(t)
           /\ req'[t].kind = req[t].kind /\ req'[t].cookies = req[t].cookies
           /\ req'[t].csrf = req[t].csrf /\ req'[t].from = req[t].from
           /\ req'[t].late = req[t].late /\ req'[t].reason = req[t].reason
<1>1. TypeOK
  BY DEF TypeInv
<1>2. CASE Answers(t)
  BY <1>1, <1>2, RespondMeans DEF Answers
<1>3. CASE LogsOut(t)
  BY <1>1, <1>3, RespondMeans, LoggedOutType DEF LogsOut
<1>4. CASE LogsIn(t)
  <2>1. /\ req[t].user \in Users /\ tokens' = tokens + 1
        /\ Respond(t, LoggedIn(req[t].user, tokens', now + Ttl))
    BY <1>4 DEF LogsIn
  <2>2. tokens' \in Nat /\ now + Ttl \in Nat
    <3>1. tokens' = tokens + 1
      BY <2>1
    <3> QED
      BY <3>1, Numbers
  <2>3. LoggedIn(req[t].user, tokens', now + Ttl) \in Answer
    BY <2>1, <2>2, LoggedInType
  <2> QED
    BY <1>1, <2>1, <2>3, RespondMeans
<1>5. CASE PassesLogin(t)
  BY <1>1, <1>5, ConfiguredMeans DEF PassesLogin
<1>6. CASE PassesSession(t)
  <2>1. PICK u \in Users, n \in Nat : Passes(t, u, n)
    BY <1>6, Numbers DEF PassesSession
  <2> QED
    BY <1>1, <2>1, PassesMeans
<1> QED
  BY <1>2, <1>3, <1>4, <1>5, <1>6, ServerMoves

(* The record grows by the decision of a checked request only.             *)
Records(t) ==
    /\ req[t].pc = "checked" /\ req[t].kind = "decide"
    /\ FormAccepted(req[t]) /\ NewDecision(req[t])
    /\ record' = Append(record, EntryOf(req[t]))

LEMMA RecordMoves ==
    ASSUME [Next]_vars
    PROVE  record' = record \/ \E t \in Tabs : Records(t)
<1>1. ASSUME NEW t \in Tabs, BrowserStep(t) \/ ServerStep(t)
      PROVE  record' = record \/ Records(t)
  <2>1. CASE Sends(t)
    BY <2>1, WhatIsSent DEF Send, case
  <2>2. CASE HandleOperatorDecision(t)
    BY <2>2, DecisionMeans DEF Records, case
  <2> QED
    BY <1>1, <2>1, <2>2, StepsOfATab
    DEF Receive, OperatorLoginPage, CheckConfigured, OperatorCasePage,
        CheckSession, OperatorLogout, OperatorLogin, case
<1> QED
  BY <1>1 DEF Next, GateReopens, Tick, Configure, vars, case

(* So a property of entries holds of the whole record when it holds of     *)
(* what the checked requests would add.                                    *)
LEMMA RecordKeeps ==
    ASSUME TypeInv, NEW Good, NEW Good2,
           \A i \in DOMAIN record : record[i] \in Good,
           Good \subseteq Good2, [Next]_vars,
           \A t \in Tabs : Records(t) => EntryOf(req[t]) \in Good2
    PROVE  \A i \in DOMAIN record' : record'[i] \in Good2
<1>1. record \in Seq(Entry)
  BY DEF TypeInv, TypeOK
<1>2. CASE record' = record
  BY <1>2
<1>3. ASSUME NEW t \in Tabs, Records(t)
      PROVE  \A i \in DOMAIN record' : record'[i] \in Good2
  <2>1. req[t] \in Request /\ req[t].user \in Users
    BY <1>3 DEF Records, TypeInv, TypeOK, UserKnown
  <2>2. EntryOf(req[t]) \in Entry
    BY <2>1, EntryOfType
  <2>3. /\ DOMAIN record' = 1 .. Len(record) + 1
        /\ record'[Len(record) + 1] = EntryOf(req[t])
        /\ \A i \in 1 .. Len(record) : record'[i] = record[i]
    BY <1>1, <1>3, <2>2, AppendProperties DEF Records
  <2>4. DOMAIN record = 1 .. Len(record) /\ Len(record) \in Nat
    BY <1>1, LenProperties
  <2> QED
    BY <1>3, <2>3, <2>4
<1> QED
  BY <1>2, <1>3, RecordMoves

-----------------------------------------------------------------------------
(* Admission, step by step.                                                *)

HistoryGrows ==
    /\ now \in Nat /\ now' \in Nat /\ now <= now'
    /\ logins \subseteq logins' /\ approvers \subseteq approvers'

LEMMA GrowsOrStays == ASSUME TypeInv, [Next]_vars PROVE HistoryGrows
<1>1. now \in Nat
  BY Numbers
<1>2. CASE UNCHANGED vars
  BY <1>1, <1>2 DEF vars, history, HistoryGrows
<1>3. CASE Tick
  <2>1. now' = now + 1
    BY <1>3 DEF Tick
  <2>2. now' \in Nat /\ now <= now'
    BY <1>1, <2>1
  <2> QED
    BY <1>1, <1>3, <2>2 DEF Tick, HistoryGrows
<1>4. ASSUME NEW t \in Tabs, BrowserStep(t) \/ ServerStep(t) PROVE HistoryGrows
  <2>1. CASE Sends(t)
    <3>1. UNCHANGED <<now, history>>
      BY <2>1, WhatIsSent DEF Send
    <3> QED
      BY <1>1, <3>1 DEF history, HistoryGrows
  <2>2. CASE Receive(t)
    BY <1>1, <2>2 DEF Receive, HistoryGrows
  <2>3. CASE OperatorLoginPage(t) \/ CheckConfigured(t) \/ OperatorCasePage(t)
               \/ CheckSession(t) \/ OperatorLogout(t) \/ HandleOperatorDecision(t)
    <3>1. UNCHANGED <<now, history>>
      BY <2>3 DEF OperatorLoginPage, CheckConfigured, OperatorCasePage,
                  CheckSession, OperatorLogout, HandleOperatorDecision
    <3> QED
      BY <1>1, <3>1 DEF history, HistoryGrows
  <2>4. CASE OperatorLogin(t)
    <3>1. UNCHANGED <<now, approvers>> /\ logins \subseteq logins'
      BY <2>4 DEF OperatorLogin
    <3> QED
      BY <1>1, <3>1 DEF HistoryGrows
  <2> QED
    BY <1>4, <2>1, <2>2, <2>3, <2>4, StepsOfATab
<1>5. CASE GateReopens \/ \E u \in Users : Configure(u)
  BY <1>1, <1>5 DEF GateReopens, Configure, history, HistoryGrows
<1> QED
  BY <1>2, <1>3, <1>4, <1>5 DEF Next

LEMMA IssuedStays ==
    ASSUME TypeInv, HistoryGrows, NEW u, NEW e, Issued(u, e)
    PROVE  Issued(u, e)'
<1>1. PICK l \in logins : l[1] = u /\ l[2] <= now /\ e = l[2] + Ttl
  BY DEF Issued
<1>2. l \in Users \X (0 .. MaxTime) /\ l[2] \in Nat
  BY DEF TypeInv, TypeOK
<1>3. l \in logins' /\ l[2] <= now'
  BY <1>1, <1>2 DEF HistoryGrows
<1> QED
  BY <1>1, <1>3 DEF Issued

LEMMA VouchedStays ==
    ASSUME HistoryGrows, NEW u, NEW at, Vouched(u, at)
    PROVE  Vouched(u, at)'
BY DEF HistoryGrows, Vouched

LEMMA RequestStaysAuthorised ==
    ASSUME TypeInv, HistoryGrows, NEW r, RequestAuthorised(r)
    PROVE  RequestAuthorised(r)'
BY IssuedStays, VouchedStays DEF RequestAuthorised, CookieIssued

(* Who may decide, and since when that is known.                           *)
LEMMA ApproversStayKnown ==
    ASSUME AdmissionInv, [Next]_vars
    PROVE  ApproversKnown'
<1>1. CASE UNCHANGED <<now, roles, approvers>>
  BY <1>1 DEF AdmissionInv, ApproversKnown, CanApprove, HasAnyRole
<1>2. CASE Tick
  BY <1>2 DEF Tick, ApproversKnown, CanApprove, HasAnyRole
<1>3. CASE \E u \in Users : Configure(u)
  BY <1>3 DEF Configure, ApproversKnown
<1>4. ASSUME NEW t \in Tabs, BrowserStep(t) \/ ServerStep(t)
      PROVE  UNCHANGED <<now, roles, approvers>>
  <2>1. CASE Sends(t)
    BY <2>1, WhatIsSent DEF Send, history
  <2> QED
    BY <1>4, <2>1, StepsOfATab
    DEF Receive, OperatorLoginPage, CheckConfigured, OperatorCasePage,
        CheckSession, OperatorLogout, HandleOperatorDecision, OperatorLogin, history
<1>5. CASE GateReopens
  BY <1>1, <1>5 DEF GateReopens, history
<1>6. CASE UNCHANGED vars
  BY <1>1, <1>6 DEF vars, history
<1> QED
  BY <1>1, <1>2, <1>3, <1>4, <1>5, <1>6 DEF Next

(* A step that handles one request authorises that one, the others are as  *)
(* they were.                                                              *)
LEMMA OthersStayAuthorised ==
    ASSUME AdmissionInv, HistoryGrows, NEW t \in Tabs, OnlyRequest(t),
           RequestAuthorised(req[t])', NEW u \in Tabs
    PROVE  RequestAuthorised(req[u])'
<1>1. CASE u = t
  BY <1>1
<1>2. CASE u # t
  <2>1. req'[u] = req[u] /\ RequestAuthorised(req[u])
    BY <1>2 DEF OnlyRequest, AdmissionInv
  <2> QED
    BY <2>1, RequestStaysAuthorised DEF AdmissionInv
<1> QED
  BY <1>1, <1>2

LEMMA SentAuthorised ==
    ASSUME AdmissionInv, HistoryGrows, NEW t \in Tabs, Sends(t)
    PROVE  UNCHANGED jar /\ OnlyRequest(t) /\ RequestAuthorised(req[t])'
<1>1. PICK r \in Request : Send(t, r) /\ r.answer = NoRequest.answer
  BY WhatIsSent
<1>2. /\ OnlyRequest(t) /\ req'[t].pc = "sent" /\ req'[t].cookies = jar
      /\ req'[t].answer = NoRequest.answer
  BY <1>1, SendMeans DEF AdmissionInv, TypeInv
<1>3. UNCHANGED jar
  BY <1>1 DEF Send, browser
<1>4. CookieIssued(jar.session)'
  BY <1>3, IssuedStays DEF AdmissionInv, CookieIssued
<1>5. RequestAuthorised(req[t])'
  <2>1. req'[t].answer.session = "keep"
    BY <1>2, NoRequestType
  <2>2. CookieIssued(req[t].cookies.session)'
    BY <1>2, <1>3, <1>4 DEF CookieIssued
  <2> QED
    BY <1>2, <2>1, <2>2 DEF RequestAuthorised
<1> QED
  BY <1>2, <1>3, <1>5

(* An answer stores the cookie of a login, or keeps or clears the one of   *)
(* the browser.                                                            *)
LEMMA ReceivedAuthorised ==
    ASSUME AdmissionInv, HistoryGrows, NEW t \in Tabs, Receive(t)
    PROVE  /\ CookieIssued(jar.session)'
           /\ OnlyRequest(t) /\ RequestAuthorised(req[t])'
<1> DEFINE a == req[t].answer
<1>1. /\ OnlyRequest(t) /\ req'[t] = NoRequest
      /\ jar'.session = SessionAfter(a)
  BY ReceiveMeans DEF AdmissionInv
<1>2. RequestAuthorised(req[t])'
  <2>1. /\ NoRequest.cookies.session.csrf = 0 /\ NoRequest.pc = "none"
        /\ NoRequest.answer.session = "keep"
    BY NoRequestType
  <2> QED
    BY <1>1, <2>1 DEF RequestAuthorised, CookieIssued
<1>3. CookieIssued(jar.session)'
  <2>1. req[t] \in Request /\ RequestAuthorised(req[t])
    BY DEF AdmissionInv, TypeInv, TypeOK
  <2>2. a \in Answer
    BY <2>1 DEF Request
  <2>3. a.session \in {"keep", "clear", "set"}
    BY <2>2 DEF Answer
  <2>4. CASE a.session = "keep"
    <3>1. jar'.session = jar.session
      BY <1>1, <2>4 DEF SessionAfter
    <3> QED
      BY <3>1, IssuedStays DEF AdmissionInv, CookieIssued
  <2>5. CASE a.session = "clear"
    <3>1. jar'.session = NoSession
      BY <1>1, <2>5 DEF SessionAfter
    <3> QED
      BY <3>1, BlankTypes DEF CookieIssued
  <2>6. CASE a.session = "set"
    <3>1. jar'.session = [user |-> a.user, exp |-> a.exp, csrf |-> a.csrf]
      BY <1>1, <2>6 DEF SessionAfter
    <3>2. jar'.session.user = a.user /\ jar'.session.exp = a.exp
      BY <3>1
    <3>3. Issued(a.user, a.exp)
      BY <2>1, <2>6 DEF RequestAuthorised
    <3>4. PICK u, e : u = a.user /\ e = a.exp
      OBVIOUS
    <3>5. Issued(u, e)'
      <4>1. Issued(u, e)
        BY <3>3, <3>4
      <4> QED
        BY <4>1, IssuedStays DEF AdmissionInv
    <3>6. jar'.session.user = u /\ jar'.session.exp = e
      BY <3>2, <3>4
    <3> QED
      BY <3>5, <3>6 DEF CookieIssued, Issued
  <2> QED
    BY <2>3, <2>4, <2>5, <2>6
<1> QED
  BY <1>1, <1>2, <1>3

LEMMA ServedAuthorised ==
    ASSUME AdmissionInv, HistoryGrows, NEW t \in Tabs, ServerStep(t)
    PROVE  UNCHANGED jar /\ OnlyRequest(t) /\ RequestAuthorised(req[t])'
<1>1. UNCHANGED jar /\ TypeInv /\ req[t] \in Request
  BY ServerMoves DEF AdmissionInv, TypeInv, TypeOK
<1> DEFINE c == req[t].cookies.session
<1>2. CookieIssued(c) /\ RequestAuthorised(req[t])
  BY DEF AdmissionInv, RequestAuthorised
<1>3. \A u, e : Issued(u, e) => Issued(u, e)'
  BY IssuedStays DEF AdmissionInv
<1>4. ASSUME req'[t].cookies = req[t].cookies PROVE CookieIssued(req[t].cookies.session)'
  <2>1. PICK u, e : u = c.user /\ e = c.exp
    OBVIOUS
  <2>2. c.csrf # 0 => Issued(u, e)'
    BY <1>2, <1>3, <2>1 DEF CookieIssued
  <2>3. req'[t].cookies.session = c
    BY <1>4
  <2> QED
    BY <2>1, <2>2, <2>3 DEF CookieIssued, Issued
<1>5. ASSUME NEW a \in Answer, Respond(t, a), a.session # "set"
      PROVE  OnlyRequest(t) /\ RequestAuthorised(req[t])'
  <2>1. /\ OnlyRequest(t) /\ req'[t].pc = "answered" /\ req'[t].answer = a
        /\ req'[t].cookies = req[t].cookies
    BY <1>1, <1>5, RespondMeans DEF TypeInv
  <2> QED
    BY <1>4, <1>5, <2>1 DEF RequestAuthorised
<1>6. CASE Answers(t)
  BY <1>1, <1>5, <1>6 DEF Answers
<1>7. CASE LogsOut(t)
  BY <1>1, <1>5, <1>7, LoggedOutType DEF LogsOut
<1>8. CASE LogsIn(t)
  <2> DEFINE u == req[t].user
  <2>1. /\ u \in Users /\ logins' = logins \cup {<<u, now>>} /\ now' = now
        /\ tokens' = tokens + 1 /\ Respond(t, LoggedIn(u, tokens', now + Ttl))
    BY <1>8 DEF LogsIn
  <2>2. tokens' \in Nat /\ now + Ttl \in Nat /\ now \in Nat
    <3>1. tokens' = tokens + 1
      BY <2>1
    <3> QED
      BY <1>1, <3>1, Numbers
  <2>3. PICK v, k, e : v = u /\ k = tokens' /\ e = now + Ttl
    OBVIOUS
  <2> HIDE DEF u
  <2>4. /\ LoggedIn(v, k, e) \in Answer
        /\ LoggedIn(v, k, e).user = v /\ LoggedIn(v, k, e).exp = e
    <3>1. v \in Users /\ k \in Nat /\ e \in Nat
      BY <2>1, <2>2, <2>3
    <3> QED
      BY <3>1, LoggedInType
  <2>5. /\ OnlyRequest(t) /\ req'[t].pc = "answered"
        /\ req'[t].answer = LoggedIn(v, k, e) /\ req'[t].cookies = req[t].cookies
    BY <1>1, <2>1, <2>3, <2>4, RespondMeans DEF TypeInv
  <2>6. Issued(v, e)'
    <3>1. <<v, now>> \in logins' /\ now <= now' /\ e = now + Ttl
      BY <2>1, <2>2, <2>3
    <3>2. <<v, now>>[1] = v /\ <<v, now>>[2] = now
      OBVIOUS
    <3> QED
      BY <3>1, <3>2 DEF Issued
  <2>7. req'[t].answer.user = v /\ req'[t].answer.exp = e
    BY <2>4, <2>5
  <2> QED
    BY <1>1, <1>4, <2>5, <2>6, <2>7 DEF RequestAuthorised, Issued
<1>9. CASE PassesLogin(t)
  <2>1. /\ OnlyRequest(t) /\ req'[t].kind = req[t].kind
        /\ req'[t].answer = req[t].answer /\ req'[t].cookies = req[t].cookies
    BY <1>1, <1>9, ConfiguredMeans DEF PassesLogin, TypeInv
  <2>2. req[t].kind = "login"
    BY <1>9 DEF PassesLogin
  <2>3. PICK u, e : u = req[t].answer.user /\ e = req[t].answer.exp
    OBVIOUS
  <2>4. req[t].answer.session = "set" => Issued(u, e)'
    BY <1>2, <1>3, <2>3 DEF RequestAuthorised
  <2> QED
    BY <1>1, <1>4, <2>1, <2>2, <2>3, <2>4 DEF RequestAuthorised, Issued
<1>10. CASE PassesSession(t)
  <2> DEFINE user == Operator(c)
  <2>1. /\ user \in Users
        /\ req[t].kind = "decide" => CanApprove(user)
        /\ Passes(t, user, now)
    BY <1>10 DEF PassesSession
  <2>2. now \in Nat /\ user # Nobody
    BY <1>1, <1>10, Numbers, Constants DEF PassesSession
  <2>3. user = c.user /\ c.csrf # 0 /\ now < c.exp
    BY <1>1, <2>2, OperatorIs
  <2> HIDE DEF user
  <2>4. /\ OnlyRequest(t) /\ req'[t].user = user /\ req'[t].at = now
        /\ req'[t].kind = req[t].kind
        /\ req'[t].answer = req[t].answer /\ req'[t].cookies = req[t].cookies
    BY <1>1, <2>1, <2>2, PassesMeans DEF TypeInv
  <2>5. req[t].kind = "decide" => Vouched(user, now)
    <3>1. PICK l \in logins : l[1] = user /\ l[2] <= now /\ c.exp = l[2] + Ttl
      BY <1>2, <2>3 DEF CookieIssued, Issued
    <3>2. now < l[2] + Ttl
      BY <2>3, <3>1
    <3>3. req[t].kind = "decide" => <<user, now>> \in approvers
      BY <2>1 DEF AdmissionInv, ApproversKnown
    <3> QED
      BY <3>1, <3>2, <3>3 DEF Vouched
  <2>6. PICK v, n : v = user /\ n = now
    OBVIOUS
  <2>7. req[t].kind = "decide" => Vouched(v, n)'
    BY <2>5, <2>6, VouchedStays
  <2>8. PICK u, e : u = req[t].answer.user /\ e = req[t].answer.exp
    OBVIOUS
  <2>9. req[t].answer.session = "set" => Issued(u, e)'
    BY <1>2, <1>3, <2>8 DEF RequestAuthorised
  <2> QED
    BY <1>1, <1>4, <2>4, <2>6, <2>7, <2>8, <2>9 DEF RequestAuthorised, Issued, Vouched
<1> QED
  BY <1>1, <1>6, <1>7, <1>8, <1>9, <1>10, ServerMoves

LEMMA DecisionsStayAuthorised ==
    ASSUME AdmissionInv, HistoryGrows, [Next]_vars
    PROVE  DecisionAuthorised'
<1> DEFINE Good == {e \in Entry : Vouched(e.actor, e.at)}
           Good2 == {e \in Entry : Vouched(e.actor, e.at)'}
<1>1. TypeInv /\ record \in Seq(Entry)
  BY DEF AdmissionInv, TypeInv, TypeOK
<1>2. \A i \in DOMAIN record : record[i] \in Good
  <2>1. ASSUME NEW i \in DOMAIN record PROVE record[i] \in Good
    <3>1. record[i] \in Entry
      BY <1>1, ElementOfSeq, LenProperties
    <3> QED
      BY <3>1 DEF AdmissionInv, DecisionAuthorised, Vouched
  <2> QED
    BY <2>1
<1>3. Good \subseteq Good2
  BY VouchedStays
<1>4. ASSUME NEW t \in Tabs, Records(t) PROVE EntryOf(req[t]) \in Good2
  <2>1. /\ req[t] \in Request /\ req[t].user \in Users
        /\ Vouched(req[t].user, req[t].at)
    BY <1>4 DEF Records, AdmissionInv, TypeInv, TypeOK, UserKnown, RequestAuthorised
  <2>2. EntryOf(req[t]) \in Entry
    BY <2>1, EntryOfType
  <2>3. EntryOf(req[t]).actor = req[t].user /\ EntryOf(req[t]).at = req[t].at
    BY DEF EntryOf
  <2>4. EntryOf(req[t]) \in Good
    BY <2>1, <2>2, <2>3
  <2> QED
    BY <1>3, <2>4
<1>5. \A i \in DOMAIN record' : record'[i] \in Good2
  <2> HIDE DEF Good, Good2
  <2> QED
    BY <1>1, <1>2, <1>3, <1>4, RecordKeeps
<1> QED
  BY <1>5 DEF DecisionAuthorised, Vouched

LEMMA InitAdmission == Init => AdmissionInv
<1> SUFFICES ASSUME Init PROVE AdmissionInv
  OBVIOUS
<1>1. TypeInv
  BY InitType
<1>2. ApproversKnown
  BY DEF Init, ApproversKnown
<1>3. CookieIssued(jar.session)
  BY BlankTypes DEF Init, CookieIssued
<1>4. ASSUME NEW t \in Tabs PROVE RequestAuthorised(req[t])
  <2>1. req[t] = NoRequest
    BY DEF Init
  <2> QED
    BY <2>1, NoRequestType DEF RequestAuthorised, CookieIssued
<1>5. DecisionAuthorised
  BY DEF Init, DecisionAuthorised
<1> QED
  BY <1>1, <1>2, <1>3, <1>4, <1>5 DEF AdmissionInv

LEMMA StepAdmission == AdmissionInv /\ [Next]_vars => AdmissionInv'
<1> SUFFICES ASSUME AdmissionInv, [Next]_vars PROVE AdmissionInv'
  OBVIOUS
<1>1. TypeInv' /\ HistoryGrows
  BY StepType, GrowsOrStays DEF AdmissionInv
<1>2. ApproversKnown' /\ DecisionAuthorised'
  BY <1>1, ApproversStayKnown, DecisionsStayAuthorised
<1>3. ASSUME UNCHANGED jar PROVE CookieIssued(jar.session)'
  BY <1>1, <1>3, IssuedStays DEF AdmissionInv, CookieIssued
<1>4. ASSUME NEW t \in Tabs, BrowserStep(t) \/ ServerStep(t)
      PROVE  /\ CookieIssued(jar.session)'
             /\ \A u \in Tabs : RequestAuthorised(req[u])'
  <2>1. CASE Sends(t)
    BY <1>1, <1>3, <2>1, SentAuthorised, OthersStayAuthorised
  <2>2. CASE Receive(t)
    BY <1>1, <2>2, ReceivedAuthorised, OthersStayAuthorised
  <2>3. CASE ServerStep(t)
    BY <1>1, <1>3, <2>3, ServedAuthorised, OthersStayAuthorised
  <2> QED
    BY <1>4, <2>1, <2>2, <2>3 DEF BrowserStep, Sends
<1>5. ASSUME UNCHANGED <<jar, req>>
      PROVE  /\ CookieIssued(jar.session)'
             /\ \A u \in Tabs : RequestAuthorised(req[u])'
  BY <1>1, <1>3, <1>5, RequestStaysAuthorised DEF AdmissionInv
<1>6. CASE UNCHANGED vars
  BY <1>1, <1>2, <1>5, <1>6 DEF AdmissionInv, vars, browser
<1>7. CASE GateReopens \/ Tick \/ \E u \in Users : Configure(u)
  BY <1>1, <1>2, <1>5, <1>7
  DEF AdmissionInv, GateReopens, Tick, Configure, browser
<1> QED
  BY <1>1, <1>2, <1>4, <1>6, <1>7 DEF AdmissionInv, Next

(* Every decision that was ever recorded was admitted at a moment when its *)
(* actor was an approver in the operator file and had logged in less than  *)
(* a session's life before: demotions and expiries are not overlooked.     *)
THEOREM DecisionsAreAuthorised == Spec => []DecisionAuthorised
<1>1. AdmissionInv => DecisionAuthorised
  BY DEF AdmissionInv
<1> QED
  BY <1>1, InitAdmission, StepAdmission, PTL DEF Spec

-----------------------------------------------------------------------------
(* The form of a decision.                                                 *)

LEMMA FormsKeepAsking ==
    ASSUME FormInv, NEW t \in Tabs, BrowserStep(t) \/ ServerStep(t), NEW u \in Tabs
    PROVE  FormAsks(req[u])'
<1>1. TypeInv /\ FormAsks(req[u])
  BY DEF FormInv
<1>2. CASE Sends(t)
  <2>1. PICK r \in Request :
          /\ Send(t, r)
          /\ r.kind = "decide" => /\ page[t].form # "none"
                                  /\ page[t].form = "retry" => ~r.reason
    BY <1>2, WhatIsSent
  <2>2. /\ OnlyRequest(t) /\ req'[t].from = page[t]
        /\ req'[t].kind = r.kind /\ req'[t].reason = r.reason
    BY <1>1, <2>1, SendMeans DEF TypeInv
  <2>3. FormAsks(req[t])'
    BY <2>1, <2>2 DEF FormAsks
  <2> QED
    BY <1>1, <2>2, <2>3 DEF OnlyRequest, FormAsks
<1>3. CASE Receive(t)
  <2>1. OnlyRequest(t) /\ req'[t] = NoRequest
    BY <1>1, <1>3, ReceiveMeans
  <2> QED
    BY <1>1, <2>1, NoRequestType DEF OnlyRequest, FormAsks
<1>4. CASE ServerStep(t)
  BY <1>1, <1>4, RequestStays DEF OnlyRequest, FormAsks
<1> QED
  BY <1>2, <1>3, <1>4 DEF BrowserStep, Sends

LEMMA StepForm == FormInv /\ [Next]_vars => FormInv'
<1> SUFFICES ASSUME FormInv, [Next]_vars PROVE FormInv'
  OBVIOUS
<1>1. TypeInv' /\ TypeInv /\ record \in Seq(Entry)
  BY StepType DEF FormInv, TypeInv, TypeOK
<1>2. ASSUME NEW u \in Tabs PROVE FormAsks(req[u])'
  <2>1. CASE UNCHANGED req
    BY <2>1 DEF FormInv, FormAsks
  <2> QED
    BY <2>1, FormsKeepAsking DEF Next, GateReopens, Tick, Configure, vars
<1>3. RetryFormNeverDecides'
  <2> DEFINE Good == {e \in Entry : e.from.form = "decide"}
  <2>1. \A i \in DOMAIN record : record[i] \in Good
    <3>1. ASSUME NEW i \in DOMAIN record PROVE record[i] \in Good
      <4>1. record[i] \in Entry
        BY <1>1, ElementOfSeq, LenProperties
      <4> QED
        BY <4>1 DEF FormInv, RetryFormNeverDecides
    <3> QED
      BY <3>1
  <2>2. ASSUME NEW t \in Tabs, Records(t) PROVE EntryOf(req[t]) \in Good
    <3>1. /\ req[t] \in Request /\ req[t].user \in Users /\ req[t].kind = "decide"
          /\ req[t].reason /\ FormAsks(req[t])
      BY <2>2 DEF Records, NewDecision, FormInv, TypeInv, TypeOK, UserKnown
    <3>2. req[t].from \in Page
      BY <3>1 DEF Request
    <3>3. req[t].from.form = "decide"
      BY <3>1, <3>2 DEF FormAsks, Page
    <3>4. EntryOf(req[t]) \in Entry /\ EntryOf(req[t]).from = req[t].from
      BY <3>1, EntryOfType DEF EntryOf
    <3> QED
      BY <3>3, <3>4
  <2>3. \A i \in DOMAIN record' : record'[i] \in Good
    <3> HIDE DEF Good
    <3> QED
      BY <1>1, <2>1, <2>2, RecordKeeps
  <2> QED
    BY <2>3 DEF RetryFormNeverDecides
<1> QED
  BY <1>1, <1>2, <1>3 DEF FormInv

LEMMA InitForm == Init => FormInv
<1> SUFFICES ASSUME Init PROVE FormInv
  OBVIOUS
<1>1. ASSUME NEW t \in Tabs PROVE FormAsks(req[t])
  <2>1. req[t] = NoRequest
    BY DEF Init
  <2> QED
    BY <2>1, NoRequestType DEF FormAsks
<1> QED
  BY <1>1, InitType DEF Init, FormInv, RetryFormNeverDecides

(* The form that repeats a decision never records a new one, whatever has  *)
(* become of the gate since its page was rendered.                         *)
THEOREM RetryFormsOnlyRepeat == Spec => []RetryFormNeverDecides
<1>1. FormInv => RetryFormNeverDecides
  BY DEF FormInv
<1> QED
  BY <1>1, InitForm, StepForm, PTL DEF Spec

-----------------------------------------------------------------------------
(* The name on the page.                                                   *)

(* A page or a cookie that carries a token carries one that was generated. *)
LEMMA NamedExists ==
    ASSUME NameInv, NEW k \in Nat, NEW u, Names(k, u)
    PROVE  k <= tokens
<1>1. CASE CookieNames(jar.session, k, u)
  BY <1>1 DEF CookieNames, NameInv, TypeInv, TokensExist
<1>2. ASSUME NEW t \in Tabs, PageNames(page[t], k, u) PROVE k <= tokens
  BY <1>2 DEF PageNames, NameInv, TypeInv, TokensExist
<1>3. ASSUME NEW t \in Tabs, RequestNames(req[t], k, u) PROVE k <= tokens
  <2>1. TokensOfRequest(req[t]) /\ RequestOfSession(req[t])
    BY DEF NameInv, TypeInv, TokensExist
  <2>2. req[t].from.csrf <= tokens
    BY <2>1 DEF TokensOfRequest, RequestOfSession
  <2> QED
    BY <1>3, <2>1, <2>2 DEF RequestNames, CookieNames, PageNames, TokensOfRequest
<1> QED
  BY <1>1, <1>2, <1>3 DEF Names

LEMMA NoRequestFrom == NoRequest.from = Bare /\ FormsAreInside(Bare)
BY BlankTypes DEF NoRequest, FormsAreInside

LEMMA NothingNames ==
    ASSUME NEW k \in Nat \ {0}, NEW u
    PROVE  /\ ~PageNames(Bare, k, u) /\ ~RequestNames(NoRequest, k, u)
           /\ ~CookieNames(NoSession, k, u)
<1>1. Bare.kind = "bare" /\ Bare.form = "none" /\ NoSession.csrf = 0
  BY BlankTypes
<1>2. NoRequest.from = Bare
  BY DEF NoRequest
<1>3. /\ NoRequest.cookies.session.csrf = 0 /\ NoRequest.answer.page = Bare
      /\ NoRequest.answer.session = "keep"
  BY NoRequestType
<1> QED
  BY <1>1, <1>2, <1>3 DEF PageNames, RequestNames, CookieNames

(* What a step of one tab may name anew is named by its own page, its own  *)
(* request, or the cookie.                                                 *)
LEMMA NamedByTheTab ==
    ASSUME NEW t \in Tabs, OnlyRequest(t), \A w \in Tabs : w # t => page'[w] = page[w],
           NEW k, NEW u, Names(k, u)'
    PROVE  \/ Names(k, u) \/ CookieNames(jar.session, k, u)'
           \/ PageNames(page[t], k, u)' \/ RequestNames(req[t], k, u)'
<1>1. CASE CookieNames(jar.session, k, u)'
  BY <1>1
<1>2. ASSUME NEW w \in Tabs, w # t,
             PageNames(page[w], k, u)' \/ RequestNames(req[w], k, u)'
      PROVE  Names(k, u)
  <2>1. req'[w] = req[w] /\ page'[w] = page[w]
    BY <1>2 DEF OnlyRequest
  <2>2. PageNames(page[w], k, u) \/ RequestNames(req[w], k, u)
    BY <1>2, <2>1 DEF PageNames, RequestNames, CookieNames
  <2> QED
    BY <2>2 DEF Names
<1>3. ASSUME NEW w \in Tabs, w = t,
             PageNames(page[w], k, u)' \/ RequestNames(req[w], k, u)'
      PROVE  PageNames(page[t], k, u)' \/ RequestNames(req[t], k, u)'
  BY <1>3
<1> QED
  BY <1>1, <1>2, <1>3 DEF Names

LEMMA SentNames ==
    ASSUME NameInv, NEW t \in Tabs, Sends(t)
    PROVE  /\ OnlyRequest(t) /\ UNCHANGED <<jar, page>>
           /\ RequestOfSession(req[t])'
           /\ \A k \in Nat \ {0} : \A u : RequestNames(req[t], k, u)' => Names(k, u)
<1>1. TypeOK /\ FormsAreInside(page[t])
  BY DEF NameInv, TypeInv
<1>2. PICK r \in Request :
        /\ Send(t, r) /\ r.answer = NoRequest.answer
        /\ r.kind = "decide" => page[t].form # "none"
  BY WhatIsSent
<1>3. /\ OnlyRequest(t) /\ req'[t].pc = "sent" /\ req'[t].cookies = jar
      /\ req'[t].csrf = page[t].csrf /\ req'[t].from = page[t]
      /\ req'[t].kind = r.kind /\ req'[t].answer = NoRequest.answer
  BY <1>1, <1>2, SendMeans
<1>4. UNCHANGED <<jar, page>>
  BY <1>2 DEF Send, browser
<1>5. NoRequest.answer.page = Bare /\ NoRequest.answer.session = "keep"
      /\ Bare.kind = "bare" /\ Bare.form = "none"
  BY NoRequestType, BlankTypes
<1>6. RequestOfSession(req[t])'
  BY <1>1, <1>2, <1>3, <1>5 DEF RequestOfSession, FormsAreInside
<1>7. ASSUME NEW k \in Nat \ {0}, NEW u, RequestNames(req[t], k, u)'
      PROVE  Names(k, u)
  <2>1. CookieNames(jar.session, k, u) \/ PageNames(page[t], k, u)
    BY <1>3, <1>5, <1>7 DEF RequestNames, CookieNames, PageNames
  <2> QED
    BY <2>1 DEF Names
<1> QED
  BY <1>3, <1>4, <1>6, <1>7

LEMMA ReceivedNames ==
    ASSUME NameInv, NEW t \in Tabs, Receive(t)
    PROVE  /\ OnlyRequest(t) /\ \A w \in Tabs : w # t => page'[w] = page[w]
           /\ RequestOfSession(req[t])' /\ FormsAreInside(page[t])'
           /\ \A k \in Nat \ {0} : \A u :
                \/ RequestNames(req[t], k, u)' \/ PageNames(page[t], k, u)'
                \/ CookieNames(jar.session, k, u)'
                => Names(k, u)
<1> DEFINE a == req[t].answer
<1>1. /\ OnlyRequest(t) /\ req'[t] = NoRequest
      /\ page'[t] = a.page /\ \A w \in Tabs : w # t => page'[w] = page[w]
      /\ jar'.session = SessionAfter(a)
  BY ReceiveMeans DEF NameInv
<1>2. /\ NoRequest.from = Bare /\ FormsAreInside(Bare)
      /\ NoRequest.answer.page = Bare /\ NoRequest.kind = "case page"
      /\ NoRequest.csrf = 0 /\ Bare.csrf = 0
  BY NoRequestFrom, NoRequestType, BlankTypes
<1>3. RequestOfSession(req[t])'
  BY <1>1, <1>2 DEF RequestOfSession, FormsAreInside
<1>4. FormsAreInside(page[t])'
  BY <1>1 DEF NameInv, RequestOfSession, FormsAreInside
<1>5. ASSUME NEW k \in Nat \ {0}, NEW u, RequestNames(req[t], k, u)'
      PROVE  FALSE
  <2>1. RequestNames(NoRequest, k, u)
    BY <1>1, <1>5 DEF RequestNames, CookieNames, PageNames
  <2> QED
    BY <2>1, NothingNames
<1>6. ASSUME NEW k \in Nat \ {0}, NEW u, PageNames(page[t], k, u)'
      PROVE  Names(k, u)
  <2>1. PageNames(a.page, k, u)
    BY <1>1, <1>6 DEF PageNames
  <2> QED
    BY <2>1 DEF Names, RequestNames
<1>7. ASSUME NEW k \in Nat \ {0}, NEW u, CookieNames(jar.session, k, u)'
      PROVE  Names(k, u)
  <2>1. CookieNames(SessionAfter(a), k, u)
    BY <1>1, <1>7 DEF CookieNames
  <2>2. a \in Answer
    BY DEF NameInv, TypeInv, TypeOK, Request
  <2>3. a.session \in {"keep", "clear", "set"}
    BY <2>2 DEF Answer
  <2>4. CASE a.session = "keep"
    BY <2>1, <2>4 DEF SessionAfter, Names
  <2>5. CASE a.session = "clear"
    BY <2>1, <2>5, NothingNames DEF SessionAfter
  <2>6. CASE a.session = "set"
    <3>1. SessionAfter(a) = [user |-> a.user, exp |-> a.exp, csrf |-> a.csrf]
      BY <2>6 DEF SessionAfter
    <3>2. a.csrf = k /\ a.user = u
      BY <2>1, <3>1 DEF CookieNames
    <3> QED
      BY <2>6, <3>2 DEF Names, RequestNames
  <2> QED
    BY <2>3, <2>4, <2>5, <2>6
<1> QED
  BY <1>1, <1>3, <1>4, <1>5, <1>6, <1>7

LEMMA ServedNames ==
    ASSUME NameInv, NEW t \in Tabs, ServerStep(t)
    PROVE  /\ OnlyRequest(t) /\ UNCHANGED <<jar, page>>
           /\ RequestOfSession(req[t])'
           /\ \A k \in Nat \ {0} : \A u :
                RequestNames(req[t], k, u)'
                  => \/ Names(k, u)
                     \/ LogsIn(t) /\ k = tokens + 1 /\ u = req[t].user
<1>1. /\ TypeInv /\ TypeOK /\ RequestOfSession(req[t])
  BY DEF NameInv, TypeInv
<1>2. /\ OnlyRequest(t)
      /\ req'[t].kind = req[t].kind /\ req'[t].cookies = req[t].cookies
      /\ req'[t].csrf = req[t].csrf /\ req'[t].from = req[t].from
  BY <1>1, RequestStays
<1>3. UNCHANGED <<jar, page>>
  BY <1>1, ServerMoves
<1>4. \A k, u : RequestNames(req[t], k, u) => Names(k, u)
  BY DEF Names
<1>5. ASSUME NEW a \in Answer, Respond(t, a), a.session # "set",
             PageOfSession(req[t], a.page),
             req[t].pc = "checked" => \/ req[t].kind \in {"decide", "logout"}
                                      \/ a.page.kind # "inside"
      PROVE  /\ RequestOfSession(req[t])'
             /\ \A k, u : RequestNames(req[t], k, u)' => Names(k, u)
  <2>1. req'[t].pc = "answered" /\ req'[t].answer = a
    BY <1>1, <1>5, RespondMeans
  <2>2. FormsAreInside(a.page)
    BY <1>5 DEF PageOfSession
  <2>3. RequestOfSession(req[t])'
    BY <1>1, <1>2, <2>1, <2>2 DEF RequestOfSession, FormsAreInside
  <2>4. ASSUME NEW k, NEW u, PageNames(a.page, k, u)
        PROVE  CookieNames(req[t].cookies.session, k, u)
    BY <1>1, <1>5, <2>4
    DEF PageOfSession, RequestOfSession, PageNames, CookieNames
  <2>5. ASSUME NEW k, NEW u, RequestNames(req[t], k, u)' PROVE Names(k, u)
    <3>1. RequestNames(req[t], k, u)
      BY <1>2, <1>5, <2>1, <2>4, <2>5 DEF RequestNames, CookieNames, PageNames
    <3> QED
      BY <1>4, <3>1
  <2> QED
    BY <2>3, <2>5
<1>6. CASE Answers(t)
  <2>1. PICK a \in Answer :
          /\ Respond(t, a) /\ a.session = "keep"
          /\ req[t].pc = "checked" => \/ req[t].kind \in {"decide", "logout"}
                                      \/ a.page.kind # "inside"
          /\ PageOfSession(req[t], a.page)
    BY <1>6 DEF Answers
  <2> QED
    BY <1>2, <1>3, <1>5, <2>1
<1>7. CASE LogsOut(t)
  <2>1. /\ LoggedOut \in Answer /\ Respond(t, LoggedOut) /\ LoggedOut.session # "set"
        /\ LoggedOut.page = Bare /\ req[t].kind = "logout"
    BY <1>7, LoggedOutType DEF LogsOut
  <2>2. PageOfSession(req[t], LoggedOut.page)
    BY <2>1, BlankTypes DEF PageOfSession, FormsAreInside
  <2> QED
    BY <1>2, <1>3, <1>5, <2>1, <2>2
<1>8. CASE LogsIn(t)
  <2> DEFINE u0 == req[t].user
  <2>1. /\ req[t].kind = "login" /\ u0 \in Users /\ tokens' = tokens + 1
        /\ Respond(t, LoggedIn(u0, tokens', now + Ttl))
    BY <1>8 DEF LogsIn
  <2>2. PICK k0 \in Nat, e \in Nat : k0 = tokens + 1 /\ k0 = tokens' /\ e = now + Ttl
    <3>1. tokens' = tokens + 1
      BY <2>1
    <3> QED
      BY <1>1, <3>1, Numbers
  <2> HIDE DEF u0
  <2>3. /\ LoggedIn(u0, k0, e) \in Answer /\ LoggedIn(u0, k0, e).page = Bare
        /\ LoggedIn(u0, k0, e).csrf = k0 /\ LoggedIn(u0, k0, e).user = u0
        /\ LoggedIn(u0, k0, e).session = "set"
    <3>1. u0 \in Users
      BY <2>1
    <3> QED
      BY <3>1, LoggedInType
  <2>4. Respond(t, LoggedIn(u0, k0, e))
    BY <2>1, <2>2
  <2>5. req'[t].pc = "answered" /\ req'[t].answer = LoggedIn(u0, k0, e)
    BY <1>1, <2>3, <2>4, RespondMeans
  <2>6. RequestOfSession(req[t])'
    BY <1>1, <1>2, <2>3, <2>5, NoRequestFrom DEF RequestOfSession, FormsAreInside
  <2>7. ASSUME NEW k \in Nat \ {0}, NEW u, RequestNames(req[t], k, u)', ~Names(k, u)
        PROVE  k = tokens + 1 /\ u = req[t].user
    <3>1. ~RequestNames(req[t], k, u) /\ ~PageNames(Bare, k, u)
      BY <1>4, <2>7, NothingNames
    <3>2. k = k0 /\ u = u0
      BY <1>2, <2>3, <2>5, <2>7, <3>1 DEF RequestNames, CookieNames, PageNames
    <3> QED
      BY <2>2, <3>2 DEF u0
  <2> QED
    BY <1>2, <1>3, <1>8, <2>6, <2>7
<1>9. ASSUME req'[t].answer = req[t].answer
      PROVE  \A k, u : RequestNames(req[t], k, u)' => Names(k, u)
  BY <1>2, <1>4, <1>9 DEF RequestNames, CookieNames, PageNames
<1>10. CASE PassesLogin(t)
  <2>1. req'[t].answer = req[t].answer /\ req[t].kind = "login"
    BY <1>1, <1>10, ConfiguredMeans DEF PassesLogin
  <2>2. RequestOfSession(req[t])'
    BY <1>1, <1>2, <2>1 DEF RequestOfSession, FormsAreInside
  <2> QED
    BY <1>2, <1>3, <1>9, <2>1, <2>2
<1>11. CASE PassesSession(t)
  <2> DEFINE user == Operator(req[t].cookies.session)
  <2>1. user \in Users /\ Passes(t, user, now) /\ user # Nobody
    BY <1>11, Constants DEF PassesSession
  <2>2. user = req[t].cookies.session.user
    BY <1>1, <2>1, OperatorIs
  <2> HIDE DEF user
  <2>3. req'[t].answer = req[t].answer /\ req'[t].user = user
    BY <1>1, <2>1, PassesMeans, Numbers
  <2>4. RequestOfSession(req[t])'
    BY <1>1, <1>2, <2>2, <2>3 DEF RequestOfSession, FormsAreInside
  <2> QED
    BY <1>2, <1>3, <1>9, <2>3, <2>4
<1> QED
  BY <1>1, <1>6, <1>7, <1>8, <1>10, <1>11, ServerMoves

(* A step of a tab names no token anew, but for the fresh token of a login. *)
LEMMA NamesStay ==
    ASSUME NameInv, NEW t \in Tabs, BrowserStep(t) \/ ServerStep(t),
           NEW k \in Nat \ {0}, NEW u, Names(k, u)'
    PROVE  \/ Names(k, u)
           \/ LogsIn(t) /\ k = tokens + 1 /\ u = req[t].user
<1>1. CASE Sends(t) \/ ServerStep(t)
  <2>1. OnlyRequest(t) /\ UNCHANGED <<jar, page>>
    BY <1>1, SentNames, ServedNames
  <2>2. RequestNames(req[t], k, u)' =>
          Names(k, u) \/ (LogsIn(t) /\ k = tokens + 1 /\ u = req[t].user)
    BY <1>1, SentNames, ServedNames
  <2>3. CookieNames(jar.session, k, u)' \/ PageNames(page[t], k, u)' => Names(k, u)
    BY <2>1 DEF CookieNames, PageNames, Names
  <2> QED
    BY <2>1, <2>2, <2>3, NamedByTheTab
<1>2. CASE Receive(t)
  BY <1>2, ReceivedNames, NamedByTheTab
<1> QED
  BY <1>1, <1>2 DEF BrowserStep, Sends

LEMMA StepOneName ==
    ASSUME NameInv, NEW t \in Tabs, BrowserStep(t) \/ ServerStep(t)
    PROVE  OneName'
<1> SUFFICES ASSUME NEW k \in Nat \ {0}, NEW u \in Users \cup {Nobody},
                    NEW v \in Users \cup {Nobody}, Names(k, u)', Names(k, v)'
             PROVE  u = v
  BY DEF OneName, Names
<1>1. Names(k, u) \/ (k = tokens + 1 /\ u = req[t].user)
  BY NamesStay
<1>2. Names(k, v) \/ (k = tokens + 1 /\ v = req[t].user)
  BY NamesStay
<1>3. CASE Names(k, u) /\ Names(k, v)
  BY <1>3 DEF NameInv, OneName
<1>4. ASSUME NEW w, Names(k, w) PROVE k # tokens + 1
  <2>1. k <= tokens /\ tokens \in Nat
    BY <1>4, NamedExists, Numbers DEF NameInv
  <2> QED
    BY <2>1
<1> QED
  BY <1>1, <1>2, <1>3, <1>4

LEMMA PagesOfSession ==
    ASSUME NameInv, NEW t \in Tabs, BrowserStep(t) \/ ServerStep(t), NEW w \in Tabs
    PROVE  FormsAreInside(page[w])' /\ RequestOfSession(req[w])'
<1>1. FormsAreInside(page[w]) /\ RequestOfSession(req[w])
  BY DEF NameInv
<1>2. /\ OnlyRequest(t) /\ RequestOfSession(req[t])'
      /\ \A x \in Tabs : x # t => page'[x] = page[x]
      /\ FormsAreInside(page[t])' \/ UNCHANGED page
  <2>1. CASE Sends(t)
    BY <2>1, SentNames
  <2>2. CASE Receive(t)
    BY <2>2, ReceivedNames
  <2>3. CASE ServerStep(t)
    BY <2>3, ServedNames
  <2> QED
    BY <2>1, <2>2, <2>3 DEF BrowserStep, Sends
<1>3. CASE w = t
  BY <1>1, <1>2, <1>3 DEF FormsAreInside
<1>4. CASE w # t
  BY <1>1, <1>2, <1>4 DEF OnlyRequest, FormsAreInside, RequestOfSession
<1> QED
  BY <1>3, <1>4

(* An accepted form was on a page of the session whose user decides.       *)
LEMMA AcceptedFormNames ==
    ASSUME NameInv, NEW t \in Tabs, Records(t)
    PROVE  req[t].user = req[t].from.user
<1> DEFINE r == req[t]
<1>1. /\ r \in Request /\ RequestOfSession(r) /\ r.kind = "decide"
      /\ r.pc = "checked" /\ FormAccepted(r)
  BY DEF NameInv, TypeInv, TypeOK, Records
<1>2. /\ r.from \in Page /\ r.cookies.session \in SessionCookie
  BY <1>1 DEF Request
<1>3. /\ r.user = r.cookies.session.user /\ r.from.kind = "inside"
      /\ r.from.csrf = r.cookies.session.csrf /\ r.from.csrf # 0
  BY <1>1 DEF RequestOfSession, FormsAreInside, FormAccepted
<1>4. PICK k, u, v : /\ k = r.from.csrf
                     /\ u = r.cookies.session.user /\ v = r.from.user
  OBVIOUS
<1>5. Names(k, u) /\ Names(k, v)
  BY <1>3, <1>4 DEF Names, RequestNames, CookieNames, PageNames
<1>6. /\ k \in Nat \ {0} /\ u \in Users \cup {Nobody} /\ v \in Users \cup {Nobody}
  BY <1>2, <1>3, <1>4 DEF Page, SessionCookie
<1>7. u = v
  BY <1>5, <1>6 DEF NameInv, OneName
<1> QED
  BY <1>3, <1>4, <1>7

LEMMA StepName == NameInv /\ [Next]_vars => NameInv'
<1> SUFFICES ASSUME NameInv, [Next]_vars PROVE NameInv'
  OBVIOUS
<1>1. TypeInv' /\ TypeInv /\ record \in Seq(Entry)
  BY StepType DEF NameInv, TypeInv, TypeOK
<1>2. OneName' /\ \A t \in Tabs : FormsAreInside(page[t])' /\ RequestOfSession(req[t])'
  <2>1. CASE UNCHANGED <<jar, page, req>>
    <3>1. \A k, u : Names(k, u)' => Names(k, u)
      BY <2>1 DEF Names, RequestNames, PageNames, CookieNames
    <3>2. OneName'
      BY <3>1 DEF NameInv, OneName, Names
    <3> QED
      BY <2>1, <3>2 DEF NameInv, FormsAreInside, RequestOfSession
  <2> QED
    BY <2>1, StepOneName, PagesOfSession
    DEF Next, GateReopens, Tick, Configure, vars, browser
<1>3. ActorSawTheCase'
  <2> DEFINE Good == {e \in Entry : e.actor = e.from.user}
  <2>1. \A i \in DOMAIN record : record[i] \in Good
    <3>1. ASSUME NEW i \in DOMAIN record PROVE record[i] \in Good
      <4>1. record[i] \in Entry
        BY <1>1, ElementOfSeq, LenProperties
      <4> QED
        BY <4>1 DEF NameInv, ActorSawTheCase
    <3> QED
      BY <3>1
  <2>2. ASSUME NEW t \in Tabs, Records(t) PROVE EntryOf(req[t]) \in Good
    <3>1. req[t] \in Request /\ req[t].user \in Users
      BY <1>1, <2>2 DEF Records, TypeInv, TypeOK, UserKnown
    <3>2. EntryOf(req[t]) \in Entry
      BY <3>1, EntryOfType
    <3>3. EntryOf(req[t]).actor = req[t].user /\ EntryOf(req[t]).from = req[t].from
      BY DEF EntryOf
    <3> QED
      BY <2>2, <3>2, <3>3, AcceptedFormNames
  <2>3. \A i \in DOMAIN record' : record'[i] \in Good
    <3> HIDE DEF Good
    <3> QED
      BY <1>1, <2>1, <2>2, RecordKeeps
  <2> QED
    BY <2>3 DEF ActorSawTheCase
<1> QED
  BY <1>1, <1>2, <1>3 DEF NameInv

LEMMA InitName == Init => NameInv
<1> SUFFICES ASSUME Init PROVE NameInv
  OBVIOUS
<1>1. /\ jar.session = NoSession
      /\ \A t \in Tabs : page[t] = Bare /\ req[t] = NoRequest
  BY DEF Init
<1>2. \A k \in Nat \ {0} : \A u : ~Names(k, u)
  BY <1>1, NothingNames DEF Names
<1>3. RequestOfSession(NoRequest)
  BY NoRequestFrom, NoRequestType, BlankTypes DEF RequestOfSession
<1> QED
  BY <1>1, <1>2, <1>3, InitType, NoRequestFrom
  DEF Init, NameInv, OneName, ActorSawTheCase

(* A decision is recorded in the name of the user who was named on the     *)
(* page it was taken on, whoever logs in in other tabs meanwhile.          *)
THEOREM ActorsSawTheCase == Spec => []ActorSawTheCase
<1>1. NameInv => ActorSawTheCase
  BY DEF NameInv
<1> QED
  BY <1>1, InitName, StepName, PTL DEF Spec

-----------------------------------------------------------------------------
(* The forms of a session that has ended.                                  *)

LEMMA SentAfterLogout ==
    ASSUME LogoutInv, NEW t \in Tabs, Sends(t)
    PROVE  /\ OnlyRequest(t) /\ UNCHANGED <<jar, retired>>
           /\ req'[t].cookies.session.csrf = jar.session.csrf
           /\ req'[t].answer.session # "set"
           /\ LogoutAnswered(req[t])'
           /\ req'[t].late => ~FormAccepted(req[t])'
<1>1. TypeOK /\ jar.session.csrf \notin retired
  BY DEF LogoutInv, TypeInv
<1>2. PICK r \in Request : Send(t, r) /\ r.answer = NoRequest.answer
  BY WhatIsSent
<1>3. /\ OnlyRequest(t) /\ req'[t].cookies = jar
      /\ req'[t].csrf = page[t].csrf /\ req'[t].late = (page[t].csrf \in retired)
      /\ req'[t].answer = NoRequest.answer
  BY <1>1, <1>2, SendMeans
<1>4. UNCHANGED <<jar, retired>>
  BY <1>2 DEF Send, browser, history
<1>5. NoRequest.answer.login = "keep" /\ NoRequest.answer.session = "keep"
  BY NoRequestType
<1>6. req'[t].late => ~FormAccepted(req[t])'
  BY <1>1, <1>3 DEF FormAccepted
<1> QED
  BY <1>3, <1>4, <1>5, <1>6 DEF LogoutAnswered

(* Nothing new is delivered, and nothing but a login sets anything anew.   *)
LEMMA ServedAfterLogout ==
    ASSUME LogoutInv, NEW t \in Tabs, ServerStep(t)
    PROVE  /\ OnlyRequest(t) /\ UNCHANGED <<jar, retired>>
           /\ req'[t].cookies = req[t].cookies
           /\ LogoutAnswered(req[t])'
           /\ req'[t].late => ~FormAccepted(req[t])'
           /\ \A k : Setting(req[t], k)' =>
                       Setting(req[t], k) \/ (LogsIn(t) /\ k = tokens + 1)
<1>1. TypeInv /\ TypeOK /\ LogoutAnswered(req[t])
      /\ (req[t].late => ~FormAccepted(req[t]))
  BY DEF LogoutInv, TypeInv
<1>2. /\ OnlyRequest(t)
      /\ req'[t].kind = req[t].kind /\ req'[t].cookies = req[t].cookies
      /\ req'[t].csrf = req[t].csrf /\ req'[t].late = req[t].late
  BY <1>1, RequestStays
<1>3. UNCHANGED <<jar, retired>>
  BY <1>1, ServerMoves
<1>4. req'[t].late => ~FormAccepted(req[t])'
  BY <1>1, <1>2 DEF FormAccepted
<1>5. CASE Answers(t)
  <2>1. PICK a \in Answer :
          Respond(t, a) /\ a.session = "keep" /\ a.login # "clear"
    BY <1>5 DEF Answers
  <2>2. req'[t].answer = a
    BY <1>1, <2>1, RespondMeans
  <2> QED
    BY <1>2, <1>3, <1>4, <2>1, <2>2 DEF LogoutAnswered, Setting
<1>6. CASE LogsOut(t)
  <2>1. req'[t].answer = LoggedOut /\ FormAccepted(req[t])
    BY <1>1, <1>6, RespondMeans, LoggedOutType DEF LogsOut
  <2>2. FormAccepted(req[t])'
    BY <1>2, <2>1 DEF FormAccepted
  <2> QED
    BY <1>2, <1>3, <1>4, <2>1, <2>2, LoggedOutType DEF LogoutAnswered, Setting
<1>7. CASE LogsIn(t)
  <2>1. /\ req[t].kind = "login" /\ req[t].user \in Users /\ tokens' = tokens + 1
        /\ Respond(t, LoggedIn(req[t].user, tokens', now + Ttl))
    BY <1>7 DEF LogsIn
  <2>2. PICK k0 \in Nat, e \in Nat : k0 = tokens + 1 /\ k0 = tokens' /\ e = now + Ttl
    <3>1. tokens' = tokens + 1
      BY <2>1
    <3> QED
      BY <1>1, <3>1, Numbers
  <2>3. PICK u \in Users : u = req[t].user
    BY <2>1
  <2>4. LoggedIn(u, k0, e) \in Answer /\ LoggedIn(u, k0, e).csrf = k0
    BY LoggedInType
  <2>5. Respond(t, LoggedIn(u, k0, e))
    BY <2>1, <2>2, <2>3
  <2>6. req'[t].answer.csrf = k0
    BY <1>1, <2>4, <2>5, RespondMeans
  <2>7. \A k : Setting(req[t], k)' => k = tokens + 1
    BY <2>2, <2>6 DEF Setting
  <2>8. LogoutAnswered(req[t])'
    BY <1>2, <2>1 DEF LogoutAnswered
  <2> QED
    BY <1>2, <1>3, <1>4, <1>7, <2>7, <2>8
<1>8. ASSUME req'[t].answer = req[t].answer
      PROVE  /\ LogoutAnswered(req[t])'
             /\ \A k : Setting(req[t], k)' => Setting(req[t], k)
  BY <1>1, <1>2, <1>8 DEF LogoutAnswered, Setting, FormAccepted
<1>9. CASE PassesLogin(t)
  <2>1. req'[t].answer = req[t].answer
    BY <1>1, <1>9, ConfiguredMeans DEF PassesLogin
  <2> QED
    BY <1>2, <1>3, <1>4, <1>8, <2>1
<1>10. CASE PassesSession(t)
  <2>1. PICK u \in Users, n \in Nat : Passes(t, u, n)
    BY <1>1, <1>10, Numbers DEF PassesSession
  <2>2. req'[t].answer = req[t].answer
    BY <1>1, <2>1, PassesMeans
  <2> QED
    BY <1>2, <1>3, <1>4, <1>8, <2>2
<1> QED
  BY <1>1, <1>5, <1>6, <1>7, <1>9, <1>10, ServerMoves

(* A token that is carried or set was generated.                           *)
LEMMA CarriedExists ==
    ASSUME LogoutInv, NEW k \in Nat \ {0},
           Delivered(k) \/ \E t \in Tabs : Setting(req[t], k)
    PROVE  k <= tokens /\ k # tokens + 1
<1>1. TypeInv /\ tokens \in Nat
  BY Numbers DEF LogoutInv
<1>2. CASE k \in retired
  BY <1>1, <1>2 DEF LogoutInv
<1>3. CASE jar.session.csrf = k
  BY <1>1, <1>3 DEF TypeInv, TokensExist
<1>4. ASSUME NEW t \in Tabs, req[t].cookies.session.csrf = k \/ Setting(req[t], k)
      PROVE  k <= tokens
  BY <1>1, <1>4 DEF TypeInv, TokensExist, TokensOfRequest, Setting
<1>5. k <= tokens
  BY <1>2, <1>3, <1>4 DEF Delivered
<1> QED
  BY <1>1, <1>5

(* The cookie of an answer arrives, and the token of a logout retires.     *)
LEMMA ReceivedAfterLogout ==
    ASSUME LogoutInv, NEW t \in Tabs, Receive(t)
    PROVE  /\ OnlyRequest(t) /\ req'[t] = NoRequest
           /\ \A k \in Nat \ {0} :
                Delivered(k)' => Delivered(k) \/ Setting(req[t], k)
           /\ \A k \in retired' : k <= tokens
           /\ jar'.session.csrf \notin retired'
<1> DEFINE a == req[t].answer
           ends == req[t].kind = "logout" /\ a.login = "clear"
<1>1. /\ TypeInv /\ TypeInv' /\ LogoutAnswered(req[t])
      /\ req[t] \in Request /\ TokensOfRequest(req[t])
  BY ReceiveType DEF LogoutInv, TypeInv, TypeOK, TokensExist
<1>2. a \in Answer
  BY <1>1 DEF Request
<1>3. a.session \in {"keep", "clear", "set"} /\ a.csrf \in Nat
  BY <1>2 DEF Answer
<1>4. /\ OnlyRequest(t) /\ req'[t] = NoRequest /\ jar'.session = SessionAfter(a)
  BY <1>1, ReceiveMeans
<1>5. retired' = IF ends THEN retired \cup {req[t].csrf} ELSE retired
  BY DEF Receive
<1>6. ends => a.session = "clear" /\ req[t].csrf = req[t].cookies.session.csrf
  BY <1>1 DEF LogoutAnswered, FormAccepted
<1>7. jar'.session.csrf \in {jar.session.csrf, 0, a.csrf}
      /\ (a.session = "keep" => jar'.session.csrf = jar.session.csrf)
      /\ (a.session = "clear" => jar'.session.csrf = 0)
      /\ (a.session = "set" => jar'.session.csrf = a.csrf)
  <2>1. CASE a.session = "keep"
    BY <1>4, <2>1 DEF SessionAfter
  <2>2. CASE a.session = "clear"
    BY <1>4, <2>2, BlankTypes DEF SessionAfter
  <2>3. CASE a.session = "set"
    <3>1. jar'.session = [user |-> a.user, exp |-> a.exp, csrf |-> a.csrf]
      BY <1>4, <2>3 DEF SessionAfter
    <3> QED
      BY <2>3, <3>1
  <2> QED
    BY <1>3, <2>1, <2>2, <2>3
<1> HIDE DEF a, ends
<1>8. 0 \notin retired' /\ 0 \notin retired
  BY <1>1 DEF TypeInv, TypeOK
<1>9. ASSUME NEW k \in Nat \ {0}, Delivered(k)'
      PROVE  Delivered(k) \/ Setting(req[t], k)
  <2>1. CASE jar'.session.csrf = k
    BY <1>3, <1>7, <2>1 DEF Delivered, Setting, a
  <2>2. CASE k \in retired'
    BY <1>5, <1>6, <2>2 DEF Delivered
  <2>3. ASSUME NEW w \in Tabs, req'[w].cookies.session.csrf = k
        PROVE  Delivered(k)
    <3>1. w # t
      BY <1>4, <2>3, NoRequestType
    <3> QED
      BY <1>4, <2>3, <3>1 DEF OnlyRequest, Delivered
  <2> QED
    BY <1>9, <2>1, <2>2, <2>3 DEF Delivered
<1>10. ASSUME NEW k \in retired' PROVE k <= tokens
  BY <1>1, <1>5 DEF TokensOfRequest, LogoutInv
<1>11. jar'.session.csrf \notin retired'
  <2>1. CASE a.session = "keep"
    BY <1>5, <1>6, <1>7, <2>1 DEF LogoutInv
  <2>2. CASE a.session = "clear"
    BY <1>7, <1>8, <2>2
  <2>3. CASE a.session = "set"
    <3>1. retired' = retired /\ jar'.session.csrf = a.csrf
      BY <1>5, <1>6, <1>7, <2>3
    <3>2. CASE a.csrf = 0
      BY <1>8, <3>1, <3>2
    <3>3. CASE a.csrf # 0
      <4>1. Setting(req[t], a.csrf) /\ a.csrf \in Nat \ {0}
        BY <1>3, <2>3, <3>3 DEF Setting, a
      <4>2. ~Delivered(a.csrf)
        BY <4>1 DEF LogoutInv, SetOnce
      <4> QED
        BY <3>1, <4>2 DEF Delivered
    <3> QED
      BY <3>2, <3>3
  <2> QED
    BY <1>3, <2>1, <2>2, <2>3
<1> QED
  BY <1>4, <1>9, <1>10, <1>11

LEMMA StepSetOnce ==
    ASSUME LogoutInv, NEW t \in Tabs, BrowserStep(t) \/ ServerStep(t)
    PROVE  SetOnce'
<1> SUFFICES ASSUME NEW w \in Tabs, NEW k \in Nat \ {0}, Setting(req[w], k)'
             PROVE  ~Delivered(k)' /\ \A u \in Tabs : u # w => ~Setting(req[u], k)'
  BY DEF SetOnce, Delivered, Setting
<1>1. \A u \in Tabs : Setting(req[u], k) =>
        ~Delivered(k) /\ \A v \in Tabs : v # u => ~Setting(req[v], k)
  BY DEF LogoutInv, SetOnce
<1>2. CASE Receive(t)
  <2>1. OnlyRequest(t) /\ req'[t] = NoRequest
        /\ (Delivered(k)' => Delivered(k) \/ Setting(req[t], k))
    BY <1>2, ReceivedAfterLogout
  <2>2. ~Setting(req[t], k)'
    BY <2>1, NoRequestType DEF Setting
  <2>3. \A u \in Tabs : Setting(req[u], k)' => u # t /\ Setting(req[u], k)
    BY <2>1, <2>2 DEF OnlyRequest, Setting
  <2> QED
    BY <1>1, <2>1, <2>3
<1>3. CASE Sends(t) \/ ServerStep(t)
  <2>1. /\ OnlyRequest(t) /\ UNCHANGED <<jar, retired>>
        /\ \/ req'[t].cookies.session.csrf = jar.session.csrf
           \/ req'[t].cookies = req[t].cookies
        /\ Setting(req[t], k)' => Setting(req[t], k) \/ k = tokens + 1
    BY <1>3, SentAfterLogout, ServedAfterLogout DEF Setting
  <2>2. Delivered(k)' => Delivered(k)
    BY <2>1 DEF Delivered, OnlyRequest
  <2>3. \A u \in Tabs : Setting(req[u], k)' =>
          Setting(req[u], k) \/ (u = t /\ k = tokens + 1)
    BY <2>1 DEF OnlyRequest, Setting
  <2>4. CASE k = tokens + 1
    <3>1. ~Delivered(k) /\ \A u \in Tabs : ~Setting(req[u], k)
      BY <2>4, CarriedExists
    <3> QED
      BY <2>2, <2>3, <3>1
  <2>5. CASE k # tokens + 1
    BY <1>1, <2>2, <2>3, <2>5
  <2> QED
    BY <2>4, <2>5
<1> QED
  BY <1>2, <1>3 DEF BrowserStep, Sends

LEMMA StepOfTabAfterLogout ==
    ASSUME LogoutInv, NEW t \in Tabs, BrowserStep(t) \/ ServerStep(t)
    PROVE  /\ SetOnce' /\ \A k \in retired' : k <= tokens
           /\ jar'.session.csrf \notin retired'
           /\ \A w \in Tabs : /\ LogoutAnswered(req[w])'
                              /\ req'[w].late => ~FormAccepted(req[w])'
<1>1. SetOnce'
  BY StepSetOnce
<1>2. \A k \in retired' : k <= tokens
  BY SentAfterLogout, ServedAfterLogout, ReceivedAfterLogout
  DEF BrowserStep, Sends, LogoutInv
<1>3. jar'.session.csrf \notin retired'
  BY SentAfterLogout, ServedAfterLogout, ReceivedAfterLogout
  DEF BrowserStep, Sends, LogoutInv
<1>4. /\ OnlyRequest(t) /\ LogoutAnswered(req[t])'
      /\ req'[t].late => ~FormAccepted(req[t])'
  <2>1. CASE Receive(t)
    <3>1. OnlyRequest(t) /\ req'[t] = NoRequest
      BY <2>1, ReceivedAfterLogout
    <3>2. NoRequest.kind = "case page" /\ NoRequest.csrf = 0
      BY NoRequestType
    <3> QED
      BY <3>1, <3>2 DEF LogoutAnswered, FormAccepted
  <2> QED
    BY <2>1, SentAfterLogout, ServedAfterLogout DEF BrowserStep, Sends
<1>5. ASSUME NEW w \in Tabs, w # t
      PROVE  LogoutAnswered(req[w])' /\ (req'[w].late => ~FormAccepted(req[w])')
  <2>1. req'[w] = req[w]
    BY <1>4, <1>5 DEF OnlyRequest
  <2> QED
    BY <2>1 DEF LogoutInv, LogoutAnswered, FormAccepted
<1> QED
  BY <1>1, <1>2, <1>3, <1>4, <1>5

LEMMA TokensNeverShrink ==
    ASSUME TypeInv, [Next]_vars
    PROVE  tokens \in Nat /\ tokens' \in {tokens, tokens + 1}
<1>1. tokens \in Nat
  BY Numbers
<1>2. ASSUME NEW t \in Tabs, BrowserStep(t) \/ ServerStep(t)
      PROVE  tokens' \in {tokens, tokens + 1}
  <2>1. CASE Sends(t)
    BY <2>1, WhatIsSent DEF Send
  <2>2. CASE OperatorLoginPage(t) \/ OperatorLogin(t)
    BY <2>2 DEF OperatorLoginPage, OperatorLogin, RenderLogin
  <2> QED
    BY <1>2, <2>1, <2>2, StepsOfATab
    DEF Receive, CheckConfigured, OperatorCasePage, CheckSession,
        OperatorLogout, HandleOperatorDecision
<1> QED
  BY <1>1, <1>2 DEF Next, GateReopens, Tick, Configure, vars

LEMMA StepLogout == LogoutInv /\ [Next]_vars => LogoutInv'
<1> SUFFICES ASSUME LogoutInv, [Next]_vars PROVE LogoutInv'
  OBVIOUS
<1>1. TypeInv' /\ TypeInv /\ record \in Seq(Entry) /\ retired \subseteq 1 .. MaxTokens
  BY StepType DEF LogoutInv, TypeInv, TypeOK
<1>2. /\ SetOnce' /\ \A k \in retired' : k <= tokens
      /\ jar'.session.csrf \notin retired'
      /\ \A w \in Tabs : /\ LogoutAnswered(req[w])'
                         /\ req'[w].late => ~FormAccepted(req[w])'
  <2>1. CASE UNCHANGED <<jar, req, retired>>
    BY <2>1 DEF LogoutInv, SetOnce, Delivered, Setting, LogoutAnswered, FormAccepted
  <2> QED
    BY <2>1, StepOfTabAfterLogout
    DEF Next, GateReopens, Tick, Configure, vars, browser, history
<1>3. \A k \in retired' : k <= tokens'
  <2>1. tokens \in Nat /\ tokens' \in {tokens, tokens + 1}
    BY <1>1, TokensNeverShrink
  <2>2. retired' \subseteq Nat
    BY <1>1, BoundsAssumption DEF TypeInv, TypeOK
  <2> QED
    BY <1>2, <2>1, <2>2
<1>4. LoggedOutFormsAreDead'
  <2> DEFINE Good == {e \in Entry : ~e.late}
  <2>1. \A i \in DOMAIN record : record[i] \in Good
    <3>1. ASSUME NEW i \in DOMAIN record PROVE record[i] \in Good
      <4>1. record[i] \in Entry
        BY <1>1, ElementOfSeq, LenProperties
      <4> QED
        BY <4>1 DEF LogoutInv, LoggedOutFormsAreDead
    <3> QED
      BY <3>1
  <2>2. ASSUME NEW t \in Tabs, Records(t) PROVE EntryOf(req[t]) \in Good
    <3>1. req[t] \in Request /\ req[t].user \in Users /\ FormAccepted(req[t])
      BY <1>1, <2>2 DEF Records, TypeInv, TypeOK, UserKnown
    <3>2. ~req[t].late
      BY <3>1 DEF LogoutInv
    <3>3. EntryOf(req[t]) \in Entry /\ EntryOf(req[t]).late = req[t].late
      BY <3>1, EntryOfType DEF EntryOf
    <3> QED
      BY <3>2, <3>3
  <2>3. \A i \in DOMAIN record' : record'[i] \in Good
    <3> HIDE DEF Good
    <3> QED
      BY <1>1, <2>1, <2>2, RecordKeeps
  <2> QED
    BY <2>3 DEF LoggedOutFormsAreDead
<1> QED
  BY <1>1, <1>2, <1>3, <1>4 DEF LogoutInv

LEMMA InitLogout == Init => LogoutInv
<1> SUFFICES ASSUME Init PROVE LogoutInv
  OBVIOUS
<1>1. \A t \in Tabs : req[t] = NoRequest
  BY DEF Init
<1>2. /\ NoRequest.kind = "case page" /\ NoRequest.answer.session = "keep"
      /\ NoRequest.csrf = 0
  BY NoRequestType
<1>3. SetOnce
  BY <1>1, <1>2 DEF SetOnce, Setting
<1>4. ASSUME NEW t \in Tabs
      PROVE  LogoutAnswered(req[t]) /\ ~FormAccepted(req[t])
  BY <1>1, <1>2 DEF LogoutAnswered, FormAccepted
<1>5. retired = {} /\ LoggedOutFormsAreDead
  BY DEF Init, LoggedOutFormsAreDead
<1> QED
  BY <1>3, <1>4, <1>5, InitType DEF LogoutInv

(* Once the answer to a logout has arrived, no form of that session that   *)
(* is still open in a tab decides anything, whoever logs in next.          *)
THEOREM FormsDieWithTheSession == Spec => []LoggedOutFormsAreDead
<1>1. LogoutInv => LoggedOutFormsAreDead
  BY DEF LogoutInv
<1> QED
  BY <1>1, InitLogout, StepLogout, PTL DEF Spec
=============================================================================
