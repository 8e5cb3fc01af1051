------------------------------ MODULE Sessions ------------------------------
(***************************************************************************)
(* Refresh sessions, from the tabs of one browser to the rows of the       *)
(* server.  The tabs share the refresh cookie and keep an access token     *)
(* each; a call that comes back 401 waits for one refresh of its tab, and  *)
(* is replayed.  The server reads the session of a refresh token, then     *)
(* rotates that session by its id.  Responses can be lost, tabs reload in  *)
(* the middle of a refresh, and a user logs out while one is under way.    *)
(***************************************************************************)
EXTENDS Naturals

CONSTANTS
    Tabs, Calls,   \* tabs, and the API calls they can have open
    TabOf,         \* the tab of a call
    Refreshes,      \* refresh requests under way at a time
    Rows,          \* sessions: one to start with, one per log in
    MaxCuts,       \* bound: lost messages and reloads of a tab by the user
    First,         \* the session the browser starts with
    NoToken, Spent \* no refresh token, and one that is no longer stored

ASSUME SessionsAssumption ==
    /\ First \in Rows /\ MaxCuts \in Nat /\ TabOf \in [Calls -> Tabs]
    /\ NoToken \notin Rows /\ Spent \notin Rows

\* A refresh token is named by the session it opens, as long as that session
\* stores it; a rotation turns every copy of the old token into a Spent one.
Token == Rows \cup {NoToken, Spent}

Free == [phase |-> "free"]
RefreshState ==
    {Free} \cup [phase : {"sent"}, tab : Tabs, token : Token]
           \cup [phase : {"read"}, tab : Tabs, token : Token, row : Rows]
           \cup [phase : {"answered"}, tab : Tabs, token : Token]
           \cup [phase : {"refused"}, tab : Tabs]
CallState == [st : {"idle", "sent", "queued"}, good : BOOLEAN, retried : BOOLEAN]
Quiet == [st |-> "idle", good |-> FALSE, retried |-> FALSE]

VARIABLES
    row,        \* UserSession: "none" before it is created, "live", "ended" once it
                \* is revoked or expired
    cookie,     \* the refresh token the browser holds
    page,       \* of a tab: "loading" (loadMe), "app" or "login"
    access,     \* it has an access token that is not out of date
    refreshing, \* its interceptor is refreshing (isRefreshing)
    call,       \* its API calls
    request,    \* refresh requests on the network or at the server
    orphan,     \* requests whose tab is gone from the page that sent them
    cuts,
    disturbed   \* history: a refresh met a loss, a reload, another tab's
                \* refresh, or the end of the session

server == <<row, cookie>>
client == <<page, access, refreshing, call>>
history == <<cuts, disturbed>>
sessionVars == <<server, client, request, orphan, history>>

SessionsInit ==
    /\ row = [s \in Rows |-> IF s = First THEN "live" ELSE "none"]
    /\ cookie = First
    /\ page = [t \in Tabs |-> "loading"] /\ access = [t \in Tabs |-> FALSE]
    /\ refreshing = [t \in Tabs |-> FALSE]
    /\ call = [c \in Calls |-> Quiet]
    /\ request = [r \in Refreshes |-> Free] /\ orphan = {}
    /\ cuts = 0 /\ disturbed = FALSE

-----------------------------------------------------------------------------
Busy(r) == request[r].phase # "free"
Of(t) == {r \in Refreshes \ orphan : Busy(r) /\ request[r].tab = t}

\* Another page's refresh is under way, which may hold the same token.
Meets(t) == \E r \in Refreshes : /\ Busy(r) /\ (r \in orphan \/ request[r].tab # t)
                                /\ request[r].phase # "refused"
Send(r, t) ==
    /\ ~Busy(r)
    /\ request' = [request EXCEPT ![r] = [phase |-> "sent", tab |-> t, token |-> cookie]]

\* A new page: the memory of the tab is gone, and with it whoever waits.
NewPage(t) ==
    /\ page' = [page EXCEPT ![t] = "loading"]
    /\ access' = [access EXCEPT ![t] = FALSE]
    /\ refreshing' = [refreshing EXCEPT ![t] = FALSE]
    /\ call' = [c \in Calls |-> IF TabOf[c] = t THEN Quiet ELSE call[c]]

\* redirectToLogin: a new page, unless the tab shows the log-in page; there
\* the calls of C fail and the rest goes on.
ToLogin(t, C, ends) ==
    IF page[t] # "login" THEN NewPage(t) ELSE
        /\ access' = [access EXCEPT ![t] = FALSE]
        /\ refreshing' = [refreshing EXCEPT ![t] = @ /\ ~ends]
        /\ call' = [c \in Calls |-> IF c \in C THEN Quiet ELSE call[c]]
        /\ UNCHANGED page
Leaves(t) == IF page[t] = "login" THEN {} ELSE Of(t)

\* AuthContext.loadMe on a page that has no access token.
Load(t, r) ==
    /\ page[t] = "loading" /\ Of(t) = {} /\ Send(r, t)
    /\ disturbed' = (disturbed \/ Meets(t))
    /\ UNCHANGED <<server, client, orphan, cuts>>

\* A page calls the API; the server takes the token as long as it is valid.
Call(c) == LET t == TabOf[c] IN
    /\ page[t] = "app" /\ call[c].st = "idle"
    /\ call' = [call EXCEPT ![c] =
            [st |-> "sent", good |-> access[t], retried |-> FALSE]]
    /\ UNCHANGED <<server, page, access, refreshing, request, orphan, history>>

\* createRequireAuth lets it pass: the call is over, whatever it answers.
Served(c) ==
    /\ call[c].st = "sent" /\ call[c].good
    /\ call' = [call EXCEPT ![c] = Quiet]
    /\ UNCHANGED <<server, page, access, refreshing, request, orphan, history>>

Rejected(c) == call[c].st = "sent" /\ ~call[c].good

\* A second 401 of a call: clear the token and go to the log-in page.
BugGivesUp(c) == FALSE
GivesUp(c) == call[c].retried
GiveUp(c) == LET t == TabOf[c] IN
    /\ Rejected(c) /\ GivesUp(c)
    /\ ToLogin(t, {c}, FALSE) /\ orphan' = orphan \cup Leaves(t)
    /\ disturbed' = (disturbed \/ Leaves(t) # {})
    /\ UNCHANGED <<server, request, cuts>>

Waits(c) ==
    call' = [call EXCEPT ![c] = [st |-> "queued", good |-> FALSE, retried |-> TRUE]]

\* The first 401 of a call while the tab refreshes: wait for that refresh.
BugJoins(t) == FALSE
Joins(t) == refreshing[t]
Join(c) ==
    /\ Rejected(c) /\ ~GivesUp(c) /\ Joins(TabOf[c])
    /\ Waits(c)
    /\ UNCHANGED <<server, page, access, refreshing, request, orphan, history>>

\* Otherwise refresh, once for all the calls that will wait.
Refresh(c, r) == LET t == TabOf[c] IN
    /\ Rejected(c) /\ ~GivesUp(c) /\ ~Joins(t)
    /\ Waits(c)
    /\ refreshing' = [refreshing EXCEPT ![t] = TRUE]
    /\ Send(r, t)
    /\ disturbed' = (disturbed \/ Meets(t))
    /\ UNCHANGED <<server, page, access, orphan, cuts>>

-----------------------------------------------------------------------------
\* refreshSession: find the session by the token's hash.
Live(k) == k \in Rows /\ row[k] = "live"
ReadSession(r) == LET k == request[r].token IN
    /\ request[r].phase = "sent"
    /\ request' = [request EXCEPT ![r] =
            IF Live(k) THEN [phase |-> "read", tab |-> request[r].tab, token |-> k, row |-> k]
            ELSE [phase |-> "refused", tab |-> request[r].tab]]
    /\ UNCHANGED <<server, client, orphan, history>>

\* rotateSession: by the id it read, if that session is still live. Only the
\* response has the new token; the old one is spent wherever it is.
BugRotatable(s) == row[s] # "none"
Rotatable(s) == row[s] = "live"
Spend(s, k) == IF k = s THEN Spent ELSE k
Rotate(r) == LET s == request[r].row IN
    /\ request[r].phase = "read" /\ Rotatable(s)
    /\ row' = [row EXCEPT ![s] = "live"]
    /\ cookie' = Spend(s, cookie)
    /\ request' = [q \in Refreshes |->
            IF q = r THEN [phase |-> "answered", tab |-> request[r].tab, token |-> s]
            ELSE IF request[q].phase \in {"sent", "read", "answered"}
                 THEN [request[q] EXCEPT !.token = Spend(s, @)] ELSE request[q]]
    /\ UNCHANGED <<client, orphan, history>>

\* No row updated: an error, and for the client a refresh that failed.
RotateConflict(r) ==
    /\ request[r].phase = "read" /\ ~Rotatable(request[r].row)
    /\ request' = [request EXCEPT ![r] = [phase |-> "refused", tab |-> request[r].tab]]
    /\ UNCHANGED <<server, client, orphan, history>>

\* The response: the new cookie, the new access token, every waiting call replayed.
FlushQueue(t) ==
    [c \in Calls |-> IF TabOf[c] = t /\ call[c].st = "queued"
                     THEN [st |-> "sent", good |-> TRUE, retried |-> TRUE] ELSE call[c]]
BugStoreCookie(k) == cookie
StoreCookie(k) == k
Refreshed(r) == LET t == request[r].tab IN
    /\ request[r].phase = "answered" /\ r \notin orphan
    /\ cookie' = StoreCookie(request[r].token)
    /\ access' = [access EXCEPT ![t] = TRUE]
    /\ page' = [page EXCEPT ![t] = IF @ = "loading" THEN "app" ELSE @]
    /\ refreshing' = [refreshing EXCEPT ![t] = FALSE]
    /\ call' = FlushQueue(t)
    /\ request' = [request EXCEPT ![r] = Free]
    /\ UNCHANGED <<row, orphan, history>>

\* The refresh failed: the calls that wait fail, and the tab goes to the
\* log-in page, which loads as any page does.
Refuse(r) == LET t == request[r].tab IN
    /\ request[r].phase = "refused" /\ r \notin orphan
    /\ request' = [request EXCEPT ![r] = Free]
    /\ IF page[t] = "loading"
       THEN page' = [page EXCEPT ![t] = "login"] /\ UNCHANGED <<access, refreshing, call>>
       ELSE ToLogin(t, {c \in Calls : TabOf[c] = t /\ call[c].st = "queued"}, TRUE)
    /\ UNCHANGED <<server, orphan, history>>

\* The answer to a page that is gone: its cookie is not stored.
Drop(r) ==
    /\ r \in orphan /\ request[r].phase \in {"answered", "refused"}
    /\ request' = [request EXCEPT ![r] = Free] /\ orphan' = orphan \ {r}
    /\ UNCHANGED <<server, client, history>>

\* The network loses a request or a response: the client sees an error.
Lose(r) ==
    /\ cuts < MaxCuts /\ request[r].phase \in {"sent", "answered"} /\ r \notin orphan
    /\ request' = [request EXCEPT ![r] = [phase |-> "refused", tab |-> request[r].tab]]
    /\ cuts' = cuts + 1 /\ disturbed' = TRUE
    /\ UNCHANGED <<server, client, orphan>>

-----------------------------------------------------------------------------
\* The access token of a tab runs out, for the calls that carry it too.
Expire(t) ==
    /\ access[t]
    /\ access' = [access EXCEPT ![t] = FALSE]
    /\ call' = [c \in Calls |-> IF TabOf[c] = t THEN [call[c] EXCEPT !.good = FALSE] ELSE call[c]]
    /\ UNCHANGED <<server, page, refreshing, request, orphan, history>>

\* The user reloads a tab; a refresh it waits for loses its reader.
Reload(t) ==
    /\ cuts < MaxCuts /\ page[t] # "loading"
    /\ NewPage(t) /\ orphan' = orphan \cup Of(t)
    /\ cuts' = cuts + 1 /\ disturbed' = (disturbed \/ Of(t) # {})
    /\ UNCHANGED <<server, request>>

\* issueSession for a user who logs in.
LogIn(t, s) ==
    /\ page[t] = "login" /\ row[s] = "none"
    /\ row' = [row EXCEPT ![s] = "live"]
    /\ cookie' = s
    /\ page' = [page EXCEPT ![t] = "app"] /\ access' = [access EXCEPT ![t] = TRUE]
    /\ UNCHANGED <<refreshing, call, request, orphan, history>>

\* logOut: revoke the session of the cookie and clear it. The tab forgets the
\* user even when the call fails; what it waits for still comes back.
LogOut(t, fails) ==
    /\ page[t] = "app"
    /\ row' = IF fails THEN row ELSE
            [s \in Rows |-> IF Live(cookie) /\ s = cookie THEN "ended" ELSE row[s]]
    /\ cookie' = IF fails THEN cookie ELSE NoToken
    /\ page' = [page EXCEPT ![t] = "login"] /\ access' = [access EXCEPT ![t] = FALSE]
    /\ disturbed' = TRUE
    /\ UNCHANGED <<refreshing, call, request, orphan, cuts>>

\* A password change or reset, or time: the session ends.
EndSession(s) ==
    /\ Live(s) /\ row' = [row EXCEPT ![s] = "ended"]
    /\ disturbed' = TRUE
    /\ UNCHANGED <<cookie, client, request, orphan, cuts>>

-----------------------------------------------------------------------------
\* Refreshes are interchangeable: the next one is any that is free.
FreeRequest == IF \E r \in Refreshes : ~Busy(r) THEN {CHOOSE r \in Refreshes : ~Busy(r)} ELSE {}
Loads(t) == \E r \in FreeRequest : Load(t, r)
CallStep(c) ==
    Served(c) \/ GiveUp(c) \/ Join(c) \/ \E r \in FreeRequest : Refresh(c, r)
RefreshStep(r) ==
    ReadSession(r) \/ Rotate(r) \/ RotateConflict(r) \/ Refreshed(r) \/ Refuse(r) \/ Drop(r)
UserStep(t) ==
    \/ Reload(t)
    \/ \E s \in Rows : LogIn(t, s)
    \/ \E fails \in BOOLEAN : LogOut(t, fails)

SessionsNext ==
    \/ \E t \in Tabs :
        Loads(t) \/ UserStep(t) \/ Expire(t)
    \/ \E c \in Calls : Call(c) \/ CallStep(c)
    \/ \E r \in Refreshes : RefreshStep(r) \/ Lose(r)
    \/ \E s \in Rows : EndSession(s)

SessionsSpec == SessionsInit /\ [][SessionsNext]_sessionVars

\* Servers answer, and browsers run the callbacks of what they are answered.
AnswersArrive ==
    /\ \A c \in Calls : WF_sessionVars(CallStep(c))
    /\ \A r \in Refreshes : WF_sessionVars(RefreshStep(r))

SessionsFairness == AnswersArrive /\ \A t \in Tabs : WF_sessionVars(Loads(t))

-----------------------------------------------------------------------------
SessionsTypeOK ==
    /\ row \in [Rows -> {"none", "live", "ended"}]
    /\ cookie \in Token
    /\ page \in [Tabs -> {"loading", "app", "login"}]
    /\ access \in [Tabs -> BOOLEAN]
    /\ refreshing \in [Tabs -> BOOLEAN]
    /\ call \in [Calls -> CallState]
    /\ request \in [Refreshes -> RefreshState] /\ orphan \subseteq Refreshes
    /\ cuts \in 0..MaxCuts /\ disturbed \in BOOLEAN

\* A session that ended, by a log out, a new password or time, is never
\* brought back by a refresh that read it while it was live.
EndedStaysEnded ==
    [][\A s \in Rows : row[s] = "ended" => row'[s] = "ended"]_sessionVars

\* Refreshes of one page are never under way together (client.js: "we never
\* fire the refresh more than once at a time"), however its page load, its
\* calls and its log-outs interleave.
OneRefreshPerPage ==
    \A t \in Tabs : \A q, r \in Of(t) : q = r

\* A call in the queue of the interceptor has a refresh to wait for.
WaitersHaveARefresh ==
    \A c \in Calls : call[c].st = "queued" => refreshing[TabOf[c]] /\ Of(TabOf[c]) # {}

\* Nobody is sent to the log-in page while the session lives, no message is
\* lost, no page reloads in the middle of a refresh and no two pages refresh
\* at once: access tokens that run out, and any number of calls, do not do it.
NeverThrownOut == ~disturbed => \A t \in Tabs : page[t] # "login"

\* Every API call comes back, or its page is replaced: no call is left in the
\* queue, and none is refreshed and replayed for ever.
CallsSettle ==
    \A c \in Calls : call[c].st # "idle" ~> call[c].st = "idle"

\* Undisturbed, the browser has one session and one refresh at most, which
\* holds its token; between the rotation and the response nobody else does.
Calm ==
    /\ \A s \in Rows : row[s] = IF s = First THEN "live" ELSE "none"
    /\ orphan = {} /\ \A t \in Tabs : page[t] # "login"
    /\ \A r \in Refreshes : Busy(r) =>
          /\ request[r].phase # "refused" /\ request[r].token = First
          /\ request[r].phase = "read" => request[r].row = First
          /\ \A q \in Refreshes : Busy(q) => q = r
    /\ cookie = First \/ \E r \in Refreshes : request[r].phase = "answered"

\* What every step preserves: a page that loads refreshes for no call and has
\* none, a refresh of any other page has its interceptor waiting for it, and
\* what outlives its page is a refresh under way.
SessionsInv ==
    /\ SessionsTypeOK /\ OneRefreshPerPage /\ WaitersHaveARefresh
    /\ \A t \in Tabs :
          /\ page[t] = "loading" => ~refreshing[t]
          /\ Of(t) # {} => refreshing[t] \/ page[t] = "loading"
          /\ refreshing[t] => Of(t) # {}
    /\ \A c \in Calls : page[TabOf[c]] = "loading" => call[c].st = "idle"
    /\ \A r \in orphan : Busy(r)
    /\ disturbed \/ Calm
=============================================================================
