---------------------------- MODULE Credentials ----------------------------
(***************************************************************************)
(* The password of one account, the links that reset it and the sessions   *)
(* it opened.  A password is named by its version: version v is known to   *)
(* whoever set or learnt it.  A request verifies or reads first and writes *)
(* later; a password may be replaced in between.                           *)
(***************************************************************************)
EXTENDS Handlers

CONSTANTS
    Links,        \* links that can be asked for
    MaxPasswords  \* bound: versions of the password

ASSUME CredentialsAssumption == MaxPasswords \in Nat

VARIABLES
    password,  \* UserCredential.passwordHash
    sessions,  \* live sessions, by the version proved when they were opened, and
               \* whether that version was still the password then
    tickets,   \* access and pre-authentication tokens: versions proved for them
    link,      \* PasswordResetToken: "none", "open", or "used" (or expired)
    spent,     \* history: passwords set with a link
    asked,     \* history: requests for a link that overlapped
    auth       \* what the handlers are doing

credentialVars == <<password, sessions, tickets, link, spent, asked, auth>>

Versions == 0..MaxPasswords
AuthState ==
    {Idle} \cup [op : {"login", "change"}, knew : Versions]
           \cup [op : {"forgot"}] \cup [op : {"reset"}, link : Links]

CredentialsInit ==
    /\ password = 0 /\ sessions = {} /\ tickets = {}
    /\ link = [k \in Links |-> "none"] /\ spent = [k \in Links |-> 0]
    /\ asked = FALSE /\ auth = [h \in Handlers |-> Idle]

AuthGoes(h, s) == auth' = [auth EXCEPT ![h] = s]

-----------------------------------------------------------------------------
\* logIn and changePassword verify the password the caller gives.
Verify(h, op) ==
    /\ auth[h] = Idle
    /\ AuthGoes(h, [op |-> op, knew |-> password])
    /\ UNCHANGED <<password, sessions, tickets, link, spent, asked>>

Opens(v) == [knew |-> v, current |-> v = password]

\* issueSession after logIn: a session and its access token, or the token to
\* select one of several companies with.
FinishLogIn(h, direct) == LET v == auth[h].knew IN
    /\ auth[h].op = "login"
    /\ sessions' = IF direct THEN sessions \cup {Opens(v)} ELSE sessions
    /\ tickets' = tickets \cup {v}
    /\ AuthGoes(h, Idle)
    /\ UNCHANGED <<password, link, spent, asked>>

\* selectCompany and switchCompany: a session for a token, no password asked.
OpenWithTicket(v) ==
    /\ v \in tickets
    /\ sessions' = sessions \cup {Opens(v)}
    /\ UNCHANGED <<password, tickets, link, spent, asked, auth>>

TicketExpires(v) ==
    /\ v \in tickets /\ tickets' = tickets \ {v}
    /\ UNCHANGED <<password, sessions, link, spent, asked, auth>>

\* updatePassword: the new hash and the end of every session, in one
\* transaction.
SetPassword == password' = password + 1 /\ sessions' = {}
FinishChange(h) ==
    /\ auth[h].op = "change" /\ password < MaxPasswords
    /\ SetPassword
    /\ AuthGoes(h, Idle)
    /\ UNCHANGED <<tickets, link, spent, asked>>

\* createPasswordResetToken: the open links are marked used first. Their rows
\* stay locked up to the end of the transaction, so nobody sees them open.
BugSweep == link
Sweep == [k \in Links |-> IF link[k] = "open" THEN "used" ELSE link[k]]
Forgot(h) ==
    /\ auth[h] = Idle
    /\ link' = Sweep
    /\ asked' = (asked \/ \E g \in Handlers : auth[g].op = "forgot")
    /\ AuthGoes(h, [op |-> "forgot"])
    /\ UNCHANGED <<password, sessions, tickets, spent>>

CreateLink(h, k) ==
    /\ auth[h].op = "forgot" /\ link[k] = "none"
    /\ link' = [link EXCEPT ![k] = "open"]
    /\ AuthGoes(h, Idle)
    /\ UNCHANGED <<password, sessions, tickets, spent, asked>>

\* consumePasswordResetToken: find the token, then use it if it is unused still.
FindLink(h, k) ==
    /\ auth[h] = Idle /\ link[k] = "open"
    /\ AuthGoes(h, [op |-> "reset", link |-> k])
    /\ UNCHANGED <<password, sessions, tickets, link, spent, asked>>

Unused(k) == link[k] = "open"
Consume(h) == LET k == auth[h].link IN
    /\ auth[h].op = "reset" /\ Unused(k) /\ password < MaxPasswords
    /\ link' = [link EXCEPT ![k] = "used"]
    /\ spent' = [spent EXCEPT ![k] = @ + 1]
    /\ SetPassword
    /\ AuthGoes(h, Idle)
    /\ UNCHANGED <<tickets, asked>>

ConsumeFails(h) ==
    /\ auth[h].op = "reset" /\ ~Unused(auth[h].link)
    /\ AuthGoes(h, Idle)
    /\ UNCHANGED <<password, sessions, tickets, link, spent, asked>>

\* Thirty minutes pass.
LinkExpires(k) ==
    /\ link[k] = "open" /\ link' = [link EXCEPT ![k] = "used"]
    /\ UNCHANGED <<password, sessions, tickets, spent, asked, auth>>

CredentialsNext ==
    \/ \E h \in Handlers :
        \/ \E op \in {"login", "change"} : Verify(h, op)
        \/ \E direct \in BOOLEAN : FinishLogIn(h, direct)
        \/ FinishChange(h) \/ Forgot(h) \/ Consume(h) \/ ConsumeFails(h)
        \/ \E k \in Links : CreateLink(h, k) \/ FindLink(h, k)
    \/ \E v \in tickets : OpenWithTicket(v) \/ TicketExpires(v)
    \/ \E k \in Links : LinkExpires(k)

CredentialsSpec == CredentialsInit /\ [][CredentialsNext]_credentialVars

-----------------------------------------------------------------------------
CredentialsTypeOK ==
    /\ password \in Versions /\ tickets \subseteq Versions
    /\ sessions \subseteq [knew : Versions, current : BOOLEAN]
    /\ link \in [Links -> {"none", "open", "used"}] /\ spent \in [Links -> Nat]
    /\ asked \in BOOLEAN /\ auth \in [Handlers -> AuthState]

\* A reset link sets at most one password, however many requests found it
\* unused ("password-reset consumption use conditional updates",
\* MIGRATION_STRATEGY.md).
LinkSpentOnce == \A k \in Links : spent[k] <= 1

\* Every live session was opened by somebody who proved the password in
\* force, or one that had been replaced before the session was opened: a new
\* password ends all others, those that log in at that moment included.
SessionsKnowPassword ==
    \A s \in sessions : s.current => s.knew = password

\* An account has one open link, unless two requests for one overlapped.
OneOpenLink ==
    ~asked => \A j, k \in Links : link[j] = "open" /\ link[k] = "open" => j = k

\* What every step preserves: a link that may still be used has set no
\* password, and while a link is being created no other is open. A link then
\* sets one password, a session knows the password, and one link is open.
CredentialsInv ==
    /\ CredentialsTypeOK /\ LinkSpentOnce /\ SessionsKnowPassword /\ OneOpenLink
    /\ \A k \in Links : link[k] # "used" => spent[k] = 0
    /\ ~asked => \A h \in Handlers : auth[h].op = "forgot" =>
          /\ \A k \in Links : link[k] # "open"
          /\ \A g \in Handlers : auth[g].op = "forgot" => g = h
=============================================================================
