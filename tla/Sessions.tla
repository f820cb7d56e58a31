------------------------------ MODULE Sessions ------------------------------
(***************************************************************************)
(* Members, their sessions and the browser tabs that keep them alive       *)
(* (AuthService, TokensService, UsersService, JwtAuthGuard; the routes     *)
(* under app/api/auth, lib/auth and lib/api/http.ts of the web client).    *)
(*                                                                         *)
(* A session is a family of refresh tokens: each refresh replaces the one  *)
(* in the browser's cookie, in three statements, and a token that is       *)
(* presented after it was replaced revokes its family.  Every tab keeps    *)
(* an access token in memory and refreshes when a call is refused.         *)
(* Passwords, mails and names are left out.                                *)
(***************************************************************************)
EXTENDS Naturals, FiniteSets

CONSTANTS
    Users,
    Browsers,
    Tabs,
    Flights,        \* refreshes in progress at the same time
    Calls,          \* API calls in progress at the same time
    UserOf,         \* browser -> who signs in from it
    BrowserOf,      \* tab -> its browser
    Undisturbed,    \* browsers with one tab, which loads and signs in while nothing
                    \* is in flight, and of which no answer gets lost
    EmailVerificationRequired,
    LockoutThreshold,
    MaxTokens,      \* bound on refresh tokens
    Nobody

ASSUME SessionsAssumption ==
    /\ UserOf \in [Browsers -> Users]
    /\ BrowserOf \in [Tabs -> Browsers]
    /\ Undisturbed \subseteq Browsers
    /\ \A t, u \in Tabs : BrowserOf[t] \in Undisturbed /\ BrowserOf[t] = BrowserOf[u] => t = u
    /\ EmailVerificationRequired \in BOOLEAN
    /\ LockoutThreshold \in Nat \ {0}
    /\ MaxTokens \in Nat
    /\ Nobody \notin Users \cup Tabs

VARIABLES
    member,   \* User rows: status, deleted, failures, locked, verifying (by mail)
    token,    \* RefreshToken rows by number: user, family (its first token), state
    cookie,   \* the refresh token in each browser's cookie (0: none)
    tab,      \* each tab: is it open, does it hold a good access token, and its sign-in
    flight,   \* each refresh: where it is, of which tab, with which token, and its next
    call,     \* each API call: where it is, of which tab, and is its access token stale
    ended,    \* families ended on purpose or by their expiry
    session   \* the family each browser signed in to and did not sign out of (0: none)

sessionVars == <<member, token, cookie, tab, flight, call, ended, session>>

MemberStatus == {"NONE", "PENDING", "ACTIVE", "SUSPENDED"}
Tokens       == 1..MaxTokens
TokenOrNone  == 0..MaxTokens

NoMember   == [status |-> "NONE", deleted |-> FALSE, failures |-> 0, locked |-> FALSE,
               verifying |-> FALSE]
NoToken    == [user |-> Nobody, family |-> 0, revoked |-> FALSE, expired |-> FALSE]
NotSigning == [step |-> "none", status |-> "NONE", failures |-> 0, token |-> 0]
ClosedTab  == [open |-> FALSE, good |-> FALSE, leaving |-> FALSE, signing |-> NotSigning]
NoFlight   == [step |-> "none", tab |-> Nobody, token |-> 0, next |-> 0]
NoCall     == [step |-> "none", tab |-> Nobody, stale |-> FALSE]

There(u)     == member[u].status # "NONE" /\ ~member[u].deleted
\* JwtAuthGuard: the user exists and is active, whatever the token says.
Admitted(u)  == There(u) /\ member[u].status = "ACTIVE"
UserAt(t)    == UserOf[BrowserOf[t]]
Issued       == {n \in Tokens : token[n] # NoToken}
Usable(n)    == n \in Issued /\ ~token[n].revoked /\ ~token[n].expired
FamilyOf(n)  == {m \in Issued : token[m].family = token[n].family}
TokensOf(u)  == {n \in Issued : token[n].user = u}
Families(S)  == {token[n].family : n \in S}
FlightsOf(t) == {f \in Flights : flight[f].tab = t}

Revoked(S)   == [n \in Tokens |-> [token[n] EXCEPT !.revoked = @ \/ n \in S]]
\* issueRefreshToken: a row of the given family, or of its own.
IssueToken(n, u, family) ==
    /\ n = Cardinality(Issued) + 1 /\ n <= MaxTokens
    /\ token' = [token EXCEPT ![n] = [NoToken EXCEPT
                   !.user = u, !.family = IF family = 0 THEN n ELSE family]]

-----------------------------------------------------------------------------
(* Members                                                                 *)

ElsewhereUnchanged == UNCHANGED <<token, cookie, flight, call, ended, session>>

Quiet(t) == FlightsOf(t) = {} /\ \A c \in Calls : call[c].tab # t

\* register; a member that needs no verification is signed in at once.
Register(t) ==
    LET u == UserAt(t)
    IN  /\ member[u].status = "NONE"
        /\ tab[t].open /\ ~tab[t].leaving /\ tab[t].signing.step = "none"
        /\ BrowserOf[t] \in Undisturbed => Quiet(t)
        /\ member' = [member EXCEPT
             ![u].status = IF EmailVerificationRequired THEN "PENDING" ELSE "ACTIVE",
             ![u].verifying = EmailVerificationRequired]
        /\ tab' = IF EmailVerificationRequired THEN tab
                  ELSE [tab EXCEPT ![t].signing.step = "issue"]
        /\ ElsewhereUnchanged

CreateMember(u) ==
    /\ member[u].status = "NONE"
    /\ member' = [member EXCEPT ![u].status = "ACTIVE"]
    /\ UNCHANGED tab /\ ElsewhereUnchanged

\* The link of the mail is used once.
VerifyEmail(u) ==
    /\ There(u) /\ member[u].verifying
    /\ member' = [member EXCEPT ![u].status = "ACTIVE", ![u].verifying = FALSE]
    /\ UNCHANGED tab /\ ElsewhereUnchanged

AdminUpdate(u, status) ==
    /\ There(u) /\ status \in MemberStatus \ {"NONE", member[u].status}
    /\ member' = [member EXCEPT ![u].status = status]
    /\ UNCHANGED tab /\ ElsewhereUnchanged

\* lockedUntil passes.
Unlock(u) ==
    /\ member[u].locked
    /\ member' = [member EXCEPT ![u].locked = FALSE]
    /\ UNCHANGED tab /\ ElsewhereUnchanged

\* remove: the member is deleted first ...
RemoveMember(u) ==
    /\ There(u)
    /\ member' = [member EXCEPT ![u].deleted = TRUE]
    /\ UNCHANGED tab /\ ElsewhereUnchanged

-----------------------------------------------------------------------------
(* The end of sessions on the server                                       *)

EndTokens(S) ==
    /\ S # {}
    /\ token' = Revoked(S)
    /\ ended' = ended \cup Families(S)
    /\ UNCHANGED <<cookie, tab, flight, call, session>>

Unrevoked(u) == {n \in TokensOf(u) : ~token[n].revoked}

\* ... and its tokens are revoked in a statement of its own.
RemoveTokens(u) == member[u].deleted /\ EndTokens(Unrevoked(u)) /\ UNCHANGED member

RevokeSession(n) == n \in Issued /\ ~token[n].revoked /\ EndTokens({n}) /\ UNCHANGED member

RevokeAllSessions(u) == EndTokens(Unrevoked(u)) /\ UNCHANGED member

\* A link that was mailed earlier (requestPasswordReset) is used.
ResetPassword(u) == There(u) /\ EndTokens(Unrevoked(u)) /\ UNCHANGED member

\* expiresAt passes.
ExpireToken(n) ==
    /\ Usable(n)
    /\ token' = [token EXCEPT ![n].expired = TRUE]
    /\ ended' = ended \cup {token[n].family}
    /\ UNCHANGED <<member, cookie, tab, flight, call, session>>

-----------------------------------------------------------------------------
(* login: the read, the check of the password, the update of the user, the *)
(* session, and its answer with the cookie.                                *)

Signing(t, s) == tab' = [tab EXCEPT ![t].signing = s]

\* The middleware sends a browser with a cookie away from the login page; a
\* tab that was there before the cookie may still sign in.
LoginRead(t) ==
    LET u == UserAt(t)
    IN  /\ tab[t].open /\ ~tab[t].good /\ ~tab[t].leaving
        /\ tab[t].signing.step = "none"
        /\ BrowserOf[t] \in Undisturbed => cookie[BrowserOf[t]] = 0 /\ Quiet(t)
        /\ There(u) /\ ~member[u].locked
        /\ Signing(t, [NotSigning EXCEPT !.step = "verify", !.status = member[u].status,
                                         !.failures = member[u].failures])
        /\ UNCHANGED member /\ ElsewhereUnchanged

\* recordFailedLogin counts from what was read.
LoginFailed(t) ==
    LET u == UserAt(t)
        n == tab[t].signing.failures + 1
    IN  /\ tab[t].signing.step = "verify"
        /\ member' = IF ~There(u) THEN member
                     ELSE IF n >= LockoutThreshold
                     THEN [member EXCEPT ![u].failures = 0, ![u].locked = TRUE]
                     ELSE [member EXCEPT ![u].failures = n]
        /\ Signing(t, NotSigning)
        /\ ElsewhereUnchanged

\* The status that was read decides; the update fails on a deleted member.
LoginVerified(t) ==
    LET u == UserAt(t)
        s == tab[t].signing
        refused == \/ s.status = "SUSPENDED"
                   \/ s.status = "PENDING" /\ EmailVerificationRequired
                   \/ ~There(u)
    IN  /\ s.step = "verify"
        /\ member' = IF refused THEN member
                     ELSE [member EXCEPT ![u].status = "ACTIVE", ![u].failures = 0,
                                         ![u].locked = FALSE]
        /\ Signing(t, IF refused THEN NotSigning ELSE [s EXCEPT !.step = "issue"])
        /\ ElsewhereUnchanged

\* issueSessionPair
LoginIssue(t, n) ==
    /\ tab[t].signing.step = "issue"
    /\ IssueToken(n, UserAt(t), 0)
    /\ Signing(t, [tab[t].signing EXCEPT !.step = "answer", !.token = n])
    /\ UNCHANGED <<member, cookie, flight, call, ended, session>>

LoginAnswered(t) ==
    LET b == BrowserOf[t]
        n == tab[t].signing.token
    IN  /\ tab[t].signing.step = "answer"
        /\ cookie' = [cookie EXCEPT ![b] = n]
        /\ session' = [session EXCEPT ![b] = n]
        /\ tab' = [tab EXCEPT ![t].signing = NotSigning, ![t].good = TRUE]
        /\ UNCHANGED <<member, token, flight, call, ended>>

-----------------------------------------------------------------------------
(* The refresh: single flight per tab, and rotate() on the server          *)

Idle(f) == flight[f].step = "none"
\* The route answers 401 by itself when there is no cookie.
Takeoff(f, t) ==
    flight' = [flight EXCEPT ![f] =
                 [step |-> IF cookie[BrowserOf[t]] = 0 THEN "refused" ELSE "read",
                  tab |-> t, token |-> cookie[BrowserOf[t]], next |-> 0]]

\* Mutant: every refused call refreshes.
EveryCall(t)  == TRUE
\* refreshSession: callers wait for the refresh that is in flight.
MayRefresh(t) == FlightsOf(t) = {}

\* A page is loaded, or loaded again: its memory is gone, and it refreshes.
Load(t, f) ==
    /\ Idle(f) /\ Quiet(t)
    /\ tab[t].signing.step = "none" /\ ~tab[t].leaving
    /\ tab' = [tab EXCEPT ![t] = [ClosedTab EXCEPT !.open = TRUE]]
    /\ Takeoff(f, t)
    /\ UNCHANGED <<member, token, cookie, call, ended, session>>

At(f, step) == flight[f].step = step
Proceed(f, step) == flight' = [flight EXCEPT ![f].step = step]

\* rotate: the read and its three refusals; reuse and expiry end the family.
RotateRead(f) ==
    LET n == flight[f].token
    IN  /\ At(f, "read")
        /\ Proceed(f, IF member[token[n].user].deleted \/ ~Usable(n)
                      THEN "refused" ELSE "issue")
        /\ token' = IF member[token[n].user].deleted \/ Usable(n) THEN token
                    ELSE Revoked(FamilyOf(n))
        /\ UNCHANGED <<member, cookie, tab, call, ended, session>>

RotateIssue(f, n) ==
    LET old == flight[f].token
    IN  /\ At(f, "issue")
        /\ IssueToken(n, token[old].user, token[old].family)
        /\ flight' = [flight EXCEPT ![f].step = "replace", ![f].next = n]
        /\ UNCHANGED <<member, cookie, tab, call, ended, session>>

RotateReplace(f) ==
    /\ At(f, "replace")
    /\ token' = [token EXCEPT ![flight[f].token].revoked = TRUE]
    /\ Proceed(f, "answer")
    /\ UNCHANGED <<member, cookie, tab, call, ended, session>>

\* The callers that waited retry, or give up.
Landed(f, good) ==
    LET t == flight[f].tab
    IN  /\ flight' = [flight EXCEPT ![f] = NoFlight]
        /\ tab' = [tab EXCEPT ![t].good = good]
        /\ call' = [c \in Calls |->
                      IF call[c].tab = t /\ call[c].step = "wait"
                      THEN IF good THEN [call[c] EXCEPT !.step = "again", !.stale = FALSE]
                           ELSE NoCall
                      ELSE call[c]]
        /\ UNCHANGED <<member, token, ended, session>>

RefreshAnswered(f) ==
    /\ At(f, "answer")
    /\ cookie' = [cookie EXCEPT ![BrowserOf[flight[f].tab]] = flight[f].next]
    /\ Landed(f, TRUE)

RefreshRefused(f) ==
    /\ At(f, "refused")
    /\ cookie' = [cookie EXCEPT ![BrowserOf[flight[f].tab]] = 0]
    /\ Landed(f, FALSE)

\* The answer is lost, the server dies between two statements, or the page
\* is left.
RefreshLost(f) ==
    /\ ~Idle(f) /\ BrowserOf[flight[f].tab] \notin Undisturbed
    /\ UNCHANGED cookie
    /\ Landed(f, FALSE)

-----------------------------------------------------------------------------
(* apiFetch                                                                *)

Send(c, t) ==
    /\ call[c].step = "none"
    /\ tab[t].open /\ ~tab[t].leaving /\ tab[t].signing.step = "none"
    /\ call' = [call EXCEPT ![c] = [step |-> "sent", tab |-> t, stale |-> ~tab[t].good]]
    /\ UNCHANGED <<member, token, cookie, tab, flight, ended, session>>

Out(c)     == call[c].step \in {"sent", "again"}
Accepts(c) == ~call[c].stale /\ Admitted(UserAt(call[c].tab))

Served(c) ==
    /\ Out(c) /\ Accepts(c)
    /\ call' = [call EXCEPT ![c] = NoCall]
    /\ UNCHANGED <<member, token, cookie, tab, flight, ended, session>>

\* The first 401 waits for a refresh.
Refused(c, f) ==
    /\ call[c].step = "sent" /\ ~Accepts(c)
    /\ call' = [call EXCEPT ![c].step = "wait"]
    /\ IF MayRefresh(call[c].tab) THEN Idle(f) /\ Takeoff(f, call[c].tab)
       ELSE UNCHANGED flight
    /\ UNCHANGED <<member, token, cookie, tab, ended, session>>

\* The second signs the tab out; the cookie stays.
RefusedAgain(c) ==
    /\ call[c].step = "again" /\ ~Accepts(c)
    /\ call' = [call EXCEPT ![c] = NoCall]
    /\ tab' = [tab EXCEPT ![call[c].tab].good = FALSE]
    /\ UNCHANGED <<member, token, cookie, flight, ended, session>>

\* The access token runs out, for the calls that carry it, too.
AccessExpires(t) ==
    /\ tab[t].good
    /\ tab' = [tab EXCEPT ![t].good = FALSE]
    /\ call' = [c \in Calls |-> IF call[c].tab = t THEN [call[c] EXCEPT !.stale = TRUE]
                                ELSE call[c]]
    /\ UNCHANGED <<member, token, cookie, flight, ended, session>>

-----------------------------------------------------------------------------
(* endSession, by the user or after 20 idle minutes                        *)

\* The logout route revokes the cookie's token, if the access token lets it.
SignOut(t) ==
    LET b == BrowserOf[t]
        n == cookie[b]
        S == IF tab[t].good /\ Admitted(UserAt(t)) /\ n # 0 THEN {n} ELSE {}
    IN  /\ tab[t].open /\ ~tab[t].leaving
        /\ tab[t].signing.step = "none"
        /\ token' = Revoked(S)
        /\ ended' = ended \cup Families(S)
        /\ session' = [session EXCEPT ![b] = 0]
        /\ tab' = [tab EXCEPT ![t].leaving = TRUE]
        /\ UNCHANGED <<member, cookie, flight, call>>

\* Both cookies are cleared unless the answer is lost.
SignedOut(t) ==
    LET b == BrowserOf[t]
    IN  /\ tab[t].leaving
        /\ cookie' \in {[cookie EXCEPT ![b] = 0]} \cup (IF b \in Undisturbed THEN {} ELSE {cookie})
        /\ tab' = [tab EXCEPT ![t].leaving = FALSE, ![t].good = FALSE]
        /\ UNCHANGED <<member, token, flight, call, ended, session>>

-----------------------------------------------------------------------------
SessionsInit ==
    /\ member = [u \in Users |-> NoMember]
    /\ token = [n \in Tokens |-> NoToken]
    /\ cookie = [b \in Browsers |-> 0]
    /\ tab = [t \in Tabs |-> ClosedTab]
    /\ flight = [f \in Flights |-> NoFlight]
    /\ call = [c \in Calls |-> NoCall]
    /\ ended = {}
    /\ session = [b \in Browsers |-> 0]

Membership ==
    \/ \E u \in Users : \/ CreateMember(u) \/ VerifyEmail(u) \/ Unlock(u)
                        \/ ResetPassword(u) \/ RemoveMember(u) \/ RemoveTokens(u) \/ RevokeAllSessions(u)
                        \/ \E s \in MemberStatus : AdminUpdate(u, s)
    \/ \E n \in Tokens : RevokeSession(n) \/ ExpireToken(n)

InTab(t) ==
    \/ Register(t) \/ LoginRead(t) \/ LoginFailed(t) \/ LoginVerified(t)
    \/ LoginAnswered(t) \/ AccessExpires(t) \/ SignOut(t) \/ SignedOut(t)
    \/ \E n \in Tokens : LoginIssue(t, n)
    \/ \E f \in Flights : Load(t, f)
    \/ \E c \in Calls : Send(c, t)

Refreshing(f) ==
    \/ RotateRead(f) \/ RotateReplace(f)
    \/ \E n \in Tokens : RotateIssue(f, n)
    \/ RefreshAnswered(f) \/ RefreshRefused(f) \/ RefreshLost(f)

Calling(c) == Served(c) \/ RefusedAgain(c) \/ \E f \in Flights : Refused(c, f)

SessionsNext ==
    \/ Membership
    \/ \E t \in Tabs : InTab(t)
    \/ \E f \in Flights : Refreshing(f)
    \/ \E c \in Calls : Calling(c)

SessionsSpec == SessionsInit /\ [][SessionsNext]_sessionVars

-----------------------------------------------------------------------------
SessionsTypeOK ==
    /\ member \in [Users -> [status : MemberStatus, deleted : BOOLEAN, failures : Nat,
                             locked : BOOLEAN, verifying : BOOLEAN]]
    /\ token \in [Tokens -> [user : Users \cup {Nobody}, family : TokenOrNone,
                             revoked : BOOLEAN, expired : BOOLEAN]]
    /\ cookie \in [Browsers -> TokenOrNone]
    /\ tab \in [Tabs -> [open : BOOLEAN, good : BOOLEAN, leaving : BOOLEAN,
                         signing : [step : {"none", "verify", "issue", "answer"},
                                    status : MemberStatus, failures : Nat,
                                    token : TokenOrNone]]]
    /\ flight \in [Flights -> [step : {"none", "read", "issue", "replace", "answer", "refused"},
                               tab : Tabs \cup {Nobody}, token : TokenOrNone,
                               next : TokenOrNone]]
    /\ call \in [Calls -> [step : {"none", "sent", "wait", "again"},
                           tab : Tabs \cup {Nobody}, stale : BOOLEAN]]
    /\ ended \subseteq Tokens
    /\ session \in [Browsers -> TokenOrNone]

\* "Deduplicate concurrent refresh attempts" (session.ts) and "reuse revokes
\* the whole family" (rotate): a browser with one tab that signed in stays
\* signed in, however many of its calls are refused at once, until somebody
\* ends the session or it expires: its cookie, or the answer on its way, is
\* a token that the server takes.
StaysSignedIn ==
    \A b \in Undisturbed : session[b] # 0 /\ session[b] \notin ended /\ There(UserOf[b]) =>
      \E n \in Issued :
        /\ Usable(n) /\ token[n].family = session[b]
        /\ \/ n = cookie[b]
           \/ \E f \in Flights : /\ At(f, "answer") /\ flight[f].next = n
                                 /\ BrowserOf[flight[f].tab] = b
=============================================================================
