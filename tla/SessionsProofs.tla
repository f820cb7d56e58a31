-------------------------- MODULE SessionsProofs --------------------------
(***************************************************************************)
(* A browser that signed in, and of which no answer gets lost, stays       *)
(* signed in: for any members, browsers, pages, refreshes and calls.       *)
(*                                                                         *)
(* SInv says what each browser holds (its cookie and the tokens on their   *)
(* way), that no two browsers hold tokens of one family, that the page of  *)
(* an undisturbed browser does one thing at a time (CalmTab), and that while  *)
(* its browser is signed in, every refresh presents the cookie (Safe).     *)
(***************************************************************************)
EXTENDS Sessions, FiniteSetTheorems, TLAPS

-----------------------------------------------------------------------------
\* A refresh of the browser b is in progress.
FliesIn(f, b) == flight[f].tab \in Tabs /\ BrowserOf[flight[f].tab] = b

\* The tokens that the browser b has, or that are on their way to or from it.
Holds(b, n) ==
    \/ n = cookie[b] /\ n # 0
    \/ \E t \in Tabs : /\ BrowserOf[t] = b /\ tab[t].signing.step = "answer"
                       /\ n = tab[t].signing.token
    \/ \E f \in Flights : /\ FliesIn(f, b)
                          /\ \/ /\ flight[f].step \in {"read", "issue", "replace", "answer"}
                                /\ n = flight[f].token
                             \/ /\ flight[f].step \in {"replace", "answer"}
                                /\ n = flight[f].next

\* Token rows are numbered from 1, and belong to families of theirs.
NumberedUpTo(k) ==
    /\ k \in TokenOrNone
    /\ \A n \in Tokens : n \in Issued <=> n <= k
    /\ \A n \in Issued : token[n].user \in Users /\ token[n].family \in 1..k

\* What a browser holds is of its user, and of families no other browser holds.
OwnTokens == \A b \in Browsers : \A n : Holds(b, n) => n \in Issued /\ token[n].user = UserOf[b]
OwnFamilies ==
    \A b, c \in Browsers : \A n, m : b # c /\ Holds(b, n) /\ Holds(c, m)
      => token[n].family # token[m].family

FlightsHaveTabs == \A f \in Flights : flight[f].step # "none" <=> flight[f].tab \in Tabs

CallsHaveTabs  == \A c \in Calls : call[c].step # "none" => call[c].tab \in Tabs

\* Whoever signs in, or did, is a member.
MembersSignIn ==
    /\ \A t \in Tabs : tab[t].signing.step # "none" => member[UserAt(t)].status # "NONE"
    /\ \A b \in Browsers : session[b] # 0 => member[UserOf[b]].status # "NONE"

\* The tab of an undisturbed browser does one thing at a time.
CalmTab(t) ==
    /\ \A f, g \in FlightsOf(t) : f = g
    /\ tab[t].signing.step # "none" => Quiet(t) /\ ~tab[t].leaving
    /\ tab[t].leaving => session[BrowserOf[t]] = 0
    /\ \A n \in Issued : tab[t].signing.step = "answer" /\ tab[t].signing.token = n =>
         token[n].family = n /\ (n \notin ended => Usable(n))

SignedIn(b) == session[b] # 0 /\ session[b] \notin ended /\ There(UserOf[b])
Keeps(b, n) == Usable(n) /\ token[n].family = session[b]

\* While b is signed in, a refresh presents its cookie, and brings it the next.
FlightSafe(b, f) ==
    /\ flight[f].step # "refused"
    /\ flight[f].step \in {"read", "issue", "replace"} => flight[f].token = cookie[b]
    /\ flight[f].step \in {"replace", "answer"} => Keeps(b, flight[f].next)
    /\ flight[f].step = "replace" => flight[f].next # flight[f].token

Safe(b) ==
    SignedIn(b) =>
      /\ \A f \in Flights : FliesIn(f, b) => FlightSafe(b, f)
      /\ \/ \E f \in Flights : FliesIn(f, b) /\ flight[f].step = "answer"
         \/ Keeps(b, cookie[b])

SInv ==
    /\ SessionsTypeOK
    /\ \E k : NumberedUpTo(k)
    /\ OwnTokens /\ OwnFamilies /\ FlightsHaveTabs /\ CallsHaveTabs /\ MembersSignIn
    /\ \A t \in Tabs : BrowserOf[t] \in Undisturbed => CalmTab(t)
    /\ \A b \in Undisturbed : Safe(b)

SigningRow == [step : {"none", "verify", "issue", "answer"}, status : MemberStatus,
               failures : Nat, token : TokenOrNone]
MemberRow  == [status : MemberStatus, deleted : BOOLEAN, failures : Nat, locked : BOOLEAN,
               verifying : BOOLEAN]
TokenRow   == [user : Users \cup {Nobody}, family : TokenOrNone, revoked : BOOLEAN,
               expired : BOOLEAN]
TabRow     == [open : BOOLEAN, good : BOOLEAN, leaving : BOOLEAN, signing : SigningRow]
FlightRow  == [step : {"none", "read", "issue", "replace", "answer", "refused"},
               tab : Tabs \cup {Nobody}, token : TokenOrNone, next : TokenOrNone]
CallRow    == [step : {"none", "sent", "wait", "again"}, tab : Tabs \cup {Nobody},
               stale : BOOLEAN]

LEMMA Rows ==
  SessionsTypeOK <=> /\ member \in [Users -> MemberRow]
                     /\ token \in [Tokens -> TokenRow]
                     /\ cookie \in [Browsers -> TokenOrNone]
                     /\ tab \in [Tabs -> TabRow]
                     /\ flight \in [Flights -> FlightRow]
                     /\ call \in [Calls -> CallRow]
                     /\ ended \subseteq Tokens
                     /\ session \in [Browsers -> TokenOrNone]
  BY DEF SessionsTypeOK, SigningRow, MemberRow, TokenRow, TabRow, FlightRow, CallRow

-----------------------------------------------------------------------------
(* Tokens                                                                  *)

\* No row comes or goes, or changes hands.
RowsStay ==
    /\ Issued' = Issued
    /\ \A n \in Issued : token'[n].user = token[n].user /\ token'[n].family = token[n].family

\* A token is only lost to its browser with its family.
EndsOnly ==
    /\ RowsStay /\ ended \subseteq ended'
    /\ \A n \in Issued : Usable(n) /\ token[n].family \notin ended' => Usable(n)'

LEMMA RevokedRows ==
  ASSUME SessionsTypeOK, NEW S \in SUBSET Issued, token' = Revoked(S)
  PROVE  /\ token' \in [Tokens -> TokenRow] /\ RowsStay
         /\ \A n \in Issued \ S : token'[n] = token[n]
  <1>1. \A n \in Tokens : token[n] \in TokenRow
    BY Rows
  <1>2. ASSUME NEW n \in Tokens
        PROVE  /\ token'[n] \in TokenRow
               /\ token'[n].user = token[n].user /\ token'[n].family = token[n].family
               /\ n \notin S => token'[n] = token[n]
    <2>1. token'[n] = [token[n] EXCEPT !.revoked = token[n].revoked \/ n \in S]
      BY DEF Revoked
    <2>2. CASE n \in S
      <3>1. token'[n] = [token[n] EXCEPT !.revoked = TRUE]
        BY <2>1, <2>2
      <3>2. QED
        BY <1>1, <2>2, <3>1 DEF TokenRow
    <2>3. CASE n \notin S
      <3>1. token[n].revoked \in BOOLEAN
        BY <1>1 DEF TokenRow
      <3>2. (token[n].revoked \/ n \in S) = token[n].revoked
        BY <2>3, <3>1
      <3>3. token'[n] = [token[n] EXCEPT !.revoked = token[n].revoked]
        BY <2>1, <3>2
      <3>4. QED
        BY <1>1, <2>3, <3>3 DEF TokenRow
    <2>4. QED
      BY <2>2, <2>3
  <1>3. token' \in [Tokens -> TokenRow]
    BY <1>2 DEF Revoked
  <1>4. Issued' = Issued
    <2>1. ASSUME NEW n \in Tokens, n \in S PROVE token'[n] # NoToken
      <3>1. token'[n].revoked = TRUE
        BY <1>1, <2>1 DEF Revoked, TokenRow
      <3>2. QED
        BY <3>1 DEF NoToken
    <2>2. QED
      BY <1>2, <2>1 DEF Issued
  <1>5. QED
    BY <1>2, <1>3, <1>4 DEF RowsStay, Issued

LEMMA NumberedStays ==
  ASSUME RowsStay, NEW k, NumberedUpTo(k)
  PROVE  NumberedUpTo(k)'
  BY DEF RowsStay, NumberedUpTo, Tokens, TokenOrNone

LEMMA HoldingsStay ==
  ASSUME OwnTokens, OwnFamilies, Issued \subseteq Issued',
         \A n \in Issued : token'[n].user = token[n].user /\ token'[n].family = token[n].family,
         \A b \in Browsers : \A n : Holds(b, n)' => Holds(b, n)
  PROVE  OwnTokens' /\ OwnFamilies'
  BY DEF OwnTokens, OwnFamilies

\* What ends a session ends all of its tokens, and spares those of others.
LEMMA EndTokensEnds ==
  ASSUME SInv, NEW S \in SUBSET Issued, token' = Revoked(S), ended' = ended \cup Families(S)
  PROVE  token' \in [Tokens -> TokenRow] /\ EndsOnly /\ ended' \subseteq Tokens
  <1>1. SessionsTypeOK
    BY DEF SInv
  <1>2. /\ token' \in [Tokens -> TokenRow] /\ RowsStay
        /\ \A n \in Issued \ S : token'[n] = token[n]
    BY <1>1, RevokedRows
  <1>3. ASSUME NEW n \in Issued, Usable(n), token[n].family \notin ended'
        PROVE  Usable(n)'
    <2>1. n \notin S
      BY <1>3 DEF Families
    <2>2. token'[n] = token[n] /\ n \in Issued'
      BY <1>2, <2>1 DEF RowsStay
    <2>3. QED
      BY <1>3, <2>2 DEF Usable
  <1>4. ended' \subseteq Tokens
    <2>1. PICK k \in TokenOrNone : NumberedUpTo(k)
      BY DEF SInv, NumberedUpTo
    <2>2. ASSUME NEW n \in S PROVE token[n].family \in Tokens
      BY <2>1, SessionsAssumption DEF NumberedUpTo, Tokens, TokenOrNone
    <2>3. QED
      BY <1>1, <2>2, Rows DEF Families
  <1>5. QED
    BY <1>2, <1>3, <1>4 DEF EndsOnly

-----------------------------------------------------------------------------
(* Steps that leave the cookies and the refreshes alone                    *)

\* What the browser b holds keeps its family, and only ends with it.
Spares(b) ==
    /\ Issued \subseteq Issued' /\ ended \subseteq ended'
    /\ \A n \in Issued : token'[n].user = token[n].user /\ token'[n].family = token[n].family
    /\ \A n : Holds(b, n) /\ Usable(n) /\ token[n].family \notin ended' => Usable(n)'

LEMMA EndsSpares ==
  ASSUME EndsOnly, NEW b
  PROVE  Spares(b)
  BY DEF EndsOnly, RowsStay, Spares, Usable

LEMMA SafeElsewhere ==
  ASSUME SInv, NEW b \in Browsers, Safe(b), Spares(b),
         session'[b] \in {session[b], 0},
         session[b] # 0 /\ There(UserOf[b])' => There(UserOf[b]),
         cookie'[b] = cookie[b],
         \A f \in Flights : FliesIn(f, b) \/ FliesIn(f, b)' => flight'[f] = flight[f]
  PROVE  Safe(b)'
  <1> SUFFICES ASSUME SignedIn(b)'
               PROVE  /\ \A f \in Flights : FliesIn(f, b)' => FlightSafe(b, f)'
                      /\ \/ \E f \in Flights : FliesIn(f, b)' /\ flight'[f].step = "answer"
                         \/ Keeps(b, cookie[b])'
    BY DEF Safe
  <1>1. session'[b] = session[b] /\ session[b] \notin ended' /\ SignedIn(b)
    BY DEF SignedIn, Spares
  <1>2. \A n : Holds(b, n) /\ Keeps(b, n) => Keeps(b, n)'
    BY <1>1 DEF Keeps, Usable, Spares
  <1>3. \A f \in Flights : FliesIn(f, b)' <=> FliesIn(f, b)
    BY DEF FliesIn
  <1>4. ASSUME NEW f \in Flights, FliesIn(f, b)' PROVE FlightSafe(b, f)'
    <2>1. FliesIn(f, b) /\ flight'[f] = flight[f] /\ FlightSafe(b, f)
      BY <1>1, <1>3, <1>4 DEF Safe
    <2>2. flight[f].step \in {"replace", "answer"} => Holds(b, flight[f].next)
      BY <2>1 DEF Holds
    <2>3. QED
      BY <1>2, <2>1, <2>2 DEF FlightSafe
  <1>5. CASE Keeps(b, cookie[b])
    <2>1. PICK n : n = cookie[b]
      OBVIOUS
    <2>2. n \in Tokens /\ n # 0
      BY <1>5, <2>1 DEF Keeps, Usable, Issued, Tokens
    <2>3. Keeps(b, n)'
      BY <1>2, <1>5, <2>1, <2>2 DEF Holds
    <2>4. cookie'[b] = n
      BY <2>1
    <2>5. QED
      BY <1>4, <2>3, <2>4
  <1>6. QED
    BY <1>1, <1>3, <1>4, <1>5 DEF Safe

LEMMA CalmElsewhere ==
  ASSUME NEW t \in Tabs, CalmTab(t), Spares(BrowserOf[t]), SInv,
         FlightsOf(t)' \subseteq FlightsOf(t),
         \/ tab'[t].signing = tab[t].signing
         \/ tab'[t].signing.step \in {"none", "verify", "issue"},
         tab'[t].signing.step # "none" => /\ Quiet(t) /\ ~tab'[t].leaving
                                          /\ \A c \in Calls : call'[c].tab # t,
         tab'[t].leaving => tab[t].leaving \/ session'[BrowserOf[t]] = 0,
         session'[BrowserOf[t]] \in {session[BrowserOf[t]], 0}
  PROVE  CalmTab(t)'
  <1>1. \A f, g \in FlightsOf(t)' : f = g
    BY DEF CalmTab
  <1>2. tab'[t].signing.step # "none" => Quiet(t)' /\ ~tab'[t].leaving
    BY DEF Quiet
  <1>3. tab'[t].leaving => session'[BrowserOf[t]] = 0
    BY DEF CalmTab
  <1>4. ASSUME NEW n \in Issued', tab'[t].signing.step = "answer", tab'[t].signing.token = n
        PROVE  token'[n].family = n /\ (n \notin ended' => Usable(n)')
    <2>1. tab'[t].signing = tab[t].signing
      BY <1>4
    <2>2. Holds(BrowserOf[t], n) /\ BrowserOf[t] \in Browsers
      BY <1>4, <2>1, SessionsAssumption DEF Holds
    <2>3. n \in Issued
      BY <2>2 DEF SInv, OwnTokens
    <2>4. token[n].family = n /\ (n \notin ended => Usable(n))
      BY <1>4, <2>1, <2>3 DEF CalmTab
    <2>5. QED
      BY <2>2, <2>3, <2>4 DEF Spares
  <1>5. QED
    BY <1>1, <1>2, <1>3, <1>4 DEF CalmTab

LEMMA CallsStay ==
  ASSUME SInv, UNCHANGED call
  PROVE  CallsHaveTabs'
  BY DEF SInv, CallsHaveTabs

\* The members, the end of sessions, the pages and their calls.
LEMMA NoRefresh ==
  ASSUME SInv, SessionsTypeOK', CallsHaveTabs', EndsOnly, UNCHANGED <<cookie, flight>>,
         \A u \in Users : member[u].status # "NONE" => /\ member'[u].status # "NONE"
                                                       /\ There(u)' => There(u),
         \A b \in Browsers : session'[b] \in {session[b], 0},
         \A t \in Tabs :
           /\ \/ tab'[t].signing = tab[t].signing
              \/ tab'[t].signing.step \in {"none", "verify", "issue"}
           /\ tab'[t].signing.step # "none" =>
                /\ tab[t].signing.step # "none" \/ member'[UserAt(t)].status # "NONE"
                /\ BrowserOf[t] \in Undisturbed =>
                     /\ Quiet(t) /\ ~tab'[t].leaving
                     /\ \A c \in Calls : call'[c].tab # t
           /\ tab'[t].leaving => tab[t].leaving \/ session'[BrowserOf[t]] = 0
  PROVE  SInv'
  <1> USE SessionsAssumption
  <1>1. \E k : NumberedUpTo(k)'
    BY NumberedStays DEF SInv, EndsOnly
  <1>2. OwnTokens' /\ OwnFamilies'
    <2>1. \A b \in Browsers : \A n : Holds(b, n)' => Holds(b, n)
      BY DEF Holds, FliesIn
    <2>2. QED
      BY <2>1, HoldingsStay DEF SInv, EndsOnly, RowsStay
  <1>3. FlightsHaveTabs'
    BY DEF SInv, FlightsHaveTabs
  <1>4. MembersSignIn'
    <2>1. \A t \in Tabs : UserAt(t) \in Users
      BY DEF UserAt
    <2>2. QED
      BY <2>1 DEF SInv, MembersSignIn, UserAt
  <1>5. ASSUME NEW t \in Tabs, BrowserOf[t] \in Undisturbed PROVE CalmTab(t)'
    <2>1. CalmTab(t) /\ FlightsOf(t)' \subseteq FlightsOf(t)
      BY <1>5 DEF SInv, FlightsOf
    <2>2. session'[BrowserOf[t]] \in {session[BrowserOf[t]], 0}
      OBVIOUS
    <2>3. tab'[t].signing.step # "none" => /\ Quiet(t) /\ ~tab'[t].leaving
                                           /\ \A c \in Calls : call'[c].tab # t
      BY <1>5
    <2>4. tab'[t].leaving => tab[t].leaving \/ session'[BrowserOf[t]] = 0
      OBVIOUS
    <2>5. \/ tab'[t].signing = tab[t].signing
          \/ tab'[t].signing.step \in {"none", "verify", "issue"}
      OBVIOUS
    <2>6. QED
      BY <2>1, <2>2, <2>3, <2>4, <2>5, EndsSpares, CalmElsewhere
  <1>6. ASSUME NEW b \in Undisturbed PROVE Safe(b)'
    <2>1. b \in Browsers /\ Safe(b) /\ UserOf[b] \in Users
      BY DEF SInv
    <2>2. session[b] # 0 /\ There(UserOf[b])' => There(UserOf[b])
      BY <2>1 DEF SInv, MembersSignIn
    <2>3. /\ session'[b] \in {session[b], 0} /\ cookie'[b] = cookie[b]
          /\ \A f \in Flights : FliesIn(f, b) \/ FliesIn(f, b)' => flight'[f] = flight[f]
      BY <2>1
    <2>4. QED
      BY <2>1, <2>2, <2>3, EndsSpares, SafeElsewhere
  <1>7. QED
    BY <1>1, <1>2, <1>3, <1>4, <1>5, <1>6 DEF SInv

LEMMA NothingEnds == UNCHANGED <<token, ended>> => EndsOnly
  BY DEF EndsOnly, RowsStay, Issued, Usable

\* A page that signs in does nothing else.
LEMMA SigningIsQuiet ==
  ASSUME SInv, NEW t \in Tabs, BrowserOf[t] \in Undisturbed, tab[t].signing.step # "none"
  PROVE  Quiet(t) /\ ~tab[t].leaving /\ \A c \in Calls : call[c].tab # t
  BY DEF SInv, CalmTab, Quiet

\* Members come, change and go; they do not come back.
MembersGoOn ==
    /\ member' \in [Users -> MemberRow]
    /\ \A u \in Users : member[u].status # "NONE" => /\ member'[u].status # "NONE"
                                                     /\ There(u)' => There(u)

LEMMA MembersKeep ==
  ASSUME SInv, MembersGoOn, UNCHANGED tab, ElsewhereUnchanged
  PROVE  SInv'
  <1>1. SessionsTypeOK'
    BY Rows DEF SInv, MembersGoOn, ElsewhereUnchanged, SessionsTypeOK, MemberRow
  <1>2. EndsOnly
    BY NothingEnds DEF ElsewhereUnchanged
  <1>3. QED
    BY <1>1, <1>2, CallsStay, SigningIsQuiet, NoRefresh DEF MembersGoOn, ElsewhereUnchanged

LEMMA SigningKeeps ==
  ASSUME SInv, MembersGoOn, ElsewhereUnchanged, NEW t \in Tabs, NEW s \in SigningRow,
         Signing(t, s), s.step \in {"none", "verify", "issue"},
         s.step # "none" =>
           /\ tab[t].signing.step # "none" \/ member'[UserAt(t)].status # "NONE"
           /\ BrowserOf[t] \in Undisturbed => Quiet(t) /\ ~tab[t].leaving
  PROVE  SInv'
  <1>1. tab \in [Tabs -> TabRow]
    BY Rows DEF SInv
  <1>2. PICK row : row = [tab[t] EXCEPT !.signing = s]
    OBVIOUS
  <1>3. /\ row \in TabRow /\ row.signing = s /\ row.leaving = tab[t].leaving
        /\ tab' = [tab EXCEPT ![t] = row]
    BY <1>1, <1>2 DEF TabRow, Signing
  <1>4. /\ tab' \in [Tabs -> TabRow]
        /\ tab'[t].signing = s /\ \A u \in Tabs : u # t => tab'[u].signing = tab[u].signing
        /\ \A u \in Tabs : tab'[u].leaving = tab[u].leaving
    BY <1>1, <1>3
  <1>5. SessionsTypeOK'
    <2>1. SessionsTypeOK
      BY DEF SInv
    <2>2. QED
      BY <1>4, <2>1 DEF MembersGoOn, ElsewhereUnchanged, SessionsTypeOK, MemberRow, TabRow,
                        SigningRow
  <1>6. EndsOnly
    BY NothingEnds DEF ElsewhereUnchanged
  <1>7. ASSUME NEW u \in Tabs, tab'[u].signing.step # "none"
        PROVE  /\ tab[u].signing.step # "none" \/ member'[UserAt(u)].status # "NONE"
               /\ BrowserOf[u] \in Undisturbed =>
                    /\ Quiet(u) /\ ~tab'[u].leaving
                    /\ \A c \in Calls : call'[c].tab # u
    BY <1>4, <1>7, SigningIsQuiet DEF Quiet, ElsewhereUnchanged
  <1>8. \A u \in Tabs : /\ \/ tab'[u].signing = tab[u].signing
                           \/ tab'[u].signing.step \in {"none", "verify", "issue"}
                        /\ tab'[u].leaving => tab[u].leaving
    BY <1>4
  <1>9. UNCHANGED <<cookie, flight>> /\ \A b \in Browsers : session'[b] \in {session[b], 0}
    BY DEF ElsewhereUnchanged
  <1>10. CallsHaveTabs'
    BY CallsStay DEF ElsewhereUnchanged
  <1>11. QED
    BY <1>5, <1>6, <1>7, <1>8, <1>9, <1>10, NoRefresh DEF MembersGoOn

LEMMA MemberUpdated ==
  ASSUME SInv, NEW u \in Users, NEW row \in MemberRow, member' = [member EXCEPT ![u] = row],
         member[u].status # "NONE" => /\ row.status # "NONE"
                                      /\ ~row.deleted => ~member[u].deleted
  PROVE  MembersGoOn /\ member'[u] = row
  <1>1. member \in [Users -> MemberRow]
    BY Rows DEF SInv
  <1>2. QED
    BY <1>1 DEF MembersGoOn, There

LEMMA MembershipKeeps ==
  ASSUME SInv, NEW u \in Users,
         \/ CreateMember(u) \/ VerifyEmail(u) \/ Unlock(u) \/ RemoveMember(u)
         \/ \E s \in MemberStatus : AdminUpdate(u, s)
  PROVE  SInv'
  <1>1. member[u] \in MemberRow
    BY Rows DEF SInv
  <1>2. UNCHANGED tab /\ ElsewhereUnchanged
    BY DEF CreateMember, VerifyEmail, Unlock, RemoveMember, AdminUpdate
  <1>3. CASE CreateMember(u)
    <2>1. PICK row : row = [member[u] EXCEPT !.status = "ACTIVE"]
      OBVIOUS
    <2>2. row \in MemberRow /\ row.status = "ACTIVE" /\ row.deleted = member[u].deleted
      BY <1>1, <2>1 DEF MemberRow, MemberStatus
    <2>3. member' = [member EXCEPT ![u] = row]
      BY <1>3, <2>1 DEF CreateMember
    <2>4. QED
      BY <1>2, <2>2, <2>3, MemberUpdated, MembersKeep
  <1>4. CASE VerifyEmail(u)
    <2>1. PICK row : row = [member[u] EXCEPT !.status = "ACTIVE", !.verifying = FALSE]
      OBVIOUS
    <2>2. row \in MemberRow /\ row.status = "ACTIVE" /\ row.deleted = member[u].deleted
      BY <1>1, <2>1 DEF MemberRow, MemberStatus
    <2>3. member' = [member EXCEPT ![u] = row]
      BY <1>4, <2>1 DEF VerifyEmail
    <2>4. QED
      BY <1>2, <2>2, <2>3, MemberUpdated, MembersKeep
  <1>5. CASE Unlock(u)
    <2>1. PICK row : row = [member[u] EXCEPT !.locked = FALSE]
      OBVIOUS
    <2>2. row \in MemberRow /\ row.status = member[u].status /\ row.deleted = member[u].deleted
      BY <1>1, <2>1 DEF MemberRow
    <2>3. member' = [member EXCEPT ![u] = row]
      BY <1>5, <2>1 DEF Unlock
    <2>4. QED
      BY <1>2, <2>2, <2>3, MemberUpdated, MembersKeep
  <1>6. CASE RemoveMember(u)
    <2>1. PICK row : row = [member[u] EXCEPT !.deleted = TRUE]
      OBVIOUS
    <2>2. row \in MemberRow /\ row.status = member[u].status /\ row.deleted = TRUE
      BY <1>1, <2>1 DEF MemberRow
    <2>3. member' = [member EXCEPT ![u] = row]
      BY <1>6, <2>1 DEF RemoveMember
    <2>4. QED
      BY <1>2, <2>2, <2>3, MemberUpdated, MembersKeep
  <1>7. ASSUME NEW s \in MemberStatus, AdminUpdate(u, s) PROVE SInv'
    <2>1. PICK row : row = [member[u] EXCEPT !.status = s]
      OBVIOUS
    <2>2. row \in MemberRow /\ row.status = s /\ row.deleted = member[u].deleted
      BY <1>1, <2>1 DEF MemberRow
    <2>3. member' = [member EXCEPT ![u] = row] /\ s # "NONE"
      BY <1>7, <2>1 DEF AdminUpdate
    <2>4. QED
      BY <1>2, <2>2, <2>3, MemberUpdated, MembersKeep
  <1>8. QED
    BY <1>3, <1>4, <1>5, <1>6, <1>7

RegisteredAs(r, s) == [r EXCEPT !.status = s, !.verifying = EmailVerificationRequired]
VerifiedAs(r, s)   == [r EXCEPT !.status = s, !.failures = 0, !.locked = FALSE]

LEMMA RegisteredRow ==
  ASSUME NEW r \in MemberRow, NEW s \in MemberStatus, EmailVerificationRequired \in BOOLEAN
  PROVE  /\ RegisteredAs(r, s) \in MemberRow
         /\ RegisteredAs(r, s).status = s /\ RegisteredAs(r, s).deleted = r.deleted
  BY DEF MemberRow, RegisteredAs

LEMMA VerifiedRow ==
  ASSUME NEW r \in MemberRow, NEW s \in MemberStatus
  PROVE  /\ VerifiedAs(r, s) \in MemberRow
         /\ VerifiedAs(r, s).status = s /\ VerifiedAs(r, s).deleted = r.deleted
  BY DEF MemberRow, VerifiedAs

LEMMA VerifyingRow ==
  ASSUME NEW q \in SigningRow, NEW s \in MemberStatus, NEW n \in Nat,
         NEW row, row = [q EXCEPT !.step = "verify", !.status = s, !.failures = n]
  PROVE  row \in SigningRow /\ row.step = "verify"
  BY DEF SigningRow

LEMMA NotSigningIs ==
  ASSUME MaxTokens \in Nat
  PROVE  NotSigning \in SigningRow /\ NotSigning.step = "none"
  BY DEF NotSigning, SigningRow, TokenOrNone, MemberStatus

LEMMA SignInReads ==
  ASSUME SInv, NEW t \in Tabs, LoginRead(t)
  PROVE  SInv'
  <1>1. UserAt(t) \in Users
    BY SessionsAssumption DEF UserAt
  <1>2. member \in [Users -> MemberRow]
    BY Rows DEF SInv
  <1>3. member[UserAt(t)] \in MemberRow
    BY <1>1, <1>2
  <1>4. PICK s : s = [NotSigning EXCEPT !.step = "verify", !.status = member[UserAt(t)].status,
                                        !.failures = member[UserAt(t)].failures]
    OBVIOUS
  <1>5. s \in SigningRow /\ s.step = "verify"
    <2>1. NotSigning \in SigningRow
      BY SessionsAssumption, NotSigningIs
    <2>2. member[UserAt(t)].status \in MemberStatus /\ member[UserAt(t)].failures \in Nat
      BY <1>3 DEF MemberRow
    <2>3. QED
      BY <1>4, <2>1, <2>2, VerifyingRow, ZenonT(30)
  <1>6. /\ Signing(t, s) /\ ElsewhereUnchanged /\ UNCHANGED member
        /\ ~tab[t].leaving /\ member[UserAt(t)].status # "NONE"
        /\ BrowserOf[t] \in Undisturbed => Quiet(t)
    BY <1>4 DEF LoginRead, There
  <1>7. MembersGoOn
    BY <1>2, <1>6 DEF MembersGoOn, There
  <1>8. QED
    BY <1>5, <1>6, <1>7, SigningKeeps

LEMMA SignInFails ==
  ASSUME SInv, NEW t \in Tabs, LoginFailed(t)
  PROVE  SInv'
  <1> USE SessionsAssumption
  <1> DEFINE u == UserAt(t)
  <1>1. u \in Users
    BY DEF UserAt
  <1>2. member \in [Users -> MemberRow] /\ tab \in [Tabs -> TabRow]
    BY Rows DEF SInv
  <1>3. PICK n : n = tab[t].signing.failures + 1
    OBVIOUS
  <1>4. n \in Nat
    BY <1>2, <1>3 DEF TabRow, SigningRow
  <1>5. MembersGoOn
    <2>1. CASE ~There(u)
      BY <1>2, <2>1 DEF LoginFailed, MembersGoOn, There
    <2>2. CASE There(u) /\ n >= LockoutThreshold
      <3>1. PICK row : row = [member[u] EXCEPT !.failures = 0, !.locked = TRUE]
        OBVIOUS
      <3>2. row \in MemberRow /\ row.status = member[u].status /\ row.deleted = member[u].deleted
        <4>1. PICK old \in MemberRow : old = member[u]
          BY <1>1, <1>2
        <4>2. row = [old EXCEPT !.failures = 0, !.locked = TRUE]
          BY <3>1, <4>1
        <4>3. QED
          BY <4>1, <4>2 DEF MemberRow
      <3>3. member' = [member EXCEPT ![u] = row]
        BY <1>3, <2>2, <3>1 DEF LoginFailed
      <3>4. QED
        BY <1>1, <3>2, <3>3, MemberUpdated
    <2>3. CASE There(u) /\ ~(n >= LockoutThreshold)
      <3>1. PICK row : row = [member[u] EXCEPT !.failures = n]
        OBVIOUS
      <3>2. row \in MemberRow /\ row.status = member[u].status /\ row.deleted = member[u].deleted
        BY <1>1, <1>2, <1>4, <3>1 DEF MemberRow
      <3>3. member' = [member EXCEPT ![u] = row]
        BY <1>3, <2>3, <3>1 DEF LoginFailed
      <3>4. QED
        BY <1>1, <3>2, <3>3, MemberUpdated
    <2>4. QED
      BY <2>1, <2>2, <2>3
  <1>6. Signing(t, NotSigning) /\ ElsewhereUnchanged
    BY DEF LoginFailed
  <1>7. QED
    BY <1>5, <1>6, NotSigningIs, SigningKeeps

LEMMA SignInVerifies ==
  ASSUME SInv, NEW t \in Tabs, LoginVerified(t)
  PROVE  SInv'
  <1> USE SessionsAssumption
  <1> DEFINE u == UserAt(t)
  <1>1. u \in Users
    BY DEF UserAt
  <1>2. member \in [Users -> MemberRow] /\ tab \in [Tabs -> TabRow]
    BY Rows DEF SInv
  <1>3. PICK s : s = tab[t].signing
    OBVIOUS
  <1>4. s \in SigningRow /\ s.step = "verify" /\ ElsewhereUnchanged
    BY <1>2, <1>3 DEF TabRow, LoginVerified
  <1>5. PICK refused \in BOOLEAN : refused = (\/ s.status = "SUSPENDED"
                                              \/ s.status = "PENDING" /\ EmailVerificationRequired
                                              \/ ~There(u))
    OBVIOUS
  <1>6. CASE refused
    <2>1. UNCHANGED member /\ Signing(t, NotSigning)
      BY <1>3, <1>5, <1>6 DEF LoginVerified
    <2>2. MembersGoOn
      BY <1>2, <2>1 DEF MembersGoOn, There
    <2>3. QED
      BY <1>4, <2>1, <2>2, NotSigningIs, SigningKeeps
  <1>7. CASE ~refused
    <2>1. PICK row : row = VerifiedAs(member[u], "ACTIVE")
      OBVIOUS
    <2>2. row \in MemberRow /\ row.status = "ACTIVE" /\ row.deleted = member[u].deleted
      <3>1. member[u] \in MemberRow /\ "ACTIVE" \in MemberStatus
        BY <1>1, <1>2 DEF MemberStatus
      <3>2. QED
        BY <2>1, <3>1, VerifiedRow
    <2>3. member' = [member EXCEPT ![u] = row]
      BY <1>3, <1>5, <1>7, <2>1 DEF LoginVerified, VerifiedAs
    <2>4. PICK next : next = [s EXCEPT !.step = "issue"]
      OBVIOUS
    <2>5. next \in SigningRow /\ next.step = "issue"
      BY <1>4, <2>4 DEF SigningRow
    <2>6. Signing(t, next)
      BY <1>3, <1>5, <1>7, <2>4 DEF LoginVerified
    <2>7. MembersGoOn
      BY <1>1, <2>2, <2>3, MemberUpdated
    <2>8. tab[t].signing.step # "none"
      BY <1>3, <1>4
    <2>9. QED
      BY <1>4, <2>5, <2>6, <2>7, <2>8, SigningIsQuiet, SigningKeeps
  <1>8. QED
    BY <1>6, <1>7

LEMMA RegisterKeeps ==
  ASSUME SInv, NEW t \in Tabs, Register(t)
  PROVE  SInv'
  <1> USE SessionsAssumption
  <1> DEFINE u == UserAt(t)
  <1>1. u \in Users
    BY DEF UserAt
  <1>2. member \in [Users -> MemberRow] /\ tab \in [Tabs -> TabRow]
    BY Rows DEF SInv
  <1>3. PICK status \in {"PENDING", "ACTIVE"} :
          status = IF EmailVerificationRequired THEN "PENDING" ELSE "ACTIVE"
    OBVIOUS
  <1>4. PICK row : row = RegisteredAs(member[u], status)
    OBVIOUS
  <1>5. row \in MemberRow /\ row.status # "NONE"
    <2>1. member[u] \in MemberRow /\ status \in MemberStatus /\ status # "NONE"
      BY <1>1, <1>2, <1>3 DEF MemberStatus
    <2>2. QED
      BY SessionsAssumption, <1>4, <2>1, RegisteredRow
  <1>6. /\ member' = [member EXCEPT ![u] = row] /\ member[u].status = "NONE"
        /\ ElsewhereUnchanged
    BY <1>3, <1>4 DEF Register, RegisteredAs
  <1>7. MembersGoOn /\ member'[u] = row
    BY <1>1, <1>5, <1>6, MemberUpdated
  <1>8. CASE EmailVerificationRequired
    BY <1>6, <1>7, <1>8, MembersKeep DEF Register
  <1>9. CASE ~EmailVerificationRequired
    <2>1. PICK s : s = [tab[t].signing EXCEPT !.step = "issue"]
      OBVIOUS
    <2>2. s \in SigningRow /\ s.step = "issue"
      BY <1>2, <2>1 DEF TabRow, SigningRow
    <2>3. /\ Signing(t, s) /\ ~tab[t].leaving
          /\ BrowserOf[t] \in Undisturbed => Quiet(t)
      BY <1>9, <2>1 DEF Register, Signing
    <2>4. QED
      BY <1>5, <1>6, <1>7, <2>2, <2>3, SigningKeeps
  <1>10. QED
    BY <1>8, <1>9

\* What a step that changes no page, no session and no member leaves to show.
LEMMA PagesStay ==
  ASSUME SInv, SessionsTypeOK', EndsOnly, UNCHANGED <<member, cookie, tab, flight, call, session>>
  PROVE  SInv'
  <1>1. \A u \in Users : There(u)' => There(u)
    BY DEF There
  <1>2. QED
    BY <1>1, CallsStay, SigningIsQuiet, NoRefresh

LEMMA SessionsEnd ==
  ASSUME SInv,
         \/ \E u \in Users : RemoveTokens(u) \/ RevokeAllSessions(u) \/ ResetPassword(u)
         \/ \E n \in Tokens : RevokeSession(n) \/ ExpireToken(n)
  PROVE  SInv'
  <1>1. SessionsTypeOK
    BY DEF SInv
  <1>2. ASSUME NEW S \in SUBSET Issued, EndTokens(S), UNCHANGED member
        PROVE  SInv'
    <2>1. /\ token' = Revoked(S) /\ ended' = ended \cup Families(S)
          /\ UNCHANGED <<member, cookie, tab, flight, call, session>>
      BY <1>2 DEF EndTokens
    <2>2. token' \in [Tokens -> TokenRow] /\ EndsOnly /\ ended' \subseteq Tokens
      BY <2>1, EndTokensEnds
    <2>3. SessionsTypeOK'
      BY <1>1, <2>1, <2>2 DEF SessionsTypeOK, TokenRow
    <2>4. QED
      BY <2>1, <2>2, <2>3, PagesStay
  <1>3. ASSUME NEW n \in Tokens, ExpireToken(n)
        PROVE  SInv'
    <2>1. /\ n \in Issued /\ ended' = ended \cup {token[n].family}
          /\ UNCHANGED <<member, cookie, tab, flight, call, session>>
      BY <1>3 DEF ExpireToken, Usable
    <2>2. PICK row : row = [token[n] EXCEPT !.expired = TRUE]
      OBVIOUS
    <2>3. token \in [Tokens -> TokenRow] /\ token[n] \in TokenRow
      BY <1>1, Rows
    <2>4. row \in TokenRow /\ row.user = token[n].user /\ row.family = token[n].family
          /\ row.expired = TRUE
      BY <2>2, <2>3 DEF TokenRow
    <2>5. token' = [token EXCEPT ![n] = row]
      BY <1>3, <2>2 DEF ExpireToken
    <2>6. row # NoToken
      BY <2>4 DEF NoToken
    <2>7. RowsStay
      BY <2>1, <2>3, <2>4, <2>5, <2>6 DEF RowsStay, Issued
    <2>8. ASSUME NEW m \in Issued, Usable(m), token[m].family \notin ended'
          PROVE  Usable(m)'
      <3>1. m # n
        BY <2>1, <2>8
      <3>2. token'[m] = token[m] /\ m \in Issued'
        BY <2>3, <2>5, <2>7, <3>1 DEF RowsStay, Issued
      <3>3. QED
        BY <2>8, <3>2 DEF Usable
    <2>9. EndsOnly
      BY <2>1, <2>7, <2>8 DEF EndsOnly
    <2>10. PICK k \in TokenOrNone : NumberedUpTo(k)
      BY DEF SInv, NumberedUpTo
    <2>11. token[n].family \in Tokens
      BY <2>1, <2>10, SessionsAssumption DEF NumberedUpTo, Tokens, TokenOrNone
    <2>12. token' \in [Tokens -> TokenRow] /\ ended' \subseteq Tokens
      BY <1>1, <2>1, <2>3, <2>4, <2>5, <2>11, Rows
    <2>13. SessionsTypeOK'
      BY <1>1, <2>1, <2>12 DEF SessionsTypeOK, TokenRow
    <2>14. QED
      BY <2>1, <2>9, <2>13, PagesStay
  <1>4. ASSUME NEW u \in Users, RemoveTokens(u) \/ RevokeAllSessions(u) \/ ResetPassword(u)
        PROVE  SInv'
    <2>1. Unrevoked(u) \in SUBSET Issued
      BY DEF Unrevoked, TokensOf
    <2>2. EndTokens(Unrevoked(u)) /\ UNCHANGED member
      BY <1>4 DEF RemoveTokens, RevokeAllSessions, ResetPassword
    <2>3. QED
      BY <1>2, <2>1, <2>2
  <1>5. ASSUME NEW n \in Tokens, RevokeSession(n)
        PROVE  SInv'
    <2>1. {n} \in SUBSET Issued /\ EndTokens({n}) /\ UNCHANGED member
      BY <1>5 DEF RevokeSession
    <2>2. QED
      BY <1>2, <2>1
  <1>6. QED
    BY <1>3, <1>4, <1>5

-----------------------------------------------------------------------------
(* Pages and their calls                                                   *)

\* A page changes, but for its sign-in, and calls come, go on and end.
LEMMA PagesKeep ==
  ASSUME SInv, UNCHANGED <<member, cookie, flight>>, EndsOnly,
         token' \in [Tokens -> TokenRow], ended' \subseteq Tokens,
         session' \in [Browsers -> TokenOrNone],
         \A b \in Browsers : session'[b] \in {session[b], 0},
         tab' \in [Tabs -> TabRow], call' \in [Calls -> CallRow],
         \A t \in Tabs :
           /\ tab'[t].signing = tab[t].signing
           /\ tab'[t].leaving => \/ tab[t].leaving
                                 \/ session'[BrowserOf[t]] = 0 /\ tab[t].signing.step = "none"
           /\ \A c \in Calls : call'[c].tab = t => call[c].tab = t \/ tab[t].signing.step = "none",
         CallsHaveTabs'
  PROVE  SInv'
  <1>1. SessionsTypeOK'
    <2>1. SessionsTypeOK
      BY DEF SInv
    <2>2. QED
      BY <2>1 DEF SessionsTypeOK, TokenRow, TabRow, SigningRow, CallRow
  <1>2. \A u \in Users : There(u)' => There(u)
    BY DEF There
  <1>3. ASSUME NEW t \in Tabs, tab'[t].signing.step # "none", BrowserOf[t] \in Undisturbed
        PROVE  Quiet(t) /\ ~tab'[t].leaving /\ \A c \in Calls : call'[c].tab # t
    <2>1. tab[t].signing.step # "none"
      BY <1>3
    <2>2. Quiet(t) /\ ~tab[t].leaving /\ \A c \in Calls : call[c].tab # t
      BY <1>3, <2>1, SigningIsQuiet
    <2>3. QED
      BY <2>1, <2>2
  <1>4. \A t \in Tabs : tab'[t].leaving => tab[t].leaving \/ session'[BrowserOf[t]] = 0
    OBVIOUS
  <1>5. \A t \in Tabs : /\ tab'[t].signing = tab[t].signing
                        /\ tab'[t].signing.step # "none" => tab[t].signing.step # "none"
    OBVIOUS
  <1>6. QED
    BY <1>1, <1>2, <1>3, <1>4, <1>5, NoRefresh

LEMMA TabChanges ==
  ASSUME SInv, NEW t, NEW row, tab' = [tab EXCEPT ![t] = row],
         t \in Tabs => row \in TabRow /\ row.signing = tab[t].signing
  PROVE  /\ tab' \in [Tabs -> TabRow]
         /\ \A u \in Tabs : /\ tab'[u].signing = tab[u].signing
                            /\ u # t => tab'[u].leaving = tab[u].leaving
  <1>1. tab \in [Tabs -> TabRow]
    BY Rows DEF SInv
  <1>2. QED
    BY <1>1

LEMMA CallChanges ==
  ASSUME SInv, NEW c \in Calls, NEW row \in CallRow, call' = [call EXCEPT ![c] = row]
  PROVE  /\ call' \in [Calls -> CallRow]
         /\ \A d \in Calls : call'[d] = IF d = c THEN row ELSE call[d]
  <1>1. call \in [Calls -> CallRow]
    BY Rows DEF SInv
  <1>2. QED
    BY <1>1

LEMMA TypesHold ==
  ASSUME SInv
  PROVE  /\ token \in [Tokens -> TokenRow] /\ ended \subseteq Tokens
         /\ session \in [Browsers -> TokenOrNone] /\ tab \in [Tabs -> TabRow]
         /\ call \in [Calls -> CallRow] /\ flight \in [Flights -> FlightRow]
         /\ cookie \in [Browsers -> TokenOrNone] /\ NoCall \in CallRow /\ NoCall.tab = Nobody
  BY Rows DEF SInv, NoCall, CallRow

LEMMA CallsKeep ==
  ASSUME SInv, NEW c \in Calls
  PROVE  /\ \A t \in Tabs : Send(c, t) => SInv'
         /\ Served(c) \/ RefusedAgain(c) => SInv'
  <1> USE SessionsAssumption
  <1>1. ASSUME NEW t \in Tabs, Send(c, t) PROVE SInv'
    <2>1. PICK row : row = [step |-> "sent", tab |-> t, stale |-> ~tab[t].good]
      OBVIOUS
    <2>2. tab[t].good \in BOOLEAN
      BY TypesHold DEF TabRow
    <2>3. row \in CallRow /\ row.tab = t
      BY <2>1, <2>2 DEF CallRow
    <2>4. /\ call' = [call EXCEPT ![c] = row] /\ tab[t].signing.step = "none"
          /\ UNCHANGED <<member, token, cookie, tab, flight, ended, session>>
      BY <1>1, <2>1 DEF Send
    <2>5. call' \in [Calls -> CallRow] /\ \A d \in Calls : call'[d] = IF d = c THEN row ELSE call[d]
      BY <2>3, <2>4, CallChanges
    <2>6. \A u \in Tabs : \A d \in Calls :
            call'[d].tab = u => call[d].tab = u \/ tab[u].signing.step = "none"
      BY <2>3, <2>4, <2>5
    <2>7. EndsOnly
      BY <2>4, NothingEnds
    <2>8. CallsHaveTabs'
      BY <2>3, <2>5 DEF SInv, CallsHaveTabs
    <2>9. QED
      BY <2>4, <2>5, <2>6, <2>7, <2>8, TypesHold, PagesKeep
  <1>2. CASE Served(c)
    <2>1. /\ call' = [call EXCEPT ![c] = NoCall]
          /\ UNCHANGED <<member, token, cookie, tab, flight, ended, session>>
      BY <1>2 DEF Served
    <2>2. /\ call' \in [Calls -> CallRow]
          /\ \A d \in Calls : call'[d] = IF d = c THEN NoCall ELSE call[d]
      BY <2>1, TypesHold, CallChanges
    <2>3. \A u \in Tabs : \A d \in Calls : call'[d].tab = u => call[d].tab = u
      BY <2>2, TypesHold
    <2>4. EndsOnly
      BY <2>1, NothingEnds
    <2>5. CallsHaveTabs'
      BY <2>2 DEF SInv, CallsHaveTabs, NoCall
    <2>6. QED
      BY <2>1, <2>2, <2>3, <2>4, <2>5, TypesHold, PagesKeep
  <1>3. CASE RefusedAgain(c)
    <2>1. PICK t : t = call[c].tab
      OBVIOUS
    <2>2. PICK row : row = [tab[t] EXCEPT !.good = FALSE]
      OBVIOUS
    <2>3. /\ call' = [call EXCEPT ![c] = NoCall] /\ tab' = [tab EXCEPT ![t] = row]
          /\ UNCHANGED <<member, token, cookie, flight, ended, session>>
      BY <1>3, <2>1, <2>2 DEF RefusedAgain
    <2>4. t \in Tabs => /\ row \in TabRow /\ row.signing = tab[t].signing
                        /\ row.leaving = tab[t].leaving
      <3>1. ASSUME t \in Tabs
            PROVE  row \in TabRow /\ row.signing = tab[t].signing /\ row.leaving = tab[t].leaving
        <4>1. PICK old \in TabRow : old = tab[t]
          BY <3>1, TypesHold
        <4>2. row = [old EXCEPT !.good = FALSE]
          BY <2>2, <4>1
        <4>3. QED
          BY <4>1, <4>2 DEF TabRow
      <3>2. QED
        BY <3>1
    <2>5. /\ tab' \in [Tabs -> TabRow]
          /\ \A u \in Tabs : /\ tab'[u].signing = tab[u].signing
                             /\ u # t => tab'[u].leaving = tab[u].leaving
      BY <2>3, <2>4, TabChanges
    <2>6. \A u \in Tabs : tab'[u].leaving = tab[u].leaving
      BY <2>3, <2>4, <2>5, TypesHold
    <2>7. /\ call' \in [Calls -> CallRow]
          /\ \A d \in Calls : call'[d] = IF d = c THEN NoCall ELSE call[d]
      BY <2>3, TypesHold, CallChanges
    <2>8. \A u \in Tabs : \A d \in Calls : call'[d].tab = u => call[d].tab = u
      BY <2>7, TypesHold
    <2>9. EndsOnly
      BY <2>3, NothingEnds
    <2>10. CallsHaveTabs'
      BY <2>7 DEF SInv, CallsHaveTabs, NoCall
    <2>11. QED
      BY <2>3, <2>5, <2>6, <2>7, <2>8, <2>9, <2>10, TypesHold, PagesKeep
  <1>4. QED
    BY <1>1, <1>2, <1>3

LEMMA ExpiresKeeps ==
  ASSUME SInv, NEW t \in Tabs, AccessExpires(t)
  PROVE  SInv'
  <1>1. PICK row : row = [tab[t] EXCEPT !.good = FALSE]
    OBVIOUS
  <1>2. /\ tab' = [tab EXCEPT ![t] = row]
        /\ UNCHANGED <<member, token, cookie, flight, ended, session>>
    BY <1>1 DEF AccessExpires
  <1>3. row \in TabRow /\ row.signing = tab[t].signing /\ row.leaving = tab[t].leaving
    BY <1>1, TypesHold DEF TabRow
  <1>4. /\ tab' \in [Tabs -> TabRow]
        /\ \A u \in Tabs : /\ tab'[u].signing = tab[u].signing
                           /\ u # t => tab'[u].leaving = tab[u].leaving
    BY <1>2, <1>3, TabChanges
  <1>5. \A u \in Tabs : tab'[u].leaving = tab[u].leaving
    BY <1>2, <1>3, <1>4, TypesHold
  <1>6. ASSUME NEW c \in Calls
        PROVE  call'[c] \in CallRow /\ call'[c].tab = call[c].tab /\ call'[c].step = call[c].step
    <2>1. call[c] \in CallRow
      BY TypesHold
    <2>2. call'[c] = IF call[c].tab = t THEN [call[c] EXCEPT !.stale = TRUE] ELSE call[c]
      BY DEF AccessExpires
    <2>3. QED
      BY <2>1, <2>2 DEF CallRow
  <1>7. call' \in [Calls -> CallRow]
    BY <1>6 DEF AccessExpires
  <1>8. \A u \in Tabs : \A c \in Calls : call'[c].tab = u => call[c].tab = u
    BY <1>6
  <1>9. EndsOnly
    BY <1>2, NothingEnds
  <1>10. CallsHaveTabs'
    BY <1>6 DEF SInv, CallsHaveTabs
  <1>11. QED
    BY <1>2, <1>4, <1>5, <1>7, <1>8, <1>9, <1>10, TypesHold, PagesKeep

LEMMA SignOutKeeps ==
  ASSUME SInv, NEW t \in Tabs, SignOut(t)
  PROVE  SInv'
  <1> USE SessionsAssumption
  <1>1. PICK b \in Browsers : b = BrowserOf[t]
    OBVIOUS
  <1>2. PICK n : n = cookie[b]
    OBVIOUS
  <1>3. PICK S : S = IF tab[t].good /\ Admitted(UserAt(t)) /\ n # 0 THEN {n} ELSE {}
    OBVIOUS
  <1>4. S \in SUBSET Issued
    BY <1>1, <1>2, <1>3 DEF SInv, OwnTokens, Holds
  <1>5. PICK row : row = [tab[t] EXCEPT !.leaving = TRUE]
    OBVIOUS
  <1>6. /\ token' = Revoked(S) /\ ended' = ended \cup Families(S)
        /\ session' = [session EXCEPT ![b] = 0] /\ tab' = [tab EXCEPT ![t] = row]
        /\ tab[t].signing.step = "none"
        /\ UNCHANGED <<member, cookie, flight, call>>
    BY <1>1, <1>2, <1>3, <1>5 DEF SignOut
  <1>7. token' \in [Tokens -> TokenRow] /\ EndsOnly /\ ended' \subseteq Tokens
    BY <1>4, <1>6, EndTokensEnds
  <1>8. row \in TabRow /\ row.signing = tab[t].signing
    <2>1. tab[t] \in TabRow
      BY TypesHold
    <2>2. QED
      BY <1>5, <2>1 DEF TabRow
  <1>9. /\ tab' \in [Tabs -> TabRow]
        /\ \A u \in Tabs : /\ tab'[u].signing = tab[u].signing
                           /\ u # t => tab'[u].leaving = tab[u].leaving
    BY <1>6, <1>8, TabChanges
  <1>10. /\ session' \in [Browsers -> TokenOrNone] /\ session'[b] = 0
         /\ \A c \in Browsers : session'[c] \in {session[c], 0}
    BY <1>6, TypesHold DEF TokenOrNone
  <1>11. \A u \in Tabs : tab'[u].leaving => \/ tab[u].leaving
                                            \/ /\ session'[BrowserOf[u]] = 0
                                               /\ tab[u].signing.step = "none"
    BY <1>1, <1>6, <1>9, <1>10
  <1>12. QED
    BY <1>6, <1>7, <1>9, <1>10, <1>11, CallsStay, TypesHold, PagesKeep

-----------------------------------------------------------------------------
(* Refreshes                                                               *)

\* No cookie, no flight and no token of another browser than b is touched.
OthersStay(b) ==
    \A c \in Browsers \ {b} :
      /\ Spares(c) /\ cookie'[c] = cookie[c]
      /\ \A f \in Flights : FliesIn(f, c) \/ FliesIn(f, c)' => flight'[f] = flight[f]

TabsStay(b) ==
    \A t \in Tabs :
      /\ tab'[t].signing = tab[t].signing \/ BrowserOf[t] = b
      /\ tab'[t].signing.step = tab[t].signing.step
      /\ tab'[t].leaving => tab[t].leaving
      /\ \A c \in Calls : call'[c].tab = t => call[c].tab = t

OneRefreshIn(b) ==
    \A t \in Tabs : BrowserOf[t] = b => /\ tab[t].signing.step = "none"
                                       /\ \A f, g \in FlightsOf(t)' : f = g

\* A refresh of the browser b begins, goes on or ends.
LEMMA RefreshGoesOn ==
  ASSUME SInv, SessionsTypeOK', NEW b \in Browsers,
         UNCHANGED <<member, session, ended>>,
         \E k : NumberedUpTo(k)', OwnTokens', OwnFamilies', FlightsHaveTabs', CallsHaveTabs',
         OthersStay(b), TabsStay(b),
         b \in Undisturbed => OneRefreshIn(b),
         b \in Undisturbed => Safe(b)'
  PROVE  SInv'
  <1> USE SessionsAssumption
  <1>1. MembersSignIn'
    BY DEF TabsStay, SInv, MembersSignIn, UserAt
  <1>2. ASSUME NEW t \in Tabs, BrowserOf[t] \in Undisturbed, BrowserOf[t] = b
        PROVE  CalmTab(t)'
    <2>1. tab'[t].signing.step = "none" /\ \A f, g \in FlightsOf(t)' : f = g
      BY <1>2 DEF OneRefreshIn, TabsStay
    <2>2. tab'[t].leaving => session'[BrowserOf[t]] = 0
      BY <1>2 DEF SInv, CalmTab, TabsStay
    <2>3. QED
      BY <2>1, <2>2 DEF CalmTab
  <1>3. ASSUME NEW t \in Tabs, BrowserOf[t] \in Undisturbed, BrowserOf[t] # b
        PROVE  CalmTab(t)'
    <2>1. PICK c \in Browsers : c = BrowserOf[t]
      OBVIOUS
    <2>2. /\ Spares(BrowserOf[t])
          /\ \A f \in Flights : FliesIn(f, c) \/ FliesIn(f, c)' => flight'[f] = flight[f]
      BY <1>3, <2>1 DEF OthersStay
    <2>3. FlightsOf(t)' \subseteq FlightsOf(t)
      BY <1>3, <2>1, <2>2 DEF FlightsOf, FliesIn
    <2>4. /\ tab'[t].signing = tab[t].signing
          /\ tab'[t].leaving => tab[t].leaving
          /\ \A d \in Calls : call'[d].tab = t => call[d].tab = t
      BY <1>3 DEF TabsStay
    <2>5. tab'[t].signing.step # "none" => /\ Quiet(t) /\ ~tab'[t].leaving
                                           /\ \A d \in Calls : call'[d].tab # t
      BY <1>3, <2>4, SigningIsQuiet
    <2>6. /\ tab'[t].leaving => tab[t].leaving \/ session'[BrowserOf[t]] = 0
          /\ session'[BrowserOf[t]] \in {session[BrowserOf[t]], 0}
      BY <2>4
    <2>7. CalmTab(t)
      BY <1>3 DEF SInv
    <2>8. QED
      BY <2>2, <2>3, <2>4, <2>5, <2>6, <2>7, CalmElsewhere
  <1>4. ASSUME NEW c \in Undisturbed, c # b
        PROVE  Safe(c)'
    <2>1. /\ c \in Browsers /\ Safe(c) /\ Spares(c) /\ cookie'[c] = cookie[c]
          /\ \A f \in Flights : FliesIn(f, c) \/ FliesIn(f, c)' => flight'[f] = flight[f]
      BY <1>4 DEF SInv, OthersStay
    <2>2. session'[c] \in {session[c], 0}
      OBVIOUS
    <2>3. session[c] # 0 /\ There(UserOf[c])' => There(UserOf[c])
      BY DEF There
    <2>4. QED
      BY <2>1, <2>2, <2>3, SafeElsewhere
  <1>5. QED
    BY <1>1, <1>2, <1>3, <1>4 DEF SInv

LEMMA FlightChanges ==
  ASSUME SInv, NEW f \in Flights, NEW row \in FlightRow, flight' = [flight EXCEPT ![f] = row]
  PROVE  /\ flight' \in [Flights -> FlightRow]
         /\ \A g \in Flights : flight'[g] = IF g = f THEN row ELSE flight[g]
  BY TypesHold

\* A refresh is of a browser, and alone in an undisturbed one.
LEMMA FlightIsOf ==
  ASSUME SInv, NEW f \in Flights, flight[f].step # "none", NEW b, b = BrowserOf[flight[f].tab]
  PROVE  /\ flight[f].tab \in Tabs /\ b \in Browsers /\ FliesIn(f, b)
         /\ \A c \in Browsers : FliesIn(f, c) <=> c = b
         /\ b \in Undisturbed =>
              /\ \A g \in Flights : FliesIn(g, b) => g = f
              /\ \A t \in Tabs : BrowserOf[t] = b => /\ t = flight[f].tab
                                                     /\ tab[t].signing.step = "none"
  <1> USE SessionsAssumption
  <1>1. PICK t \in Tabs : t = flight[f].tab
    BY DEF SInv, FlightsHaveTabs
  <1>2. b \in Browsers /\ FliesIn(f, b) /\ \A c \in Browsers : FliesIn(f, c) <=> c = b
    BY <1>1 DEF FliesIn
  <1>3. ASSUME b \in Undisturbed
        PROVE  /\ \A g \in Flights : FliesIn(g, b) => g = f
               /\ \A u \in Tabs : BrowserOf[u] = b => u = t /\ tab[u].signing.step = "none"
    <2>1. \A u \in Tabs : BrowserOf[u] = b => u = t
      BY <1>1, <1>3
    <2>2. CalmTab(t) /\ f \in FlightsOf(t)
      BY <1>1, <1>3 DEF SInv, FlightsOf
    <2>3. tab[t].signing.step = "none"
      BY <2>2 DEF CalmTab, Quiet
    <2>4. \A g \in Flights : FliesIn(g, b) => g = f
      BY <2>1, <2>2 DEF FliesIn, FlightsOf, CalmTab
    <2>5. QED
      BY <2>1, <2>3, <2>4
  <1>4. QED
    BY <1>1, <1>2, <1>3

\* Other browsers are spared what happens to the families of this one.
LEMMA OthersSpared ==
  ASSUME SInv, NEW b \in Browsers, NEW n, Holds(b, n), RowsStay, UNCHANGED ended,
         \A m \in Issued : token[m].family # token[n].family => token'[m] = token[m]
  PROVE  \A c \in Browsers \ {b} : Spares(c)
  <1> SUFFICES ASSUME NEW c \in Browsers \ {b} PROVE Spares(c)
    OBVIOUS
  <1>1. ASSUME NEW m, Holds(c, m), Usable(m) PROVE Usable(m)'
    <2>1. m \in Issued /\ token[m].family # token[n].family
      BY <1>1 DEF SInv, OwnTokens, OwnFamilies
    <2>2. token'[m] = token[m] /\ m \in Issued'
      BY <2>1 DEF RowsStay
    <2>3. QED
      BY <1>1, <2>2 DEF Usable
  <1>2. QED
    BY <1>1 DEF Spares, RowsStay

LEMMA RotateReadKeeps ==
  ASSUME SInv, NEW f \in Flights, RotateRead(f)
  PROVE  SInv'
  <1> USE SessionsAssumption
  <1>1. PICK n : n = flight[f].token
    OBVIOUS
  <1>2. PICK b : b = BrowserOf[flight[f].tab]
    OBVIOUS
  <1>3. flight[f].step = "read"
    BY DEF RotateRead, At
  <1>4. /\ flight[f].tab \in Tabs /\ b \in Browsers /\ FliesIn(f, b)
        /\ \A c \in Browsers : FliesIn(f, c) <=> c = b
        /\ b \in Undisturbed =>
             /\ \A g \in Flights : FliesIn(g, b) => g = f
             /\ \A t \in Tabs : BrowserOf[t] = b => /\ t = flight[f].tab
                                                    /\ tab[t].signing.step = "none"
    BY <1>2, <1>3, FlightIsOf
  <1>5. Holds(b, n) /\ n \in Issued /\ token[n].user = UserOf[b]
    <2>1. Holds(b, n)
      BY <1>1, <1>3, <1>4 DEF Holds
    <2>2. QED
      BY <1>4, <2>1 DEF SInv, OwnTokens
  <1>6. PICK ok \in BOOLEAN : ok <=> ~(member[token[n].user].deleted \/ ~Usable(n))
    OBVIOUS
  <1>7. PICK step \in {"issue", "refused"} : step = IF ok THEN "issue" ELSE "refused"
    OBVIOUS
  <1>8. PICK row : row = [flight[f] EXCEPT !.step = step]
    OBVIOUS
  <1>9. /\ row \in FlightRow /\ row.step = step /\ row.tab = flight[f].tab
        /\ row.token = n /\ row.next = flight[f].next
    BY <1>1, <1>8, TypesHold DEF FlightRow
  <1>10. flight' = [flight EXCEPT ![f] = row]
    BY <1>1, <1>6, <1>7, <1>8 DEF RotateRead, Proceed
  <1>11. /\ flight' \in [Flights -> FlightRow]
         /\ \A g \in Flights : flight'[g] = IF g = f THEN row ELSE flight[g]
    BY <1>9, <1>10, FlightChanges
  <1>12. UNCHANGED <<member, cookie, tab, call, ended, session>>
    BY DEF RotateRead
  <1>13. /\ token' \in [Tokens -> TokenRow] /\ RowsStay
         /\ \A m \in Issued : token[m].family # token[n].family => token'[m] = token[m]
         /\ Usable(n) => UNCHANGED token
    <2>1. CASE token' = token
      BY <2>1, TypesHold DEF RowsStay, Issued
    <2>2. CASE token' = Revoked(FamilyOf(n)) /\ ~Usable(n)
      <3>1. FamilyOf(n) \in SUBSET Issued /\ SessionsTypeOK
        BY DEF FamilyOf, SInv
      <3>2. /\ token' \in [Tokens -> TokenRow] /\ RowsStay
            /\ \A m \in Issued \ FamilyOf(n) : token'[m] = token[m]
        BY <2>2, <3>1, RevokedRows
      <3>3. QED
        BY <2>2, <3>2 DEF FamilyOf
    <2>3. QED
      BY <1>1, <2>1, <2>2 DEF RotateRead
  <1>14. SessionsTypeOK'
    <2>1. SessionsTypeOK
      BY DEF SInv
    <2>2. QED
      BY <1>11, <1>12, <1>13, <2>1 DEF SessionsTypeOK, FlightRow, TokenRow
  <1>15. \A c \in Browsers : \A g \in Flights : FliesIn(g, c)' <=> FliesIn(g, c)
    BY <1>9, <1>11 DEF FliesIn
  <1>16. \A c \in Browsers : \A m : Holds(c, m)' => Holds(c, m)
    BY <1>1, <1>3, <1>7, <1>9, <1>11, <1>12, <1>15 DEF Holds
  <1>17. OwnTokens' /\ OwnFamilies'
    BY <1>13, <1>16, HoldingsStay DEF SInv, RowsStay
  <1>18. FlightsHaveTabs'
    BY <1>3, <1>4, <1>7, <1>9, <1>11 DEF SInv, FlightsHaveTabs
  <1>19. \E k : NumberedUpTo(k)'
    BY <1>13, NumberedStays DEF SInv
  <1>20. OthersStay(b)
    <2>1. \A c \in Browsers \ {b} : Spares(c)
      BY <1>4, <1>5, <1>12, <1>13, OthersSpared
    <2>2. QED
      BY <1>4, <1>11, <1>12, <1>15, <2>1 DEF OthersStay
  <1>21. b \in Undisturbed => OneRefreshIn(b)
    BY <1>4, <1>15 DEF OneRefreshIn, FlightsOf, FliesIn
  <1>22. ASSUME b \in Undisturbed PROVE Safe(b)'
    <2> SUFFICES ASSUME SignedIn(b)'
                 PROVE  /\ \A g \in Flights : FliesIn(g, b)' => FlightSafe(b, g)'
                        /\ Keeps(b, cookie[b])'
      BY DEF Safe
    <2>1. SignedIn(b)
      BY <1>12 DEF SignedIn, There
    <2>2. Safe(b)
      BY <1>22 DEF SInv
    <2>3. FlightSafe(b, f) /\ Keeps(b, cookie[b])
      BY <1>3, <1>4, <1>22, <2>1, <2>2 DEF Safe
    <2>4. n = cookie[b] /\ Usable(n)
      BY <1>1, <1>3, <2>3 DEF FlightSafe, Keeps
    <2>5. ok /\ UNCHANGED <<token, cookie, session>>
      BY <1>5, <1>6, <1>12, <1>13, <2>1, <2>4 DEF SignedIn, There
    <2>6. Keeps(b, cookie[b])'
      BY <2>3, <2>5 DEF Keeps, Usable, Issued
    <2>7. FlightSafe(b, f)'
      BY <1>7, <1>9, <1>11, <2>4, <2>5 DEF FlightSafe
    <2>8. QED
      BY <1>4, <1>15, <1>22, <2>6, <2>7
  <1>23. TabsStay(b)
    BY <1>12 DEF TabsStay
  <1>24. QED
    BY <1>23, <1>4, <1>12, <1>14, <1>17, <1>18, <1>19, <1>20, <1>21, <1>22, CallsStay, RefreshGoesOn

LEMMA RotateReplaceKeeps ==
  ASSUME SInv, NEW f \in Flights, RotateReplace(f)
  PROVE  SInv'
  <1> USE SessionsAssumption
  <1>1. PICK n : n = flight[f].token
    OBVIOUS
  <1>2. PICK b : b = BrowserOf[flight[f].tab]
    OBVIOUS
  <1>3. flight[f].step = "replace"
    BY DEF RotateReplace, At
  <1>4. /\ flight[f].tab \in Tabs /\ b \in Browsers /\ FliesIn(f, b)
        /\ \A c \in Browsers : FliesIn(f, c) <=> c = b
        /\ b \in Undisturbed =>
             /\ \A g \in Flights : FliesIn(g, b) => g = f
             /\ \A t \in Tabs : BrowserOf[t] = b => /\ t = flight[f].tab
                                                    /\ tab[t].signing.step = "none"
    BY <1>2, <1>3, FlightIsOf
  <1>5. Holds(b, n) /\ n \in Issued
    <2>1. Holds(b, n)
      BY <1>1, <1>3, <1>4 DEF Holds
    <2>2. QED
      BY <1>4, <2>1 DEF SInv, OwnTokens
  <1>6. PICK row : row = [flight[f] EXCEPT !.step = "answer"]
    OBVIOUS
  <1>7. /\ row \in FlightRow /\ row.step = "answer" /\ row.tab = flight[f].tab
        /\ row.token = n /\ row.next = flight[f].next
    BY <1>1, <1>6, TypesHold DEF FlightRow
  <1>8. flight' = [flight EXCEPT ![f] = row] /\ UNCHANGED <<member, cookie, tab, call, ended, session>>
    BY <1>6 DEF RotateReplace, Proceed
  <1>9. /\ flight' \in [Flights -> FlightRow]
        /\ \A g \in Flights : flight'[g] = IF g = f THEN row ELSE flight[g]
    BY <1>7, <1>8, FlightChanges
  <1>10. PICK old : old = [token[n] EXCEPT !.revoked = TRUE]
    OBVIOUS
  <1>11. /\ old \in TokenRow /\ old.user = token[n].user /\ old.family = token[n].family
         /\ old # NoToken /\ token' = [token EXCEPT ![n] = old]
    <2>1. token[n] \in TokenRow
      BY <1>5, TypesHold DEF Issued
    <2>2. /\ old \in TokenRow /\ old.user = token[n].user /\ old.family = token[n].family
          /\ old.revoked = TRUE
      BY <1>10, <2>1 DEF TokenRow
    <2>3. token' = [token EXCEPT ![n] = old]
      BY <1>1, <1>10 DEF RotateReplace
    <2>4. QED
      BY <2>2, <2>3 DEF NoToken
  <1>12. /\ token' \in [Tokens -> TokenRow]
         /\ \A m \in Tokens : token'[m] = IF m = n THEN old ELSE token[m]
    BY <1>5, <1>11, TypesHold DEF Issued
  <1>13. RowsStay
    BY <1>5, <1>11, <1>12 DEF RowsStay, Issued
  <1>14. SessionsTypeOK'
    <2>1. SessionsTypeOK
      BY DEF SInv
    <2>2. QED
      BY <1>8, <1>9, <1>12, <2>1 DEF SessionsTypeOK, FlightRow, TokenRow
  <1>15. \A c \in Browsers : \A g \in Flights : FliesIn(g, c)' <=> FliesIn(g, c)
    BY <1>7, <1>9 DEF FliesIn
  <1>16. \A c \in Browsers : \A m : Holds(c, m)' => Holds(c, m)
    BY <1>1, <1>3, <1>7, <1>8, <1>9, <1>15 DEF Holds
  <1>17. OwnTokens' /\ OwnFamilies'
    BY <1>13, <1>16, HoldingsStay DEF SInv, RowsStay
  <1>18. FlightsHaveTabs'
    BY <1>3, <1>4, <1>7, <1>9 DEF SInv, FlightsHaveTabs
  <1>19. \E k : NumberedUpTo(k)'
    BY <1>13, NumberedStays DEF SInv
  <1>20. OthersStay(b)
    <2>1. \A m \in Issued : token[m].family # token[n].family => token'[m] = token[m]
      BY <1>12 DEF Issued
    <2>2. \A c \in Browsers \ {b} : Spares(c)
      BY <1>4, <1>5, <1>8, <1>13, <2>1, OthersSpared
    <2>3. QED
      BY <1>4, <1>8, <1>9, <1>15, <2>2 DEF OthersStay
  <1>21. b \in Undisturbed => OneRefreshIn(b)
    BY <1>4, <1>15 DEF OneRefreshIn, FlightsOf, FliesIn
  <1>22. ASSUME b \in Undisturbed PROVE Safe(b)'
    <2> SUFFICES ASSUME SignedIn(b)'
                 PROVE  /\ \A g \in Flights : FliesIn(g, b)' => FlightSafe(b, g)'
                        /\ FliesIn(f, b)' /\ flight'[f].step = "answer"
      BY DEF Safe
    <2>1. SignedIn(b)
      BY <1>8 DEF SignedIn, There
    <2>2. Safe(b)
      BY <1>22 DEF SInv
    <2>3. FlightSafe(b, f)
      BY <1>4, <2>1, <2>2 DEF Safe
    <2>4. PICK next : next = flight[f].next
      OBVIOUS
    <2>5. Keeps(b, next) /\ next # n
      BY <1>1, <1>3, <2>3, <2>4 DEF FlightSafe
    <2>6. next \in Issued /\ token'[next] = token[next]
      BY <1>12, <2>5 DEF Keeps, Usable, Issued
    <2>7. Keeps(b, next)'
      BY <1>8, <1>13, <2>5, <2>6 DEF Keeps, Usable, RowsStay
    <2>8. flight'[f].next = next /\ flight'[f].step = "answer"
      BY <1>7, <1>9, <2>4
    <2>9. FlightSafe(b, f)'
      BY <2>7, <2>8 DEF FlightSafe
    <2>10. QED
      BY <1>4, <1>15, <1>22, <2>8, <2>9
  <1>23. TabsStay(b)
    BY <1>8 DEF TabsStay
  <1>24. QED
    BY <1>23, <1>4, <1>8, <1>14, <1>17, <1>18, <1>19, <1>20, <1>21, <1>22, CallsStay, RefreshGoesOn

-----------------------------------------------------------------------------
(* New tokens                                                              *)

NewToken(n, u, family) ==
    [NoToken EXCEPT !.user = u, !.family = IF family = 0 THEN n ELSE family]

LEMMA TokenIssued ==
  ASSUME SInv, NEW n, NEW u \in Users, NEW family, IssueToken(n, u, family),
         family = 0 \/ \E m \in Issued : family = token[m].family
  PROVE  /\ token' \in [Tokens -> TokenRow] /\ n \in Tokens /\ n \notin Issued
         /\ Issued' = Issued \cup {n} /\ token'[n] = NewToken(n, u, family)
         /\ \A m \in Issued : token'[m] = token[m] /\ token[m].family # n
         /\ Usable(n)' /\ \E k : NumberedUpTo(k)'
  <1> USE SessionsAssumption
  <1>1. PICK k \in TokenOrNone : NumberedUpTo(k)
    BY DEF SInv, NumberedUpTo
  <1>2. Issued = 1..k
    BY <1>1 DEF NumberedUpTo, Issued, Tokens, TokenOrNone
  <1>3. Cardinality(1..k) = k
    <2>1. 1 \in Int /\ k \in Int /\ k >= 0
      BY <1>1 DEF TokenOrNone
    <2>2. Cardinality(1..k) = IF 1 > k THEN 0 ELSE k - 1 + 1
      BY <2>1, FS_Interval
    <2>3. QED
      BY <2>1, <2>2
  <1>4. n = k + 1 /\ n \in Tokens /\ n \notin Issued
    BY <1>1, <1>2, <1>3 DEF IssueToken, TokenOrNone, Tokens
  <1>5. PICK row : row = NewToken(n, u, family)
    OBVIOUS
  <1>6. PICK kin : kin = IF family = 0 THEN n ELSE family
    OBVIOUS
  <1>7. kin \in 1..n
    <2>1. n \in 1..n /\ 1..k \subseteq 1..n
      BY <1>1, <1>4 DEF TokenOrNone
    <2>2. family = 0 \/ family \in 1..k
      BY <1>1 DEF NumberedUpTo
    <2>3. QED
      BY <1>6, <2>1, <2>2
  <1>8. row = [NoToken EXCEPT !.user = u, !.family = kin]
    BY <1>5, <1>6 DEF NewToken
  <1>9. token' = [token EXCEPT ![n] = row]
    BY <1>5 DEF IssueToken, NewToken
  <1>10. row \in TokenRow /\ row.user = u /\ row.family = kin /\ row # NoToken
         /\ ~row.revoked /\ ~row.expired
    <2>1. PICK none \in TokenRow : none = NoToken
      <3>1. 0 \in TokenOrNone
        BY DEF TokenOrNone
      <3>2. NoToken \in TokenRow
        BY <3>1 DEF TokenRow, NoToken
      <3>3. QED
        BY <3>2
    <2>2. none.user = Nobody /\ none.revoked = FALSE /\ none.expired = FALSE
      BY <2>1 DEF NoToken
    <2>3. kin \in TokenOrNone
      BY <1>4, <1>7 DEF Tokens, TokenOrNone
    <2>4. row = [none EXCEPT !.user = u, !.family = kin]
      BY <1>8, <2>1
    <2>5. row \in TokenRow /\ row.user = u /\ row.family = kin
          /\ row.revoked = FALSE /\ row.expired = FALSE
      BY <2>2, <2>3, <2>4 DEF TokenRow
    <2>6. QED
      BY <2>1, <2>2, <2>5
  <1>11. /\ token' \in [Tokens -> TokenRow]
         /\ \A m \in Tokens : token'[m] = IF m = n THEN row ELSE token[m]
    BY <1>4, <1>9, <1>10, TypesHold
  <1>12. Issued' = Issued \cup {n}
    BY <1>4, <1>10, <1>11 DEF Issued
  <1>13. \A m \in Issued : token'[m] = token[m] /\ token[m].family # n
    BY <1>1, <1>4, <1>11 DEF Issued, NumberedUpTo, TokenOrNone
  <1>14. NumberedUpTo(n)'
    <2>1. \A m \in Tokens : m \in Issued' <=> m <= n
      BY <1>1, <1>2, <1>4, <1>12 DEF Tokens, TokenOrNone
    <2>2. \A m \in Issued' : token'[m].user \in Users /\ token'[m].family \in 1..n
      BY <1>1, <1>4, <1>7, <1>10, <1>11, <1>12, <1>13 DEF NumberedUpTo, TokenOrNone
    <2>3. n \in TokenOrNone
      BY <1>4 DEF Tokens, TokenOrNone
    <2>4. QED
      BY <2>1, <2>2, <2>3 DEF NumberedUpTo, Tokens, TokenOrNone
  <1>15. Usable(n)'
    BY <1>4, <1>10, <1>11, <1>12 DEF Usable
  <1>16. QED
    BY <1>4, <1>5, <1>11, <1>12, <1>13, <1>14, <1>15

LEMMA HoldingsGrow ==
  ASSUME OwnTokens, OwnFamilies, NEW b \in Browsers, NEW n \in Issued', Issued \subseteq Issued',
         \A m \in Issued : token'[m] = token[m],
         token'[n].user = UserOf[b],
         \A c \in Browsers : \A m : Holds(c, m)' => Holds(c, m) \/ (c = b /\ m = n),
         \A c \in Browsers : \A m : c # b /\ Holds(c, m) => token[m].family # token'[n].family
  PROVE  OwnTokens' /\ OwnFamilies'
  BY SMTT(30) DEF OwnTokens, OwnFamilies

LEMMA IssueSpares ==
  ASSUME Issued \subseteq Issued', UNCHANGED ended, \A m \in Issued : token'[m] = token[m]
  PROVE  \A b : Spares(b)
  BY DEF Spares, Usable

LEMMA RotateIssueKeeps ==
  ASSUME SInv, NEW f \in Flights, NEW n \in Tokens, RotateIssue(f, n)
  PROVE  SInv'
  <1> USE SessionsAssumption
  <1>1. PICK old : old = flight[f].token
    OBVIOUS
  <1>2. PICK b : b = BrowserOf[flight[f].tab]
    OBVIOUS
  <1>3. flight[f].step = "issue"
    BY DEF RotateIssue, At
  <1>4. /\ flight[f].tab \in Tabs /\ b \in Browsers /\ FliesIn(f, b)
        /\ \A c \in Browsers : FliesIn(f, c) <=> c = b
        /\ b \in Undisturbed =>
             /\ \A g \in Flights : FliesIn(g, b) => g = f
             /\ \A t \in Tabs : BrowserOf[t] = b => /\ t = flight[f].tab
                                                    /\ tab[t].signing.step = "none"
    BY <1>2, <1>3, FlightIsOf
  <1>5. Holds(b, old) /\ old \in Issued /\ token[old].user = UserOf[b]
    <2>1. Holds(b, old)
      BY <1>1, <1>3, <1>4 DEF Holds
    <2>2. QED
      BY <1>4, <2>1 DEF SInv, OwnTokens
  <1>6. PICK family \in TokenOrNone : family = token[old].family
    BY <1>5, TypesHold DEF TokenRow, Issued
  <1>7. IssueToken(n, UserOf[b], family) /\ UNCHANGED <<member, cookie, tab, call, ended, session>>
    BY <1>1, <1>5, <1>6 DEF RotateIssue
  <1>8. UserOf[b] \in Users /\ \E m \in Issued : family = token[m].family
    BY <1>4, <1>5, <1>6
  <1>9. /\ token' \in [Tokens -> TokenRow] /\ n \in Tokens /\ n \notin Issued
        /\ Issued' = Issued \cup {n} /\ token'[n] = NewToken(n, UserOf[b], family)
        /\ \A m \in Issued : token'[m] = token[m] /\ token[m].family # n
        /\ Usable(n)' /\ \E k : NumberedUpTo(k)'
    BY <1>7, <1>8, TokenIssued
  <1>10. token'[n].user = UserOf[b] /\ token'[n].family = family
    <2>1. family # 0
      BY <1>5, <1>6 DEF SInv, NumberedUpTo, TokenOrNone
    <2>2. NoToken \in TokenRow
      <3>1. 0 \in TokenOrNone
        BY DEF TokenOrNone
      <3>2. QED
        BY <3>1 DEF TokenRow, NoToken
    <2>3. QED
      BY <1>8, <1>9, <2>1, <2>2 DEF NewToken, TokenRow
  <1>11. PICK row : row = [flight[f] EXCEPT !.step = "replace", !.next = n]
    OBVIOUS
  <1>12. n \in TokenOrNone
    BY DEF Tokens, TokenOrNone
  <1>13. /\ row \in FlightRow /\ row.step = "replace" /\ row.tab = flight[f].tab
         /\ row.token = old /\ row.next = n
    <2>1. flight[f] \in FlightRow
      BY TypesHold
    <2>2. QED
      BY <1>1, <1>11, <1>12, <2>1 DEF FlightRow
  <1>14. flight' = [flight EXCEPT ![f] = row]
    BY <1>11 DEF RotateIssue
  <1>15. /\ flight' \in [Flights -> FlightRow]
         /\ \A g \in Flights : flight'[g] = IF g = f THEN row ELSE flight[g]
    BY <1>13, <1>14, FlightChanges
  <1>16. SessionsTypeOK'
    <2>1. SessionsTypeOK
      BY DEF SInv
    <2>2. QED
      BY <1>7, <1>9, <1>15, <2>1 DEF SessionsTypeOK, FlightRow, TokenRow
  <1>17. \A c \in Browsers : \A g \in Flights : FliesIn(g, c)' <=> FliesIn(g, c)
    BY <1>13, <1>15 DEF FliesIn
  <1>18. \A c \in Browsers : \A m : Holds(c, m)' => Holds(c, m) \/ (c = b /\ m = n)
    BY <1>1, <1>3, <1>4, <1>7, <1>13, <1>15, <1>17 DEF Holds
  <1>19. OwnTokens' /\ OwnFamilies'
    <2>1. \A c \in Browsers : \A m : c # b /\ Holds(c, m) => token[m].family # token'[n].family
      BY <1>4, <1>5, <1>6, <1>10 DEF SInv, OwnFamilies
    <2>2. n \in Issued' /\ Issued \subseteq Issued' /\ \A m \in Issued : token'[m] = token[m]
      BY <1>9
    <2>3. QED
      BY <1>4, <1>10, <1>18, <2>1, <2>2, HoldingsGrow DEF SInv
  <1>20. FlightsHaveTabs'
    BY <1>3, <1>4, <1>13, <1>15 DEF SInv, FlightsHaveTabs
  <1>21. OthersStay(b)
    <2>1. \A c : Spares(c)
      BY <1>7, <1>9, IssueSpares
    <2>2. QED
      BY <1>4, <1>7, <1>15, <1>17, <2>1 DEF OthersStay
  <1>22. b \in Undisturbed => OneRefreshIn(b)
    BY <1>4, <1>17 DEF OneRefreshIn, FlightsOf, FliesIn
  <1>23. ASSUME b \in Undisturbed PROVE Safe(b)'
    <2> SUFFICES ASSUME SignedIn(b)'
                 PROVE  /\ \A g \in Flights : FliesIn(g, b)' => FlightSafe(b, g)'
                        /\ Keeps(b, cookie[b])'
      BY DEF Safe
    <2>1. SignedIn(b) /\ Safe(b)
      BY <1>7, <1>23 DEF SInv, SignedIn, There
    <2>2. FlightSafe(b, f) /\ Keeps(b, cookie[b])
      BY <1>3, <1>4, <1>23, <2>1 DEF Safe
    <2>3. old = cookie[b] /\ Usable(old) /\ family = session[b]
      BY <1>1, <1>3, <1>6, <2>2 DEF FlightSafe, Keeps
    <2>4. Keeps(b, cookie[b])'
      BY <1>7, <1>9, <2>2 DEF Keeps, Usable
    <2>5. Keeps(b, n)' /\ n # old
      BY <1>5, <1>7, <1>9, <1>10, <2>3 DEF Keeps
    <2>6. flight'[f].step = "replace" /\ flight'[f].token = old /\ flight'[f].next = n
      BY <1>13, <1>15
    <2>7. FlightSafe(b, f)'
      BY <1>7, <2>3, <2>5, <2>6 DEF FlightSafe
    <2>8. QED
      BY <1>4, <1>17, <1>23, <2>4, <2>7
  <1>24. TabsStay(b)
    BY <1>7 DEF TabsStay
  <1>25. QED
    BY <1>24, <1>4, <1>7, <1>9, <1>16, <1>19, <1>20, <1>21, <1>22, <1>23, CallsStay, RefreshGoesOn

-----------------------------------------------------------------------------
(* The end of a refresh                                                    *)

LEMMA LandedChanges ==
  ASSUME SInv, NEW f \in Flights, flight[f].tab \in Tabs, NEW good \in BOOLEAN, Landed(f, good)
  PROVE  /\ flight' \in [Flights -> FlightRow]
         /\ \A g \in Flights : flight'[g] = IF g = f THEN NoFlight ELSE flight[g]
         /\ tab' \in [Tabs -> TabRow]
         /\ \A u \in Tabs : tab'[u].signing = tab[u].signing /\ tab'[u].leaving = tab[u].leaving
         /\ call' \in [Calls -> CallRow]
         /\ \A u \in Tabs : \A c \in Calls : call'[c].tab = u => call[c].tab = u
         /\ CallsHaveTabs'
         /\ UNCHANGED <<member, token, ended, session>>
  <1> USE SessionsAssumption
  <1>1. PICK t \in Tabs : t = flight[f].tab
    OBVIOUS
  <1>2. NoFlight \in FlightRow
    <2>1. 0 \in TokenOrNone
      BY DEF TokenOrNone
    <2>2. QED
      BY <2>1 DEF NoFlight, FlightRow
  <1>3. flight' = [flight EXCEPT ![f] = NoFlight] /\ UNCHANGED <<member, token, ended, session>>
    BY DEF Landed
  <1>4. /\ flight' \in [Flights -> FlightRow]
        /\ \A g \in Flights : flight'[g] = IF g = f THEN NoFlight ELSE flight[g]
    BY <1>2, <1>3, FlightChanges
  <1>5. PICK row : row = [tab[t] EXCEPT !.good = good]
    OBVIOUS
  <1>6. row \in TabRow /\ row.signing = tab[t].signing /\ row.leaving = tab[t].leaving
    <2>1. tab[t] \in TabRow
      BY TypesHold
    <2>2. QED
      BY <1>5, <2>1 DEF TabRow
  <1>7. tab' = [tab EXCEPT ![t] = row]
    BY <1>1, <1>5 DEF Landed
  <1>8. /\ tab' \in [Tabs -> TabRow]
        /\ \A u \in Tabs : /\ tab'[u].signing = tab[u].signing
                           /\ u # t => tab'[u].leaving = tab[u].leaving
    BY <1>6, <1>7, TabChanges
  <1>9. tab'[t].leaving = tab[t].leaving
    BY <1>6, <1>7, TypesHold
  <1>10. ASSUME NEW c \in Calls
         PROVE  call'[c] \in CallRow /\ \A u \in Tabs : call'[c].tab = u => call[c].tab = u
    <2>1. PICK again : again = [call[c] EXCEPT !.step = "again", !.stale = FALSE]
      OBVIOUS
    <2>2. PICK r \in CallRow : r = call[c]
      BY TypesHold
    <2>3. again \in CallRow /\ again.tab = call[c].tab
      <3>1. again = [r EXCEPT !.step = "again", !.stale = FALSE]
        BY <2>1, <2>2
      <3>2. QED
        BY <2>2, <3>1 DEF CallRow
    <2>4. call'[c] \in {again, NoCall, call[c]}
      BY <2>1 DEF Landed
    <2>5. QED
      BY <2>2, <2>3, <2>4, TypesHold
  <1>11. call' \in [Calls -> CallRow]
    BY <1>10 DEF Landed
  <1>12. CallsHaveTabs'
    <2>1. ASSUME NEW c \in Calls, call'[c].step # "none" PROVE call'[c].tab \in Tabs
      <3>1. PICK r \in CallRow : r = call[c]
        BY TypesHold
      <3>2. r.step # "none" => r.tab \in Tabs
        BY <3>1 DEF SInv, CallsHaveTabs
      <3>3. PICK again : again = [r EXCEPT !.step = "again", !.stale = FALSE]
        OBVIOUS
      <3>4. again.tab = r.tab
        BY <3>1, <3>3 DEF CallRow
      <3>5. \/ call'[c] = again /\ r.tab = t
            \/ call'[c] \in {NoCall, r}
        BY <1>1, <3>1, <3>3 DEF Landed
      <3>6. QED
        BY <1>1, <2>1, <3>1, <3>2, <3>4, <3>5 DEF NoCall
    <2>2. QED
      BY <2>1 DEF CallsHaveTabs
  <1>13. QED
    BY <1>3, <1>4, <1>8, <1>9, <1>10, <1>11, <1>12

LEMMA LandingKeeps ==
  ASSUME SInv, NEW f \in Flights, flight[f].step # "none", NEW good \in BOOLEAN, Landed(f, good),
         NEW b, b = BrowserOf[flight[f].tab], NEW n, cookie' = [cookie EXCEPT ![b] = n],
         \/ n \in {0, cookie[b]}
         \/ flight[f].step = "answer" /\ n = flight[f].next,
         b \in Undisturbed => Safe(b)'
  PROVE  SInv'
  <1> USE SessionsAssumption
  <1>1. /\ flight[f].tab \in Tabs /\ b \in Browsers /\ FliesIn(f, b)
        /\ \A c \in Browsers : FliesIn(f, c) <=> c = b
        /\ b \in Undisturbed =>
             /\ \A g \in Flights : FliesIn(g, b) => g = f
             /\ \A t \in Tabs : BrowserOf[t] = b => /\ t = flight[f].tab
                                                    /\ tab[t].signing.step = "none"
    BY FlightIsOf
  <1>2. /\ flight' \in [Flights -> FlightRow]
        /\ \A g \in Flights : flight'[g] = IF g = f THEN NoFlight ELSE flight[g]
        /\ tab' \in [Tabs -> TabRow]
        /\ \A u \in Tabs : tab'[u].signing = tab[u].signing /\ tab'[u].leaving = tab[u].leaving
        /\ call' \in [Calls -> CallRow]
        /\ \A u \in Tabs : \A c \in Calls : call'[c].tab = u => call[c].tab = u
        /\ CallsHaveTabs'
        /\ UNCHANGED <<member, token, ended, session>>
    BY <1>1, LandedChanges
  <1>3. NoFlight.tab = Nobody /\ NoFlight.step = "none" /\ Nobody \notin Tabs
    BY DEF NoFlight
  <1>4. /\ cookie' \in [Browsers -> TokenOrNone]
        /\ \A c \in Browsers : cookie'[c] = IF c = b THEN n ELSE cookie[c]
    <2>1. n \in TokenOrNone
      <3>1. flight[f] \in FlightRow /\ cookie[b] \in TokenOrNone /\ 0 \in TokenOrNone
        BY <1>1, TypesHold DEF TokenOrNone
      <3>2. QED
        BY <3>1 DEF FlightRow
    <2>2. QED
      BY <1>1, <2>1, TypesHold
  <1>5. SessionsTypeOK'
    <2>1. SessionsTypeOK
      BY DEF SInv
    <2>2. QED
      BY <1>2, <1>4, <2>1 DEF SessionsTypeOK, FlightRow, TabRow, SigningRow, CallRow
  <1>6. \A c \in Browsers : \A g \in Flights : FliesIn(g, c)' <=> FliesIn(g, c) /\ g # f
    BY <1>2, <1>3 DEF FliesIn
  <1>7. \A c \in Browsers : \A m : Holds(c, m)' => Holds(c, m)
    <2>1. ASSUME NEW c \in Browsers, NEW m, m = cookie'[c], m # 0 PROVE Holds(c, m)
      BY <1>1, <1>4, <2>1 DEF Holds
    <2>2. ASSUME NEW c \in Browsers, NEW m, Holds(c, m)', m # cookie'[c] PROVE Holds(c, m)
      BY <1>2, <1>6, <2>2 DEF Holds
    <2>3. QED
      BY <1>2, <1>6, <2>1, <2>2 DEF Holds
  <1>8. RowsStay /\ EndsOnly
    BY <1>2, NothingEnds DEF EndsOnly
  <1>9. OwnTokens' /\ OwnFamilies'
    BY <1>7, <1>8, HoldingsStay DEF SInv, RowsStay
  <1>10. FlightsHaveTabs'
    BY <1>2, <1>3 DEF SInv, FlightsHaveTabs
  <1>11. \E k : NumberedUpTo(k)'
    BY <1>8, NumberedStays DEF SInv
  <1>12. OthersStay(b)
    BY <1>1, <1>2, <1>4, <1>6, <1>8, EndsSpares DEF OthersStay
  <1>13. b \in Undisturbed => OneRefreshIn(b)
    BY <1>1, <1>6 DEF OneRefreshIn, FlightsOf, FliesIn
  <1>14. TabsStay(b)
    BY <1>2 DEF TabsStay
  <1>15. QED
    BY <1>14, <1>1, <1>2, <1>5, <1>9, <1>10, <1>11, <1>12, <1>13, RefreshGoesOn

LEMMA RefreshEnds ==
  ASSUME SInv, NEW f \in Flights, RefreshAnswered(f) \/ RefreshRefused(f) \/ RefreshLost(f)
  PROVE  SInv'
  <1> USE SessionsAssumption
  <1>1. PICK b : b = BrowserOf[flight[f].tab]
    OBVIOUS
  <1>2. flight[f].step # "none"
    BY DEF RefreshAnswered, RefreshRefused, RefreshLost, At, Idle
  <1>3. /\ flight[f].tab \in Tabs /\ b \in Browsers /\ FliesIn(f, b)
        /\ \A c \in Browsers : FliesIn(f, c) <=> c = b
        /\ b \in Undisturbed =>
             /\ \A g \in Flights : FliesIn(g, b) => g = f
             /\ \A t \in Tabs : BrowserOf[t] = b => /\ t = flight[f].tab
                                                    /\ tab[t].signing.step = "none"
    BY <1>1, <1>2, FlightIsOf
  <1>4. CASE RefreshAnswered(f)
    <2>1. PICK n : n = flight[f].next
      OBVIOUS
    <2>2. /\ flight[f].step = "answer" /\ Landed(f, TRUE)
          /\ cookie' = [cookie EXCEPT ![b] = n]
      BY <1>1, <1>4, <2>1 DEF RefreshAnswered, At
    <2>3. /\ \A g \in Flights : flight'[g] = IF g = f THEN NoFlight ELSE flight[g]
          /\ UNCHANGED <<member, token, ended, session>>
      BY <1>3, <2>2, LandedChanges
    <2>4. ASSUME b \in Undisturbed PROVE Safe(b)'
      <3> SUFFICES ASSUME SignedIn(b)'
                   PROVE  /\ \A g \in Flights : ~FliesIn(g, b)'
                          /\ Keeps(b, cookie[b])'
        BY DEF Safe
      <3>1. SignedIn(b) /\ Safe(b)
        BY <2>3, <2>4 DEF SInv, SignedIn, There
      <3>2. Keeps(b, n)
        BY <1>3, <2>1, <2>2, <3>1 DEF Safe, FlightSafe
      <3>3. Keeps(b, n)' /\ cookie'[b] = n
        BY <1>3, <2>2, <2>3, <3>2, TypesHold DEF Keeps, Usable, Issued
      <3>4. NoFlight.tab = Nobody /\ Nobody \notin Tabs
        BY DEF NoFlight
      <3>5. \A g \in Flights : ~FliesIn(g, b)'
        BY <1>3, <2>3, <2>4, <3>4 DEF FliesIn
      <3>6. QED
        BY <3>3, <3>5
    <2>5. QED
      BY <1>1, <1>2, <2>1, <2>2, <2>4, LandingKeeps
  <1>5. CASE RefreshRefused(f)
    <2>1. /\ flight[f].step = "refused" /\ Landed(f, FALSE)
          /\ cookie' = [cookie EXCEPT ![b] = 0]
      BY <1>1, <1>5 DEF RefreshRefused, At
    <2>2. UNCHANGED <<member, ended, session>>
      BY <2>1 DEF Landed
    <2>3. ASSUME b \in Undisturbed PROVE Safe(b)'
      <3>1. ~SignedIn(b)
        BY <1>3, <2>1, <2>3 DEF SInv, Safe, FlightSafe
      <3>2. ~SignedIn(b)'
        BY <2>2, <3>1 DEF SignedIn, There
      <3>3. QED
        BY <3>2 DEF Safe
    <2>4. QED
      BY <1>1, <1>2, <2>1, <2>3, LandingKeeps
  <1>6. CASE RefreshLost(f)
    <2>1. Landed(f, FALSE) /\ UNCHANGED cookie /\ b \notin Undisturbed
      BY <1>1, <1>6 DEF RefreshLost
    <2>2. PICK n : n = cookie[b]
      OBVIOUS
    <2>3. cookie' = [cookie EXCEPT ![b] = n]
      BY <1>3, <2>1, <2>2, TypesHold
    <2>4. QED
      BY <1>1, <1>2, <2>1, <2>2, <2>3, LandingKeeps
  <1>7. QED
    BY <1>4, <1>5, <1>6

-----------------------------------------------------------------------------
(* The start of a refresh                                                  *)

LEMMA TakeoffKeeps ==
  ASSUME SInv, NEW f \in Flights, NEW t \in Tabs, Idle(f), Takeoff(f, t),
         UNCHANGED <<member, token, cookie, ended, session>>,
         tab' \in [Tabs -> TabRow], call' \in [Calls -> CallRow], CallsHaveTabs',
         TabsStay(BrowserOf[t]),
         \A u \in Tabs : \/ tab'[u].signing = tab[u].signing
                         \/ tab'[u].signing.step = "none",
         BrowserOf[t] \in Undisturbed => FlightsOf(t) = {} /\ tab[t].signing.step = "none"
  PROVE  SInv'
  <1> USE SessionsAssumption
  <1>1. PICK b \in Browsers : b = BrowserOf[t]
    OBVIOUS
  <1>2. PICK n \in TokenOrNone : n = cookie[b]
    BY <1>1, TypesHold
  <1>3. PICK step \in {"refused", "read"} : step = IF n = 0 THEN "refused" ELSE "read"
    OBVIOUS
  <1>4. PICK row : row = [step |-> step, tab |-> t, token |-> n, next |-> 0]
    OBVIOUS
  <1>5. row \in FlightRow /\ row.step = step /\ row.tab = t /\ row.token = n
    <2>1. 0 \in TokenOrNone
      BY DEF TokenOrNone
    <2>2. QED
      BY <1>4, <2>1 DEF FlightRow
  <1>6. flight' = [flight EXCEPT ![f] = row]
    BY <1>1, <1>2, <1>3, <1>4 DEF Takeoff
  <1>7. /\ flight' \in [Flights -> FlightRow]
        /\ \A g \in Flights : flight'[g] = IF g = f THEN row ELSE flight[g]
    BY <1>5, <1>6, FlightChanges
  <1>8. flight[f].step = "none" /\ flight[f].tab \notin Tabs
    BY DEF SInv, FlightsHaveTabs, Idle
  <1>9. \A c \in Browsers : \A g \in Flights : FliesIn(g, c)' <=> FliesIn(g, c) \/ (g = f /\ c = b)
    BY <1>1, <1>5, <1>7, <1>8 DEF FliesIn
  <1>10. SessionsTypeOK'
    <2>1. SessionsTypeOK
      BY DEF SInv
    <2>2. QED
      BY <1>7, <2>1 DEF SessionsTypeOK, FlightRow, TabRow, SigningRow, CallRow
  <1>11. \A c \in Browsers : \A m : Holds(c, m)' => Holds(c, m)
    <2>1. ASSUME NEW c \in Browsers, NEW m, Holds(c, m)' PROVE Holds(c, m)
      <3>1. CASE m = cookie'[c] /\ m # 0
        BY <3>1 DEF Holds
      <3>2. ASSUME NEW u \in Tabs, BrowserOf[u] = c, tab'[u].signing.step = "answer",
                   m = tab'[u].signing.token
            PROVE  Holds(c, m)
        BY <3>2 DEF Holds
      <3>3. ASSUME NEW g \in Flights, FliesIn(g, c)', g # f,
                   \/ /\ flight'[g].step \in {"read", "issue", "replace", "answer"}
                      /\ m = flight'[g].token
                   \/ /\ flight'[g].step \in {"replace", "answer"}
                      /\ m = flight'[g].next
            PROVE  Holds(c, m)
        BY <1>7, <1>9, <3>3 DEF Holds
      <3>4. CASE /\ FliesIn(f, c)'
                 /\ \/ /\ flight'[f].step \in {"read", "issue", "replace", "answer"}
                       /\ m = flight'[f].token
                    \/ /\ flight'[f].step \in {"replace", "answer"}
                       /\ m = flight'[f].next
        <4>1. c = b
          BY <1>8, <1>9, <3>4 DEF FliesIn
        <4>2. step = "read" /\ m = n /\ n # 0
          BY <1>3, <1>5, <1>7, <3>4
        <4>3. QED
          BY <1>2, <4>1, <4>2 DEF Holds
      <3>5. QED
        BY <2>1, <3>1, <3>2, <3>3, <3>4 DEF Holds
    <2>2. QED
      BY <2>1
  <1>12. EndsOnly /\ RowsStay
    BY NothingEnds DEF EndsOnly
  <1>13. OwnTokens' /\ OwnFamilies'
    BY <1>11, <1>12, HoldingsStay DEF SInv, RowsStay
  <1>14. FlightsHaveTabs'
    BY <1>5, <1>7 DEF SInv, FlightsHaveTabs
  <1>15. \E k : NumberedUpTo(k)'
    BY <1>12, NumberedStays DEF SInv
  <1>16. OthersStay(b)
    <2>1. ASSUME NEW c \in Browsers \ {b}, NEW g \in Flights, FliesIn(g, c) \/ FliesIn(g, c)'
          PROVE  flight'[g] = flight[g]
      <3>1. g # f
        BY <1>8, <1>9, <2>1 DEF FliesIn
      <3>2. QED
        BY <1>7, <3>1
    <2>2. QED
      BY <1>12, <2>1, EndsSpares DEF OthersStay
  <1>17. ASSUME b \in Undisturbed
         PROVE  /\ \A u \in Tabs : BrowserOf[u] = b => u = t
                /\ tab[t].signing.step = "none"
                /\ \A g \in Flights : ~FliesIn(g, b)
    <2>1. \A u \in Tabs : BrowserOf[u] = b => u = t
      BY <1>1, <1>17
    <2>2. FlightsOf(t) = {} /\ tab[t].signing.step = "none"
      BY <1>1, <1>17
    <2>3. QED
      BY <2>1, <2>2 DEF FlightsOf, FliesIn
  <1>18. b \in Undisturbed => OneRefreshIn(b)
    <2>1. ASSUME b \in Undisturbed, NEW u \in Tabs, BrowserOf[u] = b
          PROVE  tab[u].signing.step = "none" /\ \A g, h \in FlightsOf(u)' : g = h
      <3>1. u = t /\ tab[u].signing.step = "none"
        BY <1>17, <2>1
      <3>2. ASSUME NEW g \in FlightsOf(u)' PROVE g = f
        <4>1. g \in Flights /\ FliesIn(g, b)'
          BY <2>1, <3>2 DEF FlightsOf, FliesIn
        <4>2. QED
          BY <1>9, <1>17, <2>1, <4>1
      <3>3. QED
        BY <3>1, <3>2
    <2>2. QED
      BY <2>1 DEF OneRefreshIn
  <1>19. ASSUME b \in Undisturbed PROVE Safe(b)'
    <2> SUFFICES ASSUME SignedIn(b)'
                 PROVE  /\ \A g \in Flights : FliesIn(g, b)' => FlightSafe(b, g)'
                        /\ Keeps(b, cookie[b])'
      BY DEF Safe
    <2>1. SignedIn(b) /\ Safe(b)
      BY <1>19 DEF SInv, SignedIn, There
    <2>2. Keeps(b, cookie[b])
      BY <1>17, <1>19, <2>1 DEF Safe
    <2>3. Keeps(b, cookie[b])'
      BY <2>2 DEF Keeps, Usable, Issued
    <2>4. n # 0
      BY <1>2, <2>2 DEF Keeps, Usable, Issued, Tokens
    <2>5. flight'[f].step = "read" /\ flight'[f].token = cookie'[b]
      BY <1>2, <1>3, <1>5, <1>7, <2>4
    <2>6. FlightSafe(b, f)'
      BY <2>5 DEF FlightSafe
    <2>7. QED
      BY <1>9, <1>17, <1>19, <2>3, <2>6
  <1>20. QED
    BY <1>1, <1>10, <1>13, <1>14, <1>15, <1>16, <1>18, <1>19, RefreshGoesOn

LEMMA LoadKeeps ==
  ASSUME SInv, NEW f \in Flights, NEW t \in Tabs, Load(t, f)
  PROVE  SInv'
  <1> USE SessionsAssumption
  <1>1. PICK row : row = [ClosedTab EXCEPT !.open = TRUE]
    OBVIOUS
  <1>2. row \in TabRow /\ row.signing.step = "none" /\ row.leaving = FALSE
    <2>1. NotSigning \in SigningRow /\ NotSigning.step = "none"
      BY NotSigningIs
    <2>2. QED
      BY <1>1, <2>1 DEF ClosedTab, TabRow
  <1>3. /\ Idle(f) /\ Quiet(t) /\ tab[t].signing.step = "none" /\ ~tab[t].leaving
        /\ tab' = [tab EXCEPT ![t] = row] /\ Takeoff(f, t)
        /\ UNCHANGED <<member, token, cookie, call, ended, session>>
    BY <1>1 DEF Load
  <1>4. /\ tab' \in [Tabs -> TabRow]
        /\ \A u \in Tabs : tab'[u] = IF u = t THEN row ELSE tab[u]
    BY <1>2, <1>3, TypesHold
  <1>5. TabsStay(BrowserOf[t])
    BY <1>2, <1>3, <1>4 DEF TabsStay
  <1>6. \A u \in Tabs : \/ tab'[u].signing = tab[u].signing
                        \/ tab'[u].signing.step = "none"
    BY <1>2, <1>4
  <1>7. call' \in [Calls -> CallRow] /\ CallsHaveTabs'
    BY <1>3, CallsStay, TypesHold
  <1>8. FlightsOf(t) = {}
    BY <1>3 DEF Quiet
  <1>9. QED
    BY <1>3, <1>4, <1>5, <1>6, <1>7, <1>8, TakeoffKeeps

LEMMA RefusedKeeps ==
  ASSUME SInv, NEW f \in Flights, NEW c \in Calls, Refused(c, f)
  PROVE  SInv'
  <1> USE SessionsAssumption
  <1>1. PICK old \in CallRow : old = call[c]
    BY TypesHold
  <1>2. PICK t \in Tabs : t = old.tab
    BY <1>1 DEF Refused, SInv, CallsHaveTabs
  <1>3. PICK row : row = [old EXCEPT !.step = "wait"]
    OBVIOUS
  <1>4. row \in CallRow /\ row.tab = t
    BY <1>1, <1>2, <1>3 DEF CallRow
  <1>5. /\ call' = [call EXCEPT ![c] = row]
        /\ UNCHANGED <<member, token, cookie, tab, ended, session>>
    BY <1>1, <1>3 DEF Refused
  <1>6. /\ call' \in [Calls -> CallRow]
        /\ \A d \in Calls : call'[d] = IF d = c THEN row ELSE call[d]
    BY <1>4, <1>5, CallChanges
  <1>7. \A u \in Tabs : \A d \in Calls : call'[d].tab = u => call[d].tab = u
    BY <1>1, <1>2, <1>4, <1>6
  <1>8. CallsHaveTabs'
    BY <1>2, <1>4, <1>6 DEF SInv, CallsHaveTabs
  <1>9. EndsOnly
    BY <1>5, NothingEnds
  <1>10. CASE MayRefresh(t)
    <2>1. Idle(f) /\ Takeoff(f, t) /\ FlightsOf(t) = {}
      BY <1>1, <1>2, <1>10 DEF Refused, MayRefresh
    <2>2. ASSUME BrowserOf[t] \in Undisturbed PROVE tab[t].signing.step = "none"
      BY <1>1, <1>2, <2>2, SigningIsQuiet
    <2>3. TabsStay(BrowserOf[t])
      BY <1>5, <1>7 DEF TabsStay
    <2>4. tab' \in [Tabs -> TabRow] /\ \A u \in Tabs : tab'[u].signing = tab[u].signing
      BY <1>5, TypesHold
    <2>5. QED
      BY <1>5, <1>6, <1>8, <2>1, <2>2, <2>3, <2>4, TakeoffKeeps
  <1>11. CASE ~MayRefresh(t)
    <2>1. UNCHANGED flight
      BY <1>1, <1>2, <1>11 DEF Refused
    <2>2. QED
      BY <1>5, <1>6, <1>7, <1>8, <1>9, <2>1, TypesHold, PagesKeep
  <1>12. QED
    BY <1>10, <1>11

-----------------------------------------------------------------------------
(* Sessions begin and end in a page                                        *)

LEMMA IssueKeeps ==
  ASSUME SInv, NEW t \in Tabs, NEW n \in Tokens, LoginIssue(t, n)
  PROVE  SInv'
  <1> USE SessionsAssumption
  <1>1. PICK b \in Browsers : b = BrowserOf[t]
    OBVIOUS
  <1>2. /\ IssueToken(n, UserOf[b], 0) /\ UserOf[b] \in Users
        /\ tab[t].signing.step = "issue"
        /\ UNCHANGED <<member, cookie, flight, call, ended, session>>
    BY <1>1 DEF LoginIssue, UserAt
  <1>3. /\ token' \in [Tokens -> TokenRow] /\ n \notin Issued
        /\ Issued' = Issued \cup {n} /\ token'[n] = NewToken(n, UserOf[b], 0)
        /\ \A m \in Issued : token'[m] = token[m] /\ token[m].family # n
        /\ Usable(n)' /\ \E k : NumberedUpTo(k)'
    BY <1>2, TokenIssued
  <1>4. token'[n].user = UserOf[b] /\ token'[n].family = n
    <2>1. NoToken \in TokenRow
      <3>1. 0 \in TokenOrNone
        BY DEF TokenOrNone
      <3>2. QED
        BY <3>1 DEF TokenRow, NoToken
    <2>2. QED
      BY <1>2, <1>3, <2>1 DEF NewToken, TokenRow
  <1>5. PICK q \in SigningRow : q = tab[t].signing
    BY TypesHold DEF TabRow
  <1>6. PICK s : s = [q EXCEPT !.step = "answer", !.token = n]
    OBVIOUS
  <1>7. s \in SigningRow /\ s.step = "answer" /\ s.token = n
    <2>1. n \in TokenOrNone
      BY DEF Tokens, TokenOrNone
    <2>2. QED
      BY <1>5, <1>6, <2>1 DEF SigningRow
  <1>8. PICK row : row = [tab[t] EXCEPT !.signing = s]
    OBVIOUS
  <1>9. row \in TabRow /\ row.signing = s /\ row.leaving = tab[t].leaving
    BY <1>7, <1>8, TypesHold DEF TabRow
  <1>10. tab' = [tab EXCEPT ![t] = row]
    BY <1>5, <1>6, <1>8 DEF LoginIssue, Signing
  <1>11. /\ tab' \in [Tabs -> TabRow]
         /\ \A u \in Tabs : tab'[u] = IF u = t THEN row ELSE tab[u]
    BY <1>9, <1>10, TypesHold
  <1>12. SessionsTypeOK'
    <2>1. SessionsTypeOK
      BY DEF SInv
    <2>2. QED
      BY <1>2, <1>3, <1>11, <2>1 DEF SessionsTypeOK, TabRow, SigningRow, TokenRow
  <1>13. \A c \in Browsers : \A g \in Flights : FliesIn(g, c)' <=> FliesIn(g, c)
    BY <1>2 DEF FliesIn
  <1>14. \A c \in Browsers : \A m : Holds(c, m)' => Holds(c, m) \/ (c = b /\ m = n)
    BY <1>1, <1>2, <1>7, <1>9, <1>11, <1>13 DEF Holds
  <1>15. OwnTokens' /\ OwnFamilies'
    <2>1. \A c \in Browsers : \A m : c # b /\ Holds(c, m) => token[m].family # token'[n].family
      BY <1>3, <1>4 DEF SInv, OwnTokens
    <2>2. n \in Issued' /\ Issued \subseteq Issued' /\ \A m \in Issued : token'[m] = token[m]
      BY <1>3
    <2>3. QED
      BY <1>4, <1>14, <2>1, <2>2, HoldingsGrow DEF SInv
  <1>16. FlightsHaveTabs' /\ CallsHaveTabs'
    BY <1>2, CallsStay DEF SInv, FlightsHaveTabs
  <1>17. MembersSignIn'
    BY <1>2, <1>11 DEF SInv, MembersSignIn, UserAt
  <1>18. \A c : Spares(c)
    BY <1>2, <1>3, IssueSpares
  <1>19. ASSUME NEW u \in Tabs, BrowserOf[u] \in Undisturbed, u # t PROVE CalmTab(u)'
    <2>1. tab'[u] = tab[u] /\ FlightsOf(u)' = FlightsOf(u) /\ UNCHANGED <<call, session>>
      BY <1>2, <1>11, <1>19 DEF FlightsOf
    <2>2. CalmTab(u)
      BY <1>19 DEF SInv
    <2>3. tab'[u].signing.step # "none" => /\ Quiet(u) /\ ~tab'[u].leaving
                                           /\ \A c \in Calls : call'[c].tab # u
      BY <1>19, <2>1, SigningIsQuiet
    <2>4. QED
      BY <1>18, <2>1, <2>2, <2>3, CalmElsewhere
  <1>20. ASSUME BrowserOf[t] \in Undisturbed PROVE CalmTab(t)'
    <2>1. CalmTab(t) /\ Quiet(t) /\ ~tab[t].leaving
      BY <1>2, <1>20, SigningIsQuiet DEF SInv
    <2>2. Quiet(t)' /\ \A f, g \in FlightsOf(t)' : f = g
      BY <1>2, <2>1 DEF Quiet, FlightsOf
    <2>3. ~tab'[t].leaving /\ tab'[t].signing.token = n
      BY <1>7, <1>9, <1>11, <2>1
    <2>4. QED
      BY <1>3, <1>4, <2>2, <2>3 DEF CalmTab
  <1>21. ASSUME NEW c \in Undisturbed PROVE Safe(c)'
    <2>1. c \in Browsers /\ Safe(c)
      BY DEF SInv
    <2>2. session[c] # 0 /\ There(UserOf[c])' => There(UserOf[c])
      BY <1>2 DEF There
    <2>3. /\ session'[c] \in {session[c], 0} /\ cookie'[c] = cookie[c]
          /\ \A f \in Flights : FliesIn(f, c) \/ FliesIn(f, c)' => flight'[f] = flight[f]
      BY <1>2
    <2>4. QED
      BY <1>18, <2>1, <2>2, <2>3, SafeElsewhere
  <1>22. QED
    BY <1>3, <1>12, <1>15, <1>16, <1>17, <1>19, <1>20, <1>21 DEF SInv

\* A page's cookie and session change; its sign-in ends or goes on.
LEMMA CookieChanges ==
  ASSUME SInv, NEW t \in Tabs, NEW b \in Browsers, b = BrowserOf[t],
         UNCHANGED <<member, token, flight, call, ended>>,
         NEW n \in TokenOrNone, cookie' = [cookie EXCEPT ![b] = n],
         n # 0 => Holds(b, n),
         NEW k \in TokenOrNone, session' = [session EXCEPT ![b] = k],
         k # 0 => member[UserOf[b]].status # "NONE",
         NEW row \in TabRow, tab' = [tab EXCEPT ![t] = row],
         row.signing \in {tab[t].signing, NotSigning},
         row.leaving => tab[t].leaving,
         b \in Undisturbed => CalmTab(t)' /\ Safe(b)'
  PROVE  SInv'
  <1> USE SessionsAssumption
  <1>1. /\ tab' \in [Tabs -> TabRow]
        /\ \A u \in Tabs : tab'[u] = IF u = t THEN row ELSE tab[u]
        /\ NotSigning.step = "none"
    BY TypesHold, NotSigningIs
  <1>2. /\ cookie' \in [Browsers -> TokenOrNone] /\ session' \in [Browsers -> TokenOrNone]
        /\ \A c \in Browsers : /\ cookie'[c] = IF c = b THEN n ELSE cookie[c]
                               /\ session'[c] = IF c = b THEN k ELSE session[c]
    BY TypesHold
  <1>3. SessionsTypeOK'
    <2>1. SessionsTypeOK
      BY DEF SInv
    <2>2. QED
      BY <1>1, <1>2, <2>1 DEF SessionsTypeOK, TabRow, SigningRow
  <1>4. EndsOnly /\ RowsStay
    BY NothingEnds DEF EndsOnly
  <1>5. ASSUME NEW c \in Browsers, NEW m, Holds(c, m)' PROVE Holds(c, m)
    <2>1. CASE m = cookie'[c] /\ m # 0
      BY <1>2, <2>1 DEF Holds
    <2>2. ASSUME NEW u \in Tabs, BrowserOf[u] = c, tab'[u].signing.step = "answer",
                 m = tab'[u].signing.token
          PROVE  Holds(c, m)
      <3>1. tab'[u].signing = tab[u].signing
        BY <1>1, <2>2
      <3>2. QED
        BY <2>2, <3>1 DEF Holds
    <2>3. QED
      BY <1>5, <2>1, <2>2 DEF Holds, FliesIn
  <1>6. OwnTokens' /\ OwnFamilies' /\ \E j : NumberedUpTo(j)'
    BY <1>4, <1>5, HoldingsStay, NumberedStays DEF SInv, RowsStay
  <1>7. FlightsHaveTabs' /\ CallsHaveTabs'
    BY CallsStay DEF SInv, FlightsHaveTabs
  <1>8. MembersSignIn'
    <2>1. \A u \in Tabs : tab'[u].signing.step # "none" => tab[u].signing.step # "none"
      BY <1>1
    <2>2. QED
      BY <1>2, <2>1 DEF SInv, MembersSignIn, UserAt
  <1>9. ASSUME NEW u \in Tabs, BrowserOf[u] \in Undisturbed, u # t PROVE CalmTab(u)'
    <2>1. BrowserOf[u] # b
      BY <1>9
    <2>2. /\ tab'[u] = tab[u] /\ FlightsOf(u)' = FlightsOf(u) /\ UNCHANGED call
          /\ session'[BrowserOf[u]] = session[BrowserOf[u]]
      BY <1>1, <1>2, <1>9, <2>1 DEF FlightsOf
    <2>3. CalmTab(u) /\ Spares(BrowserOf[u])
      BY <1>4, <1>9, EndsSpares DEF SInv
    <2>4. tab'[u].signing.step # "none" => /\ Quiet(u) /\ ~tab'[u].leaving
                                           /\ \A c \in Calls : call'[c].tab # u
      BY <1>9, <2>2, SigningIsQuiet
    <2>5. QED
      BY <2>2, <2>3, <2>4, CalmElsewhere
  <1>10. ASSUME NEW c \in Undisturbed, c # b PROVE Safe(c)'
    <2>1. c \in Browsers /\ Safe(c) /\ Spares(c)
      BY <1>4, EndsSpares DEF SInv
    <2>2. session[c] # 0 /\ There(UserOf[c])' => There(UserOf[c])
      BY DEF There
    <2>3. /\ session'[c] \in {session[c], 0} /\ cookie'[c] = cookie[c]
          /\ \A f \in Flights : FliesIn(f, c) \/ FliesIn(f, c)' => flight'[f] = flight[f]
      BY <1>2, <1>10, <2>1
    <2>4. QED
      BY <2>1, <2>2, <2>3, SafeElsewhere
  <1>11. QED
    BY <1>3, <1>6, <1>7, <1>8, <1>9, <1>10 DEF SInv

LEMMA AnswerKeeps ==
  ASSUME SInv, NEW t \in Tabs, LoginAnswered(t)
  PROVE  SInv'
  <1> USE SessionsAssumption
  <1>1. PICK b \in Browsers : b = BrowserOf[t]
    OBVIOUS
  <1>2. PICK old \in TabRow : old = tab[t]
    BY TypesHold
  <1>3. PICK n \in TokenOrNone : n = tab[t].signing.token
    BY <1>2 DEF TabRow, SigningRow
  <1>4. /\ tab[t].signing.step = "answer" /\ cookie' = [cookie EXCEPT ![b] = n]
        /\ session' = [session EXCEPT ![b] = n]
        /\ UNCHANGED <<member, token, flight, call, ended>>
    BY <1>1, <1>3 DEF LoginAnswered
  <1>5. Holds(b, n) /\ n \in Issued
    <2>1. Holds(b, n)
      BY <1>1, <1>3, <1>4 DEF Holds
    <2>2. QED
      BY <2>1 DEF SInv, OwnTokens
  <1>6. member[UserOf[b]].status # "NONE"
    BY <1>1, <1>4 DEF SInv, MembersSignIn, UserAt
  <1>7. PICK row : row = [old EXCEPT !.signing = NotSigning, !.good = TRUE]
    OBVIOUS
  <1>8. row \in TabRow /\ row.signing = NotSigning /\ row.leaving = tab[t].leaving
    <2>1. NotSigning \in SigningRow
      BY NotSigningIs
    <2>2. QED
      BY <1>2, <1>7, <2>1 DEF TabRow
  <1>9. tab' = [tab EXCEPT ![t] = row] /\ tab'[t] = row
    BY <1>2, <1>7, TypesHold DEF LoginAnswered
  <1>10. ASSUME b \in Undisturbed PROVE CalmTab(t)' /\ Safe(b)'
    <2>1. CalmTab(t) /\ Quiet(t) /\ ~tab[t].leaving
      BY <1>1, <1>4, <1>10, SigningIsQuiet DEF SInv
    <2>2. CalmTab(t)'
      <3>1. \A f, g \in FlightsOf(t)' : f = g
        BY <1>4, <2>1 DEF Quiet, FlightsOf
      <3>2. tab'[t].signing.step = "none" /\ ~tab'[t].leaving
        BY <1>8, <1>9, <2>1, NotSigningIs
      <3>3. QED
        BY <3>1, <3>2 DEF CalmTab
    <2>3. \A f \in Flights : ~FliesIn(f, b)'
      <3>1. \A u \in Tabs : BrowserOf[u] = b => u = t
        BY <1>1, <1>10
      <3>2. QED
        BY <1>4, <2>1, <3>1 DEF Quiet, FlightsOf, FliesIn
    <2>4. ASSUME SignedIn(b)' PROVE Keeps(b, cookie[b])'
      <3>1. session'[b] = n /\ cookie'[b] = n
        BY <1>4, TypesHold
      <3>2. n \notin ended
        BY <1>4, <2>4, <3>1 DEF SignedIn
      <3>3. token[n].family = n /\ Usable(n)
        BY <1>3, <1>4, <1>5, <2>1, <3>2 DEF CalmTab
      <3>4. QED
        BY <1>4, <3>1, <3>3 DEF Keeps, Usable, Issued
    <2>5. QED
      BY <2>2, <2>3, <2>4 DEF Safe
  <1>11. QED
    BY <1>1, <1>4, <1>5, <1>6, <1>8, <1>9, <1>10, CookieChanges

LEMMA SignedOutKeeps ==
  ASSUME SInv, NEW t \in Tabs, SignedOut(t)
  PROVE  SInv'
  <1> USE SessionsAssumption
  <1>1. PICK b \in Browsers : b = BrowserOf[t]
    OBVIOUS
  <1>2. PICK old \in TabRow : old = tab[t]
    BY TypesHold
  <1>3. PICK n \in {0, cookie[b]} : cookie' = [cookie EXCEPT ![b] = n]
    BY <1>1, TypesHold DEF SignedOut
  <1>4. n \in TokenOrNone /\ (n # 0 => Holds(b, n))
    <2>1. cookie[b] \in TokenOrNone /\ 0 \in TokenOrNone
      BY TypesHold DEF TokenOrNone
    <2>2. QED
      BY <2>1 DEF Holds
  <1>5. PICK k \in TokenOrNone : k = session[b]
    BY TypesHold
  <1>6. /\ session' = [session EXCEPT ![b] = k] /\ tab[t].leaving
        /\ UNCHANGED <<member, token, flight, call, ended, session>>
    BY <1>5, TypesHold DEF SignedOut
  <1>7. k # 0 => member[UserOf[b]].status # "NONE"
    BY <1>5 DEF SInv, MembersSignIn
  <1>8. PICK row : row = [old EXCEPT !.leaving = FALSE, !.good = FALSE]
    OBVIOUS
  <1>9. row \in TabRow /\ row.signing = tab[t].signing /\ row.leaving = FALSE
    BY <1>2, <1>8 DEF TabRow
  <1>10. tab' = [tab EXCEPT ![t] = row] /\ tab'[t] = row
    BY <1>2, <1>8, TypesHold DEF SignedOut
  <1>11. ASSUME b \in Undisturbed PROVE CalmTab(t)' /\ Safe(b)'
    <2>1. CalmTab(t) /\ session[b] = 0 /\ tab[t].signing.step = "none"
      BY <1>1, <1>6, <1>11 DEF SInv, CalmTab
    <2>2. tab'[t].signing.step = "none" /\ ~tab'[t].leaving
      BY <1>9, <1>10, <2>1
    <2>3. \A f, g \in FlightsOf(t)' : f = g
      BY <1>6, <2>1 DEF CalmTab, FlightsOf
    <2>4. CalmTab(t)'
      BY <2>2, <2>3 DEF CalmTab
    <2>5. session'[b] = 0
      BY <1>6, <2>1
    <2>6. QED
      BY <2>4, <2>5 DEF Safe, SignedIn
  <1>12. QED
    BY <1>1, <1>3, <1>4, <1>5, <1>6, <1>7, <1>9, <1>10, <1>11, CookieChanges

-----------------------------------------------------------------------------
LEMMA SInvInit == SessionsInit => SInv
  <1> USE SessionsAssumption
  <1> SUFFICES ASSUME SessionsInit PROVE SInv
    OBVIOUS
  <1>1. SessionsTypeOK
    <2>1. 0 \in TokenOrNone
      BY DEF TokenOrNone
    <2>2. NoMember \in MemberRow /\ NoToken \in TokenRow
      BY <2>1 DEF NoMember, MemberRow, MemberStatus, NoToken, TokenRow
    <2>3. NoFlight \in FlightRow /\ NoCall \in CallRow
      BY <2>1 DEF NoFlight, FlightRow, NoCall, CallRow
    <2>4. ClosedTab \in TabRow
      BY NotSigningIs DEF ClosedTab, TabRow
    <2>5. QED
      BY <2>1, <2>2, <2>3, <2>4, Rows DEF SessionsInit
  <1>2. Issued = {}
    BY DEF SessionsInit, Issued
  <1>3. \E k : NumberedUpTo(k)
    <2>1. NumberedUpTo(0)
      BY <1>2 DEF NumberedUpTo, Tokens, TokenOrNone
    <2>2. QED
      BY <2>1
  <1>4. /\ \A f \in Flights : flight[f].step = "none" /\ flight[f].tab \notin Tabs
        /\ \A c \in Calls : call[c].step = "none"
        /\ \A t \in Tabs : tab[t].signing.step = "none" /\ tab[t].leaving = FALSE
        /\ \A b \in Browsers : session[b] = 0 /\ cookie[b] = 0
    BY DEF SessionsInit, NoFlight, NoCall, ClosedTab, NotSigning
  <1>5. \A b \in Browsers : \A n : ~Holds(b, n)
    BY <1>4 DEF Holds, FliesIn
  <1>6. OwnTokens /\ OwnFamilies /\ FlightsHaveTabs /\ CallsHaveTabs /\ MembersSignIn
    BY <1>4, <1>5 DEF OwnTokens, OwnFamilies, FlightsHaveTabs, CallsHaveTabs, MembersSignIn
  <1>7. \A t \in Tabs : CalmTab(t)
    BY <1>4 DEF CalmTab, FlightsOf
  <1>8. \A b \in Undisturbed : Safe(b)
    BY <1>4 DEF Safe, SignedIn
  <1>9. QED
    BY <1>1, <1>3, <1>6, <1>7, <1>8 DEF SInv

LEMMA SInvStep == SInv /\ [SessionsNext]_sessionVars => SInv'
  <1> SUFFICES ASSUME SInv, [SessionsNext]_sessionVars PROVE SInv'
    OBVIOUS
  <1>1. CASE Membership
    BY <1>1, MembershipKeeps, SessionsEnd DEF Membership
  <1>2. ASSUME NEW t \in Tabs, InTab(t) PROVE SInv'
    BY <1>2, RegisterKeeps, SignInReads, SignInFails, SignInVerifies, AnswerKeeps, ExpiresKeeps,
       SignOutKeeps, SignedOutKeeps, IssueKeeps, LoadKeeps, CallsKeep DEF InTab
  <1>3. ASSUME NEW f \in Flights, Refreshing(f) PROVE SInv'
    BY <1>3, RotateReadKeeps, RotateReplaceKeeps, RotateIssueKeeps, RefreshEnds DEF Refreshing
  <1>4. ASSUME NEW c \in Calls, Calling(c) PROVE SInv'
    BY <1>4, CallsKeep, RefusedKeeps DEF Calling
  <1>5. CASE UNCHANGED sessionVars
    <2>1. SessionsTypeOK'
      BY <1>5 DEF SInv, SessionsTypeOK, sessionVars
    <2>2. EndsOnly
      BY <1>5, NothingEnds DEF sessionVars
    <2>3. QED
      BY <1>5, <2>1, <2>2, PagesStay DEF sessionVars
  <1>6. QED
    BY <1>1, <1>2, <1>3, <1>4, <1>5 DEF SessionsNext

LEMMA SInvAlways == SessionsSpec => []SInv
  BY SInvInit, SInvStep, PTL DEF SessionsSpec

\* Rows, cookies, pages, refreshes and calls have the types of Sessions at any
\* number of members, browsers, tabs and tokens.
THEOREM SessionsTypes == SessionsSpec => []SessionsTypeOK
  <1>1. SInv => SessionsTypeOK
    BY DEF SInv
  <1>2. QED
    BY <1>1, SInvAlways, PTL

\* refreshSession() (session.ts) keeps the refreshes of a page to one at a time,
\* so rotate() never sees a token of it twice: an undisturbed browser that signed
\* in has, in its cookie or in the answer on its way, a token the server takes.
THEOREM SessionsStaySignedIn == SessionsSpec => []StaysSignedIn
  <1>1. SInv => StaysSignedIn
    <2> SUFFICES ASSUME SInv, NEW b \in Undisturbed,
                        session[b] # 0, session[b] \notin ended, There(UserOf[b])
                 PROVE  \E n \in Issued :
                          /\ Usable(n) /\ token[n].family = session[b]
                          /\ \/ n = cookie[b]
                             \/ \E f \in Flights : /\ At(f, "answer") /\ flight[f].next = n
                                                   /\ BrowserOf[flight[f].tab] = b
      BY DEF StaysSignedIn
    <2>1. SignedIn(b) /\ Safe(b)
      BY DEF SInv, SignedIn
    <2>2. CASE Keeps(b, cookie[b])
      BY <2>2 DEF Keeps, Usable
    <2>3. ASSUME NEW f \in Flights, FliesIn(f, b), flight[f].step = "answer"
          PROVE  \E n \in Issued : /\ Usable(n) /\ token[n].family = session[b]
                                   /\ At(f, "answer") /\ flight[f].next = n
                                   /\ BrowserOf[flight[f].tab] = b
      <3>1. Keeps(b, flight[f].next)
        BY <2>1, <2>3 DEF Safe, FlightSafe
      <3>2. QED
        BY <2>3, <3>1 DEF Keeps, Usable, At, FliesIn
    <2>4. QED
      BY <2>1, <2>2, <2>3 DEF Safe
  <1>2. QED
    BY <1>1, SInvAlways, PTL

=============================================================================
