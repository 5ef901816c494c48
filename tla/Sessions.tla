------------------------------ MODULE Sessions ------------------------------
(***************************************************************************)
(* One user's signed-in sessions: AuthService.issueSession, refresh,       *)
(* rotateWithinFamily and logout over RefreshToken, and the browser side   *)
(* that drives them, ApiClient.request and tryRefresh with the tokens an   *)
(* app keeps in memory (one copy per tab) and in localStorage (one copy).  *)
(*                                                                         *)
(* Each database statement of refresh is a step; every API call of every   *)
(* tab that is refused may refresh, and nothing makes them take turns.     *)
(* Access tokens last minutes: any call may find that its own has expired, *)
(* and a call that does not changes nothing here and is not a step.        *)
(* Rows that nobody can present any more and that are not live, and the    *)
(* families made of such rows only, are forgotten and their names reused.  *)
(***************************************************************************)
EXTENDS Naturals, FiniteSets

CONSTANTS
  Tabs,         \* browser tabs of one app on one origin
  Tokens,       \* names for RefreshToken rows
  Families,     \* names for familyId
  None,         \* no token
  Nobody,       \* the tab of a call nobody waits for any more
  Persists,     \* the app hands ApiClient an onTokenRefresh that stores tokens
  Calls         \* API calls in progress at once

ASSUME SessionsAssumption ==
  /\ None \notin Tokens /\ Nobody \notin Tabs
  /\ Persists \in BOOLEAN

VARIABLES
  row,         \* the RefreshToken row of each token
  mem,         \* ApiClient.refreshToken of each tab
  stored,      \* the refresh token in localStorage
  call,        \* the refused call each slot is dealing with
  revoked,     \* history: families revoked as a whole, by a logout or a reuse
  straddled,   \* history: of those, the ones revoked during a rotation
  raced,       \* history: families in which two rotations overlapped
  excused      \* history: families that may end without a logout

server == <<row, revoked, straddled, raced>>
browser == <<mem, stored>>
vars == <<server, browser, call, excused>>

Row == [family : Families, state : {"live", "revoked", "expired"}]
NoRow == [state |-> "absent"]
Idle == [op |-> "idle"]

AtServer == {"posted", "rotate", "create", "reuse"}

Call ==
       [op : {"refused"}, tab : Tabs]
  \cup [op : AtServer \cup {"granted", "denied"}, tab : Tabs \cup {Nobody},
        token : Tokens, family : Families]

Refreshing(f, ops) == {c \in Calls : call[c].op \in ops /\ call[c].family = f}

Live(f) == {t \in Tokens : row[t].state = "live" /\ row[t].family = f}

\* Somebody can still present the token, or is about to be given it.
Held(t) ==
  \/ stored = t
  \/ \E b \in Tabs : mem[b] = t
  \/ \E c \in Calls : call[c].op \in AtServer \cup {"granted", "denied"} /\ call[c].token = t

Unused(t) == row[t].state # "live" /\ ~Held(t)

InFamily(t, f) == row[t] # NoRow /\ row[t].family = f

Init ==
  /\ row = [t \in Tokens |-> NoRow]
  /\ mem = [b \in Tabs |-> None]
  /\ stored = None
  /\ call = [c \in Calls |-> Idle]
  /\ revoked = {} /\ straddled = {} /\ raced = {} /\ excused = {}

-----------------------------------------------------------------------------
(* Sign-in, reload, sign-out *)

\* A sign-in starts a family of one token; the login page puts it in memory and
\* in localStorage.
SignIn(b, t, f) ==
  /\ mem[b] = None
  /\ Unused(t)
  /\ \A x \in Tokens : InFamily(x, f) => Unused(x)
  /\ Refreshing(f, AtServer \cup {"granted", "denied"}) = {}
  /\ row' = [row EXCEPT ![t] = [family |-> f, state |-> "live"]]
  /\ mem' = [mem EXCEPT ![b] = t]
  /\ stored' = t
  /\ revoked' = revoked \ {f} /\ straddled' = straddled \ {f}
  /\ raced' = raced \ {f} /\ excused' = excused \ {f}
  /\ UNCHANGED call

\* Families with a refresh the server is working on for the tab.
Awaited(b) == {f \in Families : \E c \in Refreshing(f, AtServer \cup {"granted"}) : call[c].tab = b}

\* The family in localStorage, while somebody refreshes it.
BeingRotated ==
  {f \in Families : stored # None /\ row[stored].family = f /\ Refreshing(f, AtServer \cup {"granted"}) # {}}

\* loadTokens at start-up.  What the page was waiting for goes unheard, and a
\* token that another tab is rotating may be used up already.
Reload(b) ==
  /\ mem' = [mem EXCEPT ![b] = stored]
  /\ call' = [c \in Calls |-> IF call[c] = Idle \/ call[c].tab # b THEN call[c]
                              ELSE IF call[c].op = "refused" THEN Idle
                              ELSE [call[c] EXCEPT !.tab = Nobody]]
  /\ excused' = excused \cup Awaited(b) \cup BeingRotated
  /\ UNCHANGED <<server, stored>>

RevokeAll_OnlyThis(t) == [row EXCEPT ![t].state = "revoked"]

\* updateMany over the family of t: every row not revoked yet.
RevokeAll(t) ==
  [x \in Tokens |-> IF InFamily(x, row[t].family) THEN [row[x] EXCEPT !.state = "revoked"] ELSE row[x]]

RevokedAsWhole(f) ==
  /\ revoked' = revoked \cup {f}
  /\ straddled' = IF Refreshing(f, {"rotate", "create"}) = {} THEN straddled ELSE straddled \cup {f}

\* logout: whoever holds a token of the family ends it.
Logout(b) ==
  /\ mem[b] # None
  /\ row' = RevokeAll(mem[b])
  /\ RevokedAsWhole(row[mem[b]].family)
  /\ excused' = excused \cup {row[mem[b]].family}
  /\ UNCHANGED <<raced, browser, call>>

-----------------------------------------------------------------------------
(* Time *)

TokenExpires(t) ==
  /\ row[t].state = "live"
  /\ row' = [row EXCEPT ![t].state = "expired"]
  /\ excused' = excused \cup {row[t].family}
  /\ UNCHANGED <<revoked, straddled, raced, browser, call>>

-----------------------------------------------------------------------------
(* ApiClient.request: a call is refused with 401 and may refresh *)

BeRefused(c, b) ==
  /\ call[c] = Idle
  /\ mem[b] # None
  /\ call' = [call EXCEPT ![c] = [op |-> "refused", tab |-> b]]
  /\ UNCHANGED <<server, browser, excused>>

\* tryRefresh presents the token the tab holds when the 401 arrives.  Another
\* refresh of the family in progress can cost the session from here on, and so
\* can another tab that has the session in memory: its token is used up once
\* this refresh is through.  The second excuse is given whether or not that tab
\* ever refreshes.
PostRefresh(c) ==
  /\ call[c].op = "refused"
  /\ LET b == call[c].tab
         f == row[mem[b]].family
         shared == \/ Refreshing(f, AtServer \cup {"granted"}) # {}
                   \/ \E o \in Tabs \ {b} : mem[o] # None /\ row[mem[o]].family = f IN
       /\ mem[b] # None
       /\ call' = [call EXCEPT ![c] = [op |-> "posted", tab |-> b, token |-> mem[b], family |-> f]]
       /\ excused' = IF shared THEN excused \cup {f} ELSE excused
  /\ UNCHANGED <<server, browser>>

\* The tokens were cleared meanwhile: the call fails.
GiveUp(c) ==
  /\ call[c].op = "refused"
  /\ mem[call[c].tab] = None
  /\ call' = [call EXCEPT ![c] = Idle]
  /\ UNCHANGED <<server, browser, excused>>

Kept_Never(t) == stored

\* onTokenRefresh: the rotated token replaces the one in localStorage.
Kept(t) == IF Persists THEN t ELSE stored

\* The new tokens are installed, and the call is sent again, once.
TakeTokens(c) ==
  /\ call[c].op = "granted" /\ call[c].tab # Nobody
  /\ mem' = [mem EXCEPT ![call[c].tab] = call[c].token]
  /\ stored' = Kept(call[c].token)
  /\ call' = [call EXCEPT ![c] = Idle]
  /\ UNCHANGED <<server, excused>>

\* Any answer but a success: clearTokens and onSessionExpired, whatever tokens
\* the tab and the browser hold by now.
ClearTokens(c) ==
  /\ call[c].op = "denied" /\ call[c].tab # Nobody
  /\ mem' = [mem EXCEPT ![call[c].tab] = None]
  /\ stored' = IF Persists THEN None ELSE stored
  /\ call' = [call EXCEPT ![c] = Idle]
  /\ UNCHANGED <<server, excused>>

\* The connection breaks: tryRefresh returns false and the tokens stay, while
\* the server may go on.
Disconnect(c) ==
  /\ call[c].op \in AtServer \cup {"granted", "denied"} /\ call[c].tab # Nobody
  /\ call' = [call EXCEPT ![c].tab = Nobody]
  /\ excused' = IF call[c].op = "denied" THEN excused ELSE excused \cup {call[c].family}
  /\ UNCHANGED <<server, browser>>

Unheard(c) ==
  /\ call[c].op \in {"granted", "denied"} /\ call[c].tab = Nobody
  /\ call' = [call EXCEPT ![c] = Idle]
  /\ UNCHANGED <<server, browser, excused>>

-----------------------------------------------------------------------------
(* AuthService.refresh *)

\* A used-up token that has also run out is denied without ending the family; it
\* is not told apart here from one that has not, which can only end more sessions.
ReadToken(c) ==
  /\ call[c].op = "posted"
  /\ LET f == call[c].family IN
       /\ call' = [call EXCEPT ![c].op = CASE row[call[c].token].state = "live" -> "rotate"
                                           [] row[call[c].token].state = "revoked" -> "reuse"
                                           [] OTHER -> "denied"]
       /\ raced' = IF row[call[c].token].state = "live" /\ Refreshing(f, {"rotate", "create"}) # {}
                   THEN raced \cup {f} ELSE raced
  /\ UNCHANGED <<row, revoked, straddled, browser, excused>>

\* A rotated token is presented again: the whole family is revoked.
RevokeFamily(c) ==
  /\ call[c].op = "reuse"
  /\ row' = RevokeAll(call[c].token)
  /\ RevokedAsWhole(call[c].family)
  /\ call' = [call EXCEPT ![c].op = "denied"]
  /\ UNCHANGED <<raced, browser, excused>>

RevokePrevious_Never(t) == row

\* The update names the row by its id and does not look at it again.
RevokePrevious(t) == [row EXCEPT ![t].state = "revoked"]

Rotate(c) ==
  /\ call[c].op = "rotate"
  /\ row' = RevokePrevious(call[c].token)
  /\ call' = [call EXCEPT ![c].op = "create"]
  /\ UNCHANGED <<revoked, straddled, raced, browser, excused>>

CreateToken(c, t) ==
  /\ call[c].op = "create"
  /\ Unused(t)
  /\ row' = [row EXCEPT ![t] = [family |-> call[c].family, state |-> "live"]]
  /\ call' = [call EXCEPT ![c].op = "granted", ![c].token = t]
  /\ UNCHANGED <<revoked, straddled, raced, browser, excused>>

\* A statement throws, or loadAccessContext refuses the account after the new
\* row is in: the answer is an error, which the client takes for the end.
Fail(c) ==
  /\ call[c].op \in AtServer \cup {"granted"}
  /\ call' = [call EXCEPT ![c].op = "denied"]
  /\ excused' = excused \cup {call[c].family}
  /\ UNCHANGED <<server, browser>>

\* The process dies: the client sees a broken connection.
Crash(c) ==
  /\ call[c].op \in AtServer
  /\ call' = [call EXCEPT ![c] = Idle]
  /\ excused' = IF call[c].op = "create" THEN excused \cup {call[c].family} ELSE excused
  /\ UNCHANGED <<server, browser>>

Client(c) ==
  \/ \E b \in Tabs : BeRefused(c, b)
  \/ PostRefresh(c) \/ GiveUp(c) \/ TakeTokens(c) \/ ClearTokens(c) \/ Disconnect(c) \/ Unheard(c)

Server(c) ==
  \/ ReadToken(c) \/ RevokeFamily(c) \/ Rotate(c) \/ Fail(c) \/ Crash(c)
  \/ \E t \in Tokens : CreateToken(c, t)

Next ==
  \/ \E b \in Tabs : Reload(b) \/ Logout(b)
  \/ \E b \in Tabs, t \in Tokens, f \in Families : SignIn(b, t, f)
  \/ \E t \in Tokens : TokenExpires(t)
  \/ \E c \in Calls : Client(c) \/ Server(c)

Spec == Init /\ [][Next]_vars

-----------------------------------------------------------------------------
(* Properties *)

\* Every variable keeps its type.
TypeOK ==
  /\ row \in [Tokens -> Row \cup {NoRow}]
  /\ mem \in [Tabs -> Tokens \cup {None}]
  /\ stored \in Tokens \cup {None}
  /\ call \in [Calls -> Call \cup {Idle}]
  /\ revoked \subseteq Families /\ straddled \subseteq revoked
  /\ raced \subseteq Families /\ excused \subseteq Families

\* Rotation keeps one live refresh token to a session, through lost answers,
\* failures half-way and reuse; only two refreshes that both read the token
\* before either revoked it leave two.
OneLiveTokenPerFamily == \A f \in Families \ raced : Cardinality(Live(f)) <= 1

\* A session that was ended, by logout or because a rotated token came back,
\* has no live token and never gets one, unless a rotation was half-way then.
EndedFamilyStaysDead == \A f \in revoked \ straddled : Live(f) = {}

\* A tab is refused the refresh of its session, and forgets it, only if the
\* session ran out or was signed out, a server error or a broken connection came
\* in, two calls refreshed it at once, or one tab refreshed it while another had
\* it too: the only tab with the session, if it makes one call at a time and
\* hears its answers, stays signed in, across reloads.
OnlyRacesLoseTheSession ==
  \A c \in Calls : call[c].op = "denied" /\ call[c].tab # Nobody => call[c].family \in excused
=============================================================================
