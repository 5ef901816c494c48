--------------------------- MODULE SessionsProofs ---------------------------
(***************************************************************************)
(* Theorems about Sessions for any numbers of tabs, calls, tokens and      *)
(* families.                                                               *)
(*                                                                         *)
(* A refresh reads the token in one statement and writes in later ones, so *)
(* each invariant says what the calls in between still know: Known ties    *)
(* every token somebody holds to its row, Dead and Single say what a       *)
(* refresh half-way leaves of its family, and Solo what an app keeps of a  *)
(* session nothing has happened to.                                        *)
(***************************************************************************)
EXTENDS Sessions, FiniteSetTheorems, TLAPS

-----------------------------------------------------------------------------
(* Types *)

Full == AtServer \cup {"granted", "denied"}

\* The rows of the tokens somebody holds exist, and a call names its family.
Known ==
  /\ \A b \in Tabs : mem[b] # None => row[mem[b]] \in Row
  /\ stored # None => row[stored] \in Row
  /\ \A c \in Calls : call[c].op \in Full => row[call[c].token] \in Row /\ row[call[c].token].family = call[c].family

Typed == TypeOK /\ Known

LEMMA RowFacts ==
  ASSUME TypeOK, NEW t \in Tokens
  PROVE  /\ row[t] \in Row \cup {NoRow}
         /\ row[t] # NoRow <=> row[t] \in Row
         /\ row[t] \in Row <=> row[t].state \in {"live", "revoked", "expired"}
         /\ row[t] \in Row => row[t].family \in Families
<1>1. row[t] \in Row \cup {NoRow}
  BY DEF TypeOK
<1>2. NoRow.state \notin {"live", "revoked", "expired"} /\ \A r \in Row : r.state \in {"live", "revoked", "expired"}
  BY DEF NoRow, Row
<1>3. \A r \in Row : r.family \in Families
  BY DEF Row
<1> QED
  BY <1>1, <1>2, <1>3

LEMMA CallFacts ==
  ASSUME TypeOK, NEW c \in Calls
  PROVE  /\ call[c].op \in Full => /\ call[c].token \in Tokens /\ call[c].family \in Families
                                   /\ call[c].tab \in Tabs \cup {Nobody}
                                   /\ \A o \in Full : [call[c] EXCEPT !.op = o] \in Call
                                   /\ [call[c] EXCEPT !.tab = Nobody] \in Call
                                   /\ \A o \in Full, t \in Tokens : [call[c] EXCEPT !.op = o, !.token = t] \in Call
         /\ call[c].op = "refused" => call[c].tab \in Tabs /\ call[c] = [op |-> "refused", tab |-> call[c].tab]
         /\ call[c] # Idle => call[c].op \in Full \cup {"refused"} /\ call[c] \in Call
         /\ call[c] = Idle => call[c].op = "idle"
<1>1. call[c] \in Call \cup {Idle}
  BY DEF TypeOK
<1>2. call[c].op \in Full => call[c] \in [op : Full, tab : Tabs \cup {Nobody}, token : Tokens, family : Families]
  BY <1>1 DEF Call, Idle, Full, AtServer
<1>3. \A r \in [op : Full, tab : Tabs \cup {Nobody}, token : Tokens, family : Families] :
        /\ r.token \in Tokens /\ r.family \in Families /\ r.tab \in Tabs \cup {Nobody}
        /\ \A o \in Full : [r EXCEPT !.op = o] \in Call
        /\ [r EXCEPT !.tab = Nobody] \in Call
        /\ \A o \in Full, t \in Tokens : [r EXCEPT !.op = o, !.token = t] \in Call
  BY DEF Call, Full
<1>4. call[c].op = "refused" => call[c] \in [op : {"refused"}, tab : Tabs]
  BY <1>1 DEF Call, Idle, Full, AtServer
<1>5. call[c] # Idle => call[c].op \in Full \cup {"refused"} /\ call[c] \in Call
  BY <1>1 DEF Call, Full
<1>6. call[c].op \in Full => /\ call[c].token \in Tokens /\ call[c].family \in Families
                             /\ call[c].tab \in Tabs \cup {Nobody}
                             /\ \A o \in Full : [call[c] EXCEPT !.op = o] \in Call
                             /\ [call[c] EXCEPT !.tab = Nobody] \in Call
                             /\ \A o \in Full, t \in Tokens : [call[c] EXCEPT !.op = o, !.token = t] \in Call
  BY <1>2, <1>3
<1>7. call[c].op = "refused" => call[c].tab \in Tabs /\ call[c] = [op |-> "refused", tab |-> call[c].tab]
  BY <1>4
<1>8. call[c] = Idle => call[c].op = "idle"
  BY DEF Idle
<1> QED
  BY <1>5, <1>6, <1>7, <1>8

\* A handler moves one call on.
LEMMA OpSet ==
  ASSUME TypeOK, NEW c \in Calls, NEW o, call[c].op \in Full, call' = [call EXCEPT ![c].op = o]
  PROVE  /\ call'[c].op = o /\ call'[c].tab = call[c].tab
         /\ call'[c].token = call[c].token /\ call'[c].family = call[c].family
         /\ \A d \in Calls \ {c} : call'[d] = call[d]
<1>1. call[c] \in [op : Full, tab : Tabs \cup {Nobody}, token : Tokens, family : Families]
  <2>1. call[c] \in Call \cup {Idle}
    BY DEF TypeOK
  <2> QED
    BY <2>1 DEF Call, Idle, Full, AtServer
<1>2. call'[c] = [call[c] EXCEPT !.op = o] /\ \A d \in Calls \ {c} : call'[d] = call[d]
  BY DEF TypeOK
<1> QED
  BY <1>1, <1>2

-----------------------------------------------------------------------------
(* What a step does to the rows *)

\* No row comes back to life, and none moves to another family.
Lowers ==
  \A t \in Tokens : /\ row'[t] \in Row <=> row[t] \in Row
                    /\ row[t] \in Row => row'[t].family = row[t].family
                    /\ row'[t].state = "live" => row[t].state = "live"

\* One token that nobody used becomes a live one of family f.
Adds(t, f) == Unused(t) /\ row' = [row EXCEPT ![t] = [family |-> f, state |-> "live"]]

LEMMA Ends ==
  ASSUME TypeOK, NEW t \in Tokens, row[t] \in Row, NEW s \in {"revoked", "expired"},
         row' = [row EXCEPT ![t].state = s]
  PROVE  /\ row' \in [Tokens -> Row \cup {NoRow}] /\ Lowers
         /\ row'[t].state = s /\ \A u \in Tokens \ {t} : row'[u] = row[u]
<1>1. row \in [Tokens -> Row \cup {NoRow}]
  BY DEF TypeOK
<1>2. row'[t] = [row[t] EXCEPT !.state = s] /\ \A u \in Tokens \ {t} : row'[u] = row[u]
  BY <1>1
<1>3. row'[t] \in Row /\ row'[t].family = row[t].family /\ row'[t].state = s
  BY <1>2 DEF Row
<1>4. row' \in [Tokens -> Row \cup {NoRow}]
  BY <1>1, <1>3
<1> QED
  BY <1>2, <1>3, <1>4 DEF Lowers

LEMMA RevokesAll ==
  ASSUME TypeOK, NEW t \in Tokens, row[t] \in Row, row' = RevokeAll(t)
  PROVE  /\ row' \in [Tokens -> Row \cup {NoRow}] /\ Lowers
         /\ \A x \in Tokens : row[x] \in Row /\ row[x].family = row[t].family => row'[x].state = "revoked"
<1>1. row \in [Tokens -> Row \cup {NoRow}]
  BY DEF TypeOK
<1>2. ASSUME NEW x \in Tokens
      PROVE  /\ row'[x] \in Row \cup {NoRow}
             /\ row'[x] \in Row <=> row[x] \in Row
             /\ row[x] \in Row => row'[x].family = row[x].family
             /\ row'[x].state = "live" => row[x].state = "live"
             /\ row[x] \in Row /\ row[x].family = row[t].family => row'[x].state = "revoked"
  <2>1. CASE InFamily(x, row[t].family)
    <3>1. row'[x] = [row[x] EXCEPT !.state = "revoked"] /\ row[x] \in Row
      BY <2>1, RowFacts DEF RevokeAll, InFamily
    <3> QED
      BY <3>1 DEF Row
  <2>2. CASE ~InFamily(x, row[t].family)
    <3>1. row'[x] = row[x]
      BY <2>2 DEF RevokeAll
    <3> QED
      BY <2>2, <3>1, <1>1, RowFacts DEF InFamily
  <2> QED
    BY <2>1, <2>2
<1>3. row' \in [Tokens -> Row \cup {NoRow}]
  BY <1>2 DEF RevokeAll
<1> QED
  BY <1>2, <1>3 DEF Lowers

\* A token of the family f that a call is about.
LEMMA CallKnows ==
  ASSUME Typed, NEW c \in Calls, call[c].op \in Full
  PROVE  /\ call[c].token \in Tokens /\ call[c].family \in Families
         /\ row[call[c].token] \in Row /\ row[call[c].token].family = call[c].family
         /\ Held(call[c].token)
BY CallFacts DEF Typed, Known, Held, Full

LEMMA RowSteps ==
  ASSUME Typed, [Next]_vars
  PROVE  /\ row' \in [Tokens -> Row \cup {NoRow}]
         /\ \/ Lowers
            \/ \E b \in Tabs, t \in Tokens, f \in Families : SignIn(b, t, f) /\ Adds(t, f)
            \/ \E c \in Calls, t \in Tokens, f \in Families :
                 CreateToken(c, t) /\ call[c].family = f /\ Adds(t, f)
<1>0. row \in [Tokens -> Row \cup {NoRow}]
  BY DEF Typed, TypeOK
<1>1. CASE UNCHANGED row
  BY <1>0, <1>1 DEF Lowers
<1>2. ASSUME NEW b \in Tabs, Logout(b)
      PROVE  row' \in [Tokens -> Row \cup {NoRow}] /\ Lowers
  <2>1. mem[b] \in Tokens /\ row[mem[b]] \in Row
    BY <1>2 DEF Typed, TypeOK, Known, Logout
  <2> QED
    BY <1>2, <2>1, RevokesAll DEF Logout, Typed
<1>3. ASSUME NEW t \in Tokens, TokenExpires(t)
      PROVE  row' \in [Tokens -> Row \cup {NoRow}] /\ Lowers
  <2>1. row[t] \in Row
    BY <1>3, RowFacts DEF Typed, TokenExpires
  <2> QED
    BY <1>3, <2>1, Ends DEF TokenExpires, Typed
<1>4. ASSUME NEW c \in Calls, RevokeFamily(c)
      PROVE  row' \in [Tokens -> Row \cup {NoRow}] /\ Lowers
  <2>1. call[c].op \in Full
    BY <1>4 DEF RevokeFamily, Full, AtServer
  <2> QED
    BY <1>4, <2>1, CallKnows, RevokesAll DEF RevokeFamily, Typed
<1>5. ASSUME NEW c \in Calls, Rotate(c)
      PROVE  row' \in [Tokens -> Row \cup {NoRow}] /\ Lowers
  <2>1. call[c].op \in Full
    BY <1>5 DEF Rotate, Full, AtServer
  <2> QED
    BY <1>5, <2>1, CallKnows, Ends DEF Rotate, RevokePrevious, Typed
<1>6. ASSUME NEW t \in Tokens, NEW f \in Families, Adds(t, f)
      PROVE  row' \in [Tokens -> Row \cup {NoRow}]
  <2>1. [family |-> f, state |-> "live"] \in Row
    BY DEF Row
  <2> QED
    BY <1>0, <1>6, <2>1 DEF Adds
<1>7. ASSUME NEW b \in Tabs, NEW t \in Tokens, NEW f \in Families, SignIn(b, t, f)
      PROVE  Adds(t, f)
  BY <1>7 DEF SignIn, Adds
<1>8. ASSUME NEW c \in Calls, NEW t \in Tokens, CreateToken(c, t)
      PROVE  Adds(t, call[c].family) /\ call[c].family \in Families
  <2>1. call[c].op \in Full
    BY <1>8 DEF CreateToken, Full, AtServer
  <2> QED
    BY <1>8, <2>1, CallKnows DEF CreateToken, Adds
<1>9. CASE Next
  <2>1. CASE \E c \in Calls : Client(c)
    BY <1>1, <2>1 DEF Client, BeRefused, PostRefresh, GiveUp, TakeTokens, ClearTokens, Disconnect, Unheard, server
  <2>2. CASE \E c \in Calls : Server(c)
    BY <1>1, <1>4, <1>5, <1>6, <1>8, <2>2 DEF Server, ReadToken, Fail, Crash, server
  <2> QED
    BY <1>1, <1>2, <1>3, <1>6, <1>7, <1>9, <2>1, <2>2 DEF Next, Reload, server
<1>10. CASE UNCHANGED vars
  BY <1>1, <1>10 DEF vars, server
<1> QED
  BY <1>9, <1>10

\* A held token keeps its row and its family.
LEMMA HeldKept ==
  ASSUME Typed, [Next]_vars, NEW t \in Tokens, Held(t), row[t] \in Row
  PROVE  row'[t] \in Row /\ row'[t].family = row[t].family
<1>1. CASE Lowers
  BY <1>1 DEF Lowers
<1>2. ASSUME NEW u \in Tokens, NEW f \in Families, Adds(u, f)
      PROVE  row'[t] \in Row /\ row'[t].family = row[t].family
  <2>1. u # t
    BY <1>2 DEF Adds, Unused
  <2> QED
    BY <1>2, <2>1 DEF Adds, Typed, TypeOK
<1> QED
  BY <1>1, <1>2, RowSteps

-----------------------------------------------------------------------------
(* What a step does to the browser and to the calls *)

LEMMA BrowserSteps ==
  ASSUME Typed, [Next]_vars
  PROVE  \/ mem' = mem /\ stored' = stored
         \/ \E b \in Tabs : mem' = [mem EXCEPT ![b] = stored] /\ stored' = stored /\ Reload(b)
         \/ \E b \in Tabs, t \in Tokens, f \in Families :
              mem' = [mem EXCEPT ![b] = t] /\ stored' = t /\ SignIn(b, t, f)
         \/ \E c \in Calls : /\ call[c].op = "granted" /\ call[c].tab \in Tabs /\ TakeTokens(c)
                             /\ mem' = [mem EXCEPT ![call[c].tab] = call[c].token]
                             /\ stored' = Kept(call[c].token)
         \/ \E c \in Calls : /\ call[c].op = "denied" /\ call[c].tab \in Tabs /\ ClearTokens(c)
                             /\ mem' = [mem EXCEPT ![call[c].tab] = None]
                             /\ stored' = IF Persists THEN None ELSE stored
<1>1. ASSUME NEW b \in Tabs, Logout(b)
      PROVE  mem' = mem /\ stored' = stored
  BY <1>1 DEF Logout, browser
<1>2. ASSUME NEW t \in Tokens, TokenExpires(t)
      PROVE  mem' = mem /\ stored' = stored
  BY <1>2 DEF TokenExpires, browser
<1>3. ASSUME NEW c \in Calls, TakeTokens(c) \/ ClearTokens(c)
      PROVE  call[c].tab \in Tabs
  <2>1. call[c].op \in Full /\ call[c].tab # Nobody
    BY <1>3 DEF TakeTokens, ClearTokens, Full
  <2> QED
    BY <2>1, CallFacts DEF Typed
<1>4. ASSUME NEW c \in Calls, Server(c)
      PROVE  mem' = mem /\ stored' = stored
  BY <1>4 DEF Server, ReadToken, RevokeFamily, Rotate, Fail, Crash, CreateToken, browser
<1>5. ASSUME NEW c \in Calls, Client(c), ~TakeTokens(c), ~ClearTokens(c)
      PROVE  mem' = mem /\ stored' = stored
  BY <1>5 DEF Client, BeRefused, PostRefresh, GiveUp, Disconnect, Unheard, browser
<1>6. ASSUME NEW c \in Calls, Client(c)
      PROVE  \/ mem' = mem /\ stored' = stored
             \/ /\ call[c].op = "granted" /\ call[c].tab \in Tabs /\ TakeTokens(c)
                /\ mem' = [mem EXCEPT ![call[c].tab] = call[c].token]
                /\ stored' = Kept(call[c].token)
             \/ /\ call[c].op = "denied" /\ call[c].tab \in Tabs /\ ClearTokens(c)
                /\ mem' = [mem EXCEPT ![call[c].tab] = None]
                /\ stored' = IF Persists THEN None ELSE stored
  BY <1>3, <1>5, <1>6 DEF TakeTokens, ClearTokens
<1>7. CASE UNCHANGED vars
  BY <1>7 DEF vars, browser
<1>8. ASSUME NEW b \in Tabs, Reload(b)
      PROVE  mem' = [mem EXCEPT ![b] = stored] /\ stored' = stored
  BY <1>8 DEF Reload
<1>9. ASSUME NEW b \in Tabs, NEW t \in Tokens, NEW f \in Families, SignIn(b, t, f)
      PROVE  mem' = [mem EXCEPT ![b] = t] /\ stored' = t
  BY <1>9 DEF SignIn
<1> QED
  BY <1>1, <1>2, <1>4, <1>6, <1>7, <1>8, <1>9 DEF Next

\* What becomes of the call in one slot.
CallStep(c) ==
  \/ call'[c] = call[c]
  \/ call'[c] = Idle
  \/ \E b \in Tabs : call[c] = Idle /\ call'[c] = [op |-> "refused", tab |-> b]
  \/ /\ PostRefresh(c) /\ call[c].op = "refused" /\ call[c].tab \in Tabs /\ mem[call[c].tab] \in Tokens
     /\ call'[c] = [op |-> "posted", tab |-> call[c].tab, token |-> mem[call[c].tab],
                    family |-> row[mem[call[c].tab]].family]
  \/ call[c].op \in Full /\ call'[c] = [call[c] EXCEPT !.tab = Nobody]
  \/ /\ call[c].op \in AtServer \cup {"granted"}
     /\ \E o \in Full : call'[c] = [call[c] EXCEPT !.op = o]
  \/ /\ call[c].op = "create"
     /\ \E t \in Tokens : CreateToken(c, t) /\ call'[c] = [call[c] EXCEPT !.op = "granted", !.token = t]

LEMMA CallSteps ==
  ASSUME Typed, [Next]_vars, NEW c \in Calls
  PROVE  /\ call' = [x \in Calls |-> call'[x]]
         /\ CallStep(c)
<1>0. call \in [Calls -> Call \cup {Idle}]
  BY DEF Typed, TypeOK
<1>1. ASSUME NEW d \in Calls, d # c, Client(d) \/ Server(d)
      PROVE  call' = [x \in Calls |-> call'[x]] /\ call'[c] = call[c]
  <2>1. CASE Client(d)
    BY <1>0, <1>1, <2>1 DEF Client, BeRefused, PostRefresh, GiveUp, TakeTokens, ClearTokens, Disconnect, Unheard
  <2>2. CASE Server(d)
    BY <1>0, <1>1, <2>2 DEF Server, ReadToken, RevokeFamily, Rotate, Fail, Crash, CreateToken
  <2> QED
    BY <1>1, <2>1, <2>2
<1>2. CASE Client(c)
  <2>1. ASSUME NEW b \in Tabs, BeRefused(c, b)
        PROVE  call' = [x \in Calls |-> call'[x]] /\ CallStep(c)
    BY <1>0, <2>1 DEF BeRefused, CallStep
  <2>2. CASE PostRefresh(c)
    <3>1. call[c].op = "refused" /\ call[c].tab \in Tabs /\ mem[call[c].tab] \in Tokens
      BY <2>2, CallFacts DEF PostRefresh, Typed, TypeOK
    <3>2. call' = [call EXCEPT ![c] = [op |-> "posted", tab |-> call[c].tab, token |-> mem[call[c].tab],
                                       family |-> row[mem[call[c].tab]].family]]
      BY <2>2 DEF PostRefresh
    <3> QED
      BY <1>0, <2>2, <3>1, <3>2 DEF CallStep
  <2>3. CASE GiveUp(c) \/ TakeTokens(c) \/ ClearTokens(c) \/ Unheard(c)
    BY <1>0, <2>3 DEF GiveUp, TakeTokens, ClearTokens, Unheard, CallStep
  <2>4. CASE Disconnect(c)
    <3>1. call[c].op \in Full /\ call' = [call EXCEPT ![c].tab = Nobody]
      BY <2>4 DEF Disconnect, Full
    <3> QED
      BY <1>0, <3>1 DEF CallStep
  <2> QED
    BY <1>2, <2>1, <2>2, <2>3, <2>4 DEF Client
<1>3. CASE Server(c)
  <2>1. ASSUME NEW o \in Full, call[c].op \in AtServer \cup {"granted"}, call' = [call EXCEPT ![c].op = o]
        PROVE  call' = [x \in Calls |-> call'[x]] /\ CallStep(c)
    BY <1>0, <2>1 DEF CallStep
  <2>2. CASE ReadToken(c)
    <3>1. CASE row[call[c].token].state = "live"
      BY <2>1, <2>2, <3>1 DEF ReadToken, Full, AtServer
    <3>2. CASE row[call[c].token].state = "revoked"
      BY <2>1, <2>2, <3>2 DEF ReadToken, Full, AtServer
    <3>3. CASE row[call[c].token].state \notin {"live", "revoked"}
      BY <2>1, <2>2, <3>3 DEF ReadToken, Full, AtServer
    <3> QED
      BY <3>1, <3>2, <3>3
  <2>3. CASE RevokeFamily(c) \/ Rotate(c) \/ Fail(c)
    BY <2>1, <2>3 DEF RevokeFamily, Rotate, Fail, Full, AtServer
  <2>4. CASE Crash(c)
    BY <1>0, <2>4 DEF Crash, CallStep
  <2>5. ASSUME NEW t \in Tokens, CreateToken(c, t)
        PROVE  call' = [x \in Calls |-> call'[x]] /\ CallStep(c)
    <3>1. call' = [call EXCEPT ![c] = [call[c] EXCEPT !.op = "granted", !.token = t]]
      BY <1>0, <2>5 DEF CreateToken
    <3> QED
      BY <1>0, <2>5, <3>1 DEF CallStep, CreateToken
  <2> QED
    BY <1>3, <2>2, <2>3, <2>4, <2>5 DEF Server
<1>4. ASSUME NEW b \in Tabs, Reload(b)
      PROVE  call' = [x \in Calls |-> call'[x]] /\ CallStep(c)
  <2>1. CASE call[c] = Idle \/ call[c].tab # b
    BY <1>4, <2>1 DEF Reload, CallStep
  <2>2. CASE call[c] # Idle /\ call[c].tab = b /\ call[c].op = "refused"
    BY <1>4, <2>2 DEF Reload, CallStep
  <2>3. CASE call[c] # Idle /\ call[c].tab = b /\ call[c].op # "refused"
    <3>1. call[c].op \in Full
      BY <2>3, CallFacts DEF Typed
    <3> QED
      BY <1>4, <2>3, <3>1 DEF Reload, CallStep
  <2> QED
    BY <2>1, <2>2, <2>3
<1>5. CASE UNCHANGED call
  BY <1>0, <1>5 DEF CallStep
<1>6. CASE Next
  <2>1. CASE \E d \in Calls : Client(d) \/ Server(d)
    BY <1>1, <1>2, <1>3, <2>1 DEF CallStep
  <2>2. CASE (\E b \in Tabs : Logout(b)) \/ (\E t \in Tokens : TokenExpires(t))
             \/ \E b \in Tabs, t \in Tokens, f \in Families : SignIn(b, t, f)
    BY <1>5, <2>2 DEF Logout, TokenExpires, SignIn
  <2> QED
    BY <1>4, <1>6, <2>1, <2>2 DEF Next
<1> QED
  BY <1>5, <1>6 DEF vars

LEMMA CallMap ==
  ASSUME Typed, [Next]_vars
  PROVE  call' = [x \in Calls |-> call'[x]]
<1>1. call = [x \in Calls |-> call[x]]
  BY DEF Typed, TypeOK
<1>2. CASE Calls = {}
  <2>1. CASE \E b \in Tabs : Reload(b)
    BY <1>2, <2>1 DEF Reload
  <2>2. CASE UNCHANGED call
    BY <1>1, <2>2
  <2> QED
    BY <1>2, <2>1, <2>2 DEF Next, Logout, TokenExpires, SignIn, vars
<1>3. CASE Calls # {}
  BY <1>3, CallSteps
<1> QED
  BY <1>2, <1>3

\* What a step does to the histories.
LEMMA HistorySteps ==
  ASSUME Typed, [Next]_vars
  PROVE  /\ revoked' \subseteq Families /\ straddled' \subseteq revoked'
         /\ raced' \subseteq Families /\ excused' \subseteq Families
<1> USE DEF Typed, TypeOK
<1>1. ASSUME NEW f \in Families, RevokedAsWhole(f)
      PROVE  revoked' \subseteq Families /\ straddled' \subseteq revoked'
  BY <1>1 DEF RevokedAsWhole
<1>2. ASSUME NEW b \in Tabs, mem[b] # None
      PROVE  mem[b] \in Tokens /\ row[mem[b]].family \in Families
  BY <1>2, RowFacts DEF Known
<1>3. ASSUME NEW b \in Tabs, Logout(b)
      PROVE  /\ revoked' \subseteq Families /\ straddled' \subseteq revoked'
             /\ raced' \subseteq Families /\ excused' \subseteq Families
  BY <1>1, <1>2, <1>3 DEF Logout
<1>4. ASSUME NEW b \in Tabs, Reload(b)
      PROVE  /\ revoked' \subseteq Families /\ straddled' \subseteq revoked'
             /\ raced' \subseteq Families /\ excused' \subseteq Families
  BY <1>4 DEF Reload, server, Awaited, BeingRotated
<1>5. ASSUME NEW b \in Tabs, NEW t \in Tokens, NEW f \in Families, SignIn(b, t, f)
      PROVE  /\ revoked' \subseteq Families /\ straddled' \subseteq revoked'
             /\ raced' \subseteq Families /\ excused' \subseteq Families
  BY <1>5 DEF SignIn
<1>6. ASSUME NEW t \in Tokens, TokenExpires(t)
      PROVE  /\ revoked' \subseteq Families /\ straddled' \subseteq revoked'
             /\ raced' \subseteq Families /\ excused' \subseteq Families
  <2>1. row[t].family \in Families
    BY <1>6, RowFacts DEF TokenExpires
  <2> QED
    BY <1>6, <2>1 DEF TokenExpires
<1>7. ASSUME NEW c \in Calls, Client(c)
      PROVE  /\ revoked' \subseteq Families /\ straddled' \subseteq revoked'
             /\ raced' \subseteq Families /\ excused' \subseteq Families
  <2>1. CASE PostRefresh(c)
    <3>1. call[c].tab \in Tabs /\ row[mem[call[c].tab]].family \in Families
      BY <1>2, <2>1, CallFacts DEF PostRefresh
    <3> QED
      BY <2>1, <3>1 DEF PostRefresh, server
  <2>2. CASE Disconnect(c)
    <3>1. call[c].family \in Families
      BY <2>2, CallFacts DEF Disconnect, Full
    <3> QED
      BY <2>2, <3>1 DEF Disconnect, server
  <2> QED
    BY <1>7, <2>1, <2>2 DEF Client, BeRefused, GiveUp, TakeTokens, ClearTokens, Unheard, server
<1>8. ASSUME NEW c \in Calls, Server(c)
      PROVE  /\ revoked' \subseteq Families /\ straddled' \subseteq revoked'
             /\ raced' \subseteq Families /\ excused' \subseteq Families
  <2>1. call[c].family \in Families
    BY <1>8, CallFacts DEF Server, ReadToken, RevokeFamily, Rotate, Fail, Crash, CreateToken, Full, AtServer
  <2>2. CASE RevokeFamily(c)
    BY <1>1, <2>1, <2>2 DEF RevokeFamily
  <2>3. CASE ReadToken(c) \/ Rotate(c) \/ \E t \in Tokens : CreateToken(c, t)
    BY <2>1, <2>3 DEF ReadToken, Rotate, CreateToken
  <2>4. CASE Fail(c) \/ Crash(c)
    BY <2>1, <2>4 DEF Fail, Crash, server
  <2> QED
    BY <1>8, <2>2, <2>3, <2>4 DEF Server
<1> QED
  BY <1>3, <1>4, <1>5, <1>6, <1>7, <1>8 DEF Next, vars, server

\* A full call that a step leaves as one, and where its token is from.
LEMMA TokenSteps ==
  ASSUME Typed, [Next]_vars, NEW c \in Calls, call'[c].op \in Full
  PROVE  \/ /\ call[c].op \in Full /\ call'[c].family = call[c].family
            /\ call'[c].token = call[c].token
         \/ /\ PostRefresh(c) /\ call[c].op = "refused" /\ call[c].tab \in Tabs /\ mem[call[c].tab] \in Tokens
            /\ call'[c] = [op |-> "posted", tab |-> call[c].tab, token |-> mem[call[c].tab],
                           family |-> row[mem[call[c].tab]].family]
         \/ /\ call[c].op = "create" /\ CreateToken(c, call'[c].token) /\ call'[c].token \in Tokens
            /\ call'[c].op = "granted" /\ call'[c].family = call[c].family /\ call'[c].tab = call[c].tab
<1>0. call[c] \in Call \cup {Idle}
  BY DEF Typed, TypeOK
<1>1. CASE call'[c] = call[c]
  BY <1>1
<1>2. CASE call'[c] = Idle \/ \E b \in Tabs : call[c] = Idle /\ call'[c] = [op |-> "refused", tab |-> b]
  <2>1. Idle.op \notin Full /\ \A b : [op |-> "refused", tab |-> b].op \notin Full
    BY DEF Idle, Full, AtServer
  <2> QED
    BY <1>2, <2>1
<1>3. CASE call[c].op \in Full /\ call'[c] = [call[c] EXCEPT !.tab = Nobody]
  <2>1. call[c] \in Call
    BY <1>0, <1>3 DEF Idle, Full, AtServer
  <2> QED
    BY <1>3, <2>1 DEF Call
<1>4. CASE call[c].op \in AtServer \cup {"granted"} /\ \E o \in Full : call'[c] = [call[c] EXCEPT !.op = o]
  <2>1. call[c] \in Call /\ call[c].op \in Full
    BY <1>0, <1>4 DEF Idle, Full, AtServer
  <2> QED
    BY <1>4, <2>1 DEF Call
<1>5. ASSUME NEW t \in Tokens, call[c].op = "create", CreateToken(c, t),
             call'[c] = [call[c] EXCEPT !.op = "granted", !.token = t]
      PROVE  /\ call'[c].token = t /\ call'[c].op = "granted" /\ call'[c].family = call[c].family
             /\ call'[c].tab = call[c].tab
  <2>1. call[c] \in Call /\ call[c].op \in Full
    BY <1>0, <1>5 DEF Idle, Full, AtServer
  <2>2. call[c] \in [op : AtServer \cup {"granted", "denied"}, tab : Tabs \cup {Nobody},
                     token : Tokens, family : Families]
    BY <1>5, <2>1 DEF Call
  <2> QED
    BY <1>5, <2>2
<1>6. CASE \E t \in Tokens : call[c].op = "create" /\ CreateToken(c, t) /\
                             call'[c] = [call[c] EXCEPT !.op = "granted", !.token = t]
  BY <1>5, <1>6
<1> QED
  BY <1>1, <1>2, <1>3, <1>4, <1>6, CallSteps DEF CallStep

LEMMA KnownStep ==
  ASSUME Typed, [Next]_vars
  PROVE  Known'
<1>1. ASSUME NEW t \in Tokens, \/ stored = t \/ \E b \in Tabs : mem[b] = t
                               \/ \E c \in Calls : call[c].op \in Full /\ call[c].token = t
      PROVE  row[t] \in Row /\ row'[t] \in Row /\ row'[t].family = row[t].family
  <2>1. Held(t)
    BY <1>1 DEF Held, Full
  <2>2. row[t] \in Row
    BY <1>1, SessionsAssumption DEF Typed, Known
  <2> QED
    BY <2>1, <2>2, HeldKept
<1>2. stored # None => stored \in Tokens /\ row'[stored] \in Row
  BY <1>1 DEF Typed, TypeOK
<1>3. \A b \in Tabs : mem[b] # None => mem[b] \in Tokens /\ row'[mem[b]] \in Row
  BY <1>1 DEF Typed, TypeOK
<1>4. \A c \in Calls : call[c].op \in Full =>
        /\ call[c].token \in Tokens /\ row'[call[c].token] \in Row
        /\ row'[call[c].token].family = call[c].family
  BY <1>1, CallKnows
<1>5. ASSUME NEW t \in Tokens, NEW f \in Families, row' = [row EXCEPT ![t] = [family |-> f, state |-> "live"]]
      PROVE  row'[t] \in Row /\ row'[t].family = f
  BY <1>5 DEF Typed, TypeOK, Row
<1>6. /\ \A b \in Tabs : mem'[b] # None => row'[mem'[b]] \in Row
      /\ stored' # None => row'[stored'] \in Row
  <2>0. mem \in [Tabs -> Tokens \cup {None}]
    BY DEF Typed, TypeOK
  <2>1. CASE mem' = mem /\ stored' = stored
    BY <1>2, <1>3, <2>1
  <2>2. CASE \E b \in Tabs : mem' = [mem EXCEPT ![b] = stored] /\ stored' = stored
    BY <1>2, <1>3, <2>0, <2>2
  <2>3. ASSUME NEW b \in Tabs, NEW t \in Tokens, NEW f \in Families,
               mem' = [mem EXCEPT ![b] = t], stored' = t, SignIn(b, t, f)
        PROVE  /\ \A x \in Tabs : mem'[x] # None => row'[mem'[x]] \in Row
               /\ stored' # None => row'[stored'] \in Row
    <3>1. row'[t] \in Row
      BY <1>5, <2>3 DEF SignIn
    <3> QED
      BY <1>3, <2>0, <2>3, <3>1
  <2>4. ASSUME NEW c \in Calls, call[c].op = "granted", call[c].tab \in Tabs,
               mem' = [mem EXCEPT ![call[c].tab] = call[c].token], stored' = Kept(call[c].token)
        PROVE  /\ \A x \in Tabs : mem'[x] # None => row'[mem'[x]] \in Row
               /\ stored' # None => row'[stored'] \in Row
    <3>1. row'[call[c].token] \in Row
      BY <1>4, <2>4 DEF Full
    <3> QED
      BY <1>2, <1>3, <2>0, <2>4, <3>1 DEF Kept
  <2>5. ASSUME NEW b \in Tabs, mem' = [mem EXCEPT ![b] = None], stored' = IF Persists THEN None ELSE stored
        PROVE  /\ \A x \in Tabs : mem'[x] # None => row'[mem'[x]] \in Row
               /\ stored' # None => row'[stored'] \in Row
    BY <1>2, <1>3, <2>0, <2>5
  <2>6. CASE \E c \in Calls : /\ call[c].op = "denied" /\ call[c].tab \in Tabs /\ ClearTokens(c)
                              /\ mem' = [mem EXCEPT ![call[c].tab] = None]
                              /\ stored' = IF Persists THEN None ELSE stored
    BY <2>5, <2>6
  <2> QED
    BY <2>1, <2>2, <2>3, <2>4, <2>6, BrowserSteps
<1>7. ASSUME NEW c \in Calls, call'[c].op \in Full
      PROVE  row'[call'[c].token] \in Row /\ row'[call'[c].token].family = call'[c].family
  <2>1. CASE call[c].op \in Full /\ call'[c].family = call[c].family /\ call'[c].token = call[c].token
    BY <1>4, <2>1
  <2>2. CASE /\ call[c].tab \in Tabs /\ mem[call[c].tab] \in Tokens
             /\ call'[c] = [op |-> "posted", tab |-> call[c].tab, token |-> mem[call[c].tab],
                            family |-> row[mem[call[c].tab]].family]
    BY <1>1, <2>2
  <2>3. CASE CreateToken(c, call'[c].token) /\ call'[c].token \in Tokens /\ call[c].op = "create"
             /\ call'[c].family = call[c].family
    <3>1. call[c].family \in Families
      BY <2>3, CallKnows DEF Full, AtServer
    <3> QED
      BY <1>5, <2>3, <3>1 DEF CreateToken
  <2> QED
    BY <1>7, <2>1, <2>2, <2>3, TokenSteps
<1> QED
  BY <1>6, <1>7 DEF Known

LEMMA TypeStep ==
  ASSUME Typed, [Next]_vars
  PROVE  TypeOK'
<1>1. row' \in [Tokens -> Row \cup {NoRow}]
  BY RowSteps
<1>2. mem' \in [Tabs -> Tokens \cup {None}] /\ stored' \in Tokens \cup {None}
  <2>0. mem \in [Tabs -> Tokens \cup {None}] /\ stored \in Tokens \cup {None}
    BY DEF Typed, TypeOK
  <2>1. ASSUME NEW c \in Calls, call[c].op = "granted", mem' = [mem EXCEPT ![call[c].tab] = call[c].token],
               stored' = Kept(call[c].token)
        PROVE  mem' \in [Tabs -> Tokens \cup {None}] /\ stored' \in Tokens \cup {None}
    <3>1. call[c].token \in Tokens
      BY <2>1, CallKnows DEF Full
    <3> QED
      BY <2>0, <2>1, <3>1 DEF Kept
  <2>2. CASE \E b \in Tabs : mem' = [mem EXCEPT ![b] = None] /\ stored' = IF Persists THEN None ELSE stored
    BY <2>0, <2>2
  <2>3. CASE \E b \in Tabs : mem' = [mem EXCEPT ![b] = stored] /\ stored' = stored
    BY <2>0, <2>3
  <2>4. CASE \E b \in Tabs, t \in Tokens : mem' = [mem EXCEPT ![b] = t] /\ stored' = t
    BY <2>0, <2>4
  <2> QED
    BY <2>0, <2>1, <2>2, <2>3, <2>4, BrowserSteps
<1>3. call' \in [Calls -> Call \cup {Idle}]
  <2>1. ASSUME NEW c \in Calls
        PROVE  call'[c] \in Call \cup {Idle}
    <3>1. CASE call'[c] = call[c] \/ call'[c] = Idle
      BY <3>1 DEF Typed, TypeOK
    <3>2. CASE \E b \in Tabs : call'[c] = [op |-> "refused", tab |-> b]
      BY <3>2 DEF Call
    <3>3. CASE /\ call[c].tab \in Tabs /\ mem[call[c].tab] \in Tokens
               /\ call'[c] = [op |-> "posted", tab |-> call[c].tab, token |-> mem[call[c].tab],
                              family |-> row[mem[call[c].tab]].family]
      <4>1. row[mem[call[c].tab]].family \in Families
        BY <3>3, RowFacts, SessionsAssumption DEF Typed, Known
      <4> QED
        BY <3>3, <4>1 DEF Call, AtServer
    <3>4. CASE call[c].op \in Full /\ call'[c] = [call[c] EXCEPT !.tab = Nobody]
      BY <3>4, CallFacts DEF Typed
    <3>5. CASE call[c].op \in AtServer \cup {"granted"} /\ \E o \in Full : call'[c] = [call[c] EXCEPT !.op = o]
      BY <3>5, CallFacts DEF Typed, Full
    <3>6. CASE call[c].op = "create" /\ \E t \in Tokens : call'[c] = [call[c] EXCEPT !.op = "granted", !.token = t]
      <4>1. call[c].op \in Full /\ "granted" \in Full
        BY <3>6 DEF Full, AtServer
      <4>2. \A o \in Full, t \in Tokens : [call[c] EXCEPT !.op = o, !.token = t] \in Call
        BY <4>1, CallFacts DEF Typed
      <4> QED
        BY <3>6, <4>1, <4>2
    <3> QED
      BY <3>1, <3>2, <3>3, <3>4, <3>5, <3>6, CallSteps DEF CallStep
  <2> QED
    BY <2>1, CallMap
<1>4. /\ revoked' \subseteq Families /\ straddled' \subseteq revoked'
      /\ raced' \subseteq Families /\ excused' \subseteq Families
  BY HistorySteps
<1> QED
  BY <1>1, <1>2, <1>3, <1>4 DEF TypeOK

LEMMA StartTyped == Init => Typed
BY SessionsAssumption DEF Init, Typed, TypeOK, Known, Idle, Full, AtServer

LEMMA TypedInvariant == Spec => []Typed
<1>1. Typed /\ [Next]_vars => Typed'
  BY TypeStep, KnownStep DEF Typed
<1> QED
  BY <1>1, StartTyped, PTL DEF Spec

-----------------------------------------------------------------------------
(* Refreshes half-way, and the live tokens of a family *)

\* Only the handlers move a call on.
LEMMA OpSteps ==
  ASSUME Typed, [Next]_vars, NEW c \in Calls, call'[c].op \in Full, call'[c].op # call[c].op
  PROVE  \/ PostRefresh(c) \/ ReadToken(c) \/ RevokeFamily(c) \/ Rotate(c) \/ Fail(c)
         \/ \E t \in Tokens : CreateToken(c, t)
<1>0. call \in [Calls -> Call \cup {Idle}]
  BY DEF Typed, TypeOK
<1>1. ASSUME NEW d \in Calls, d # c, Client(d) \/ Server(d)
      PROVE  call'[c] = call[c]
  <2>1. CASE Client(d)
    BY <1>0, <1>1, <2>1 DEF Client, BeRefused, PostRefresh, GiveUp, TakeTokens, ClearTokens, Disconnect, Unheard
  <2>2. CASE Server(d)
    BY <1>0, <1>1, <2>2 DEF Server, ReadToken, RevokeFamily, Rotate, Fail, Crash, CreateToken
  <2> QED
    BY <1>1, <2>1, <2>2
<1>2. ~ \E d \in Calls : d # c /\ (Client(d) \/ Server(d))
  BY <1>1
<1>3. /\ ~ call'[c] = Idle
      /\ \A b : call'[c] # [op |-> "refused", tab |-> b]
      /\ ~ UNCHANGED call
  BY DEF Idle, Full, AtServer
<1>4. ~ \E b \in Tabs : Logout(b)
  BY <1>3 DEF Logout
<1>5. ~ \E t \in Tokens : TokenExpires(t)
  BY <1>3 DEF TokenExpires
<1>6. ~ \E b \in Tabs, t \in Tokens, f \in Families : SignIn(b, t, f)
  BY <1>3 DEF SignIn
<1>7. ~ \E b \in Tabs : Reload(b)
  <2> SUFFICES ASSUME NEW b \in Tabs, Reload(b) PROVE FALSE
    OBVIOUS
  <2>1. call'[c] = call[c] \/ call'[c] = Idle \/ call'[c] = [call[c] EXCEPT !.tab = Nobody]
    BY DEF Reload
  <2>2. call'[c] = [call[c] EXCEPT !.tab = Nobody]
    BY <1>3, <2>1
  <2>3. call'[c].op = call[c].op
    <3>1. CASE call[c] \in Call
      BY <2>2, <3>1 DEF Call
    <3>2. CASE call[c] = Idle
      BY <2>2, <3>2 DEF Idle
    <3> QED
      BY <1>0, <3>1, <3>2
  <2> QED
    BY <2>3
<1>8. ~ \E b \in Tabs : BeRefused(c, b)
  BY <1>0, <1>3 DEF BeRefused
<1>9. ~ (GiveUp(c) \/ TakeTokens(c) \/ ClearTokens(c) \/ Unheard(c) \/ Crash(c))
  BY <1>0, <1>3 DEF GiveUp, TakeTokens, ClearTokens, Unheard, Crash
<1>10. ~ Disconnect(c)
  <2> SUFFICES ASSUME Disconnect(c) PROVE FALSE
    OBVIOUS
  <2>0. call'[c] = [call[c] EXCEPT !.tab = Nobody]
    BY <1>0 DEF Disconnect
  <2>1. call'[c] = [call[c] EXCEPT !.tab = Nobody] /\ call[c] # Idle
    BY <2>0 DEF Disconnect, Idle, AtServer
  <2>2. call[c] \in Call
    BY <1>0, <2>1
  <2> QED
    BY <2>1, <2>2 DEF Call
<1> QED
  BY <1>2, <1>3, <1>4, <1>5, <1>6, <1>7, <1>8, <1>9, <1>10 DEF Next, Client, Server, vars

\* A rotation half-way after a step was so before, or was just read or written.
LEMMA HalfWay ==
  ASSUME Typed, [Next]_vars, NEW c \in Calls, call'[c].op \in {"rotate", "create"}
  PROVE  /\ call'[c].token = call[c].token /\ call'[c].family = call[c].family
         /\ \/ call'[c].op = call[c].op
            \/ /\ ReadToken(c) /\ call[c].op = "posted" /\ call'[c].op = "rotate"
               /\ row[call[c].token].state = "live"
            \/ Rotate(c) /\ call[c].op = "rotate" /\ call'[c].op = "create"
<1>0. call[c] \in Call \cup {Idle} /\ call \in [Calls -> Call \cup {Idle}]
  BY DEF Typed, TypeOK
<1>1. call'[c].op \in Full /\ call'[c].op \notin {"posted", "granted"}
  BY DEF Full, AtServer
<1>2. call'[c].token = call[c].token /\ call'[c].family = call[c].family /\ call[c].op \in Full
  <2>1. call'[c] # [op |-> "posted", tab |-> call[c].tab, token |-> mem[call[c].tab],
                    family |-> row[mem[call[c].tab]].family]
    BY <1>1
  <2> QED
    BY <1>1, <2>1, TokenSteps
<1>3. call[c] \in Call
  BY <1>0, <1>2 DEF Idle, Full, AtServer
<1>4. ~ PostRefresh(c)
  BY <1>0, <1>1 DEF PostRefresh
<1>5. \A o : call' = [call EXCEPT ![c].op = o] => call'[c].op = o
  BY <1>0, <1>3 DEF Call
<1>6. ~ RevokeFamily(c) /\ ~ Fail(c)
  BY <1>5 DEF RevokeFamily, Fail
<1>7. ~ \E t \in Tokens : CreateToken(c, t)
  <2> SUFFICES ASSUME NEW t \in Tokens, CreateToken(c, t) PROVE FALSE
    OBVIOUS
  <2>1. call'[c] = [call[c] EXCEPT !.op = "granted", !.token = t]
    BY <1>0 DEF CreateToken
  <2> QED
    BY <1>3, <2>1 DEF Call
<1>8. ASSUME ReadToken(c)
      PROVE  call[c].op = "posted" /\ call'[c].op = "rotate" /\ row[call[c].token].state = "live"
  <2>1. CASE row[call[c].token].state = "live"
    BY <1>5, <1>8, <2>1 DEF ReadToken
  <2>2. CASE row[call[c].token].state = "revoked"
    BY <1>5, <1>8, <2>2 DEF ReadToken
  <2>3. CASE row[call[c].token].state \notin {"live", "revoked"}
    BY <1>5, <1>8, <2>3 DEF ReadToken
  <2> QED
    BY <2>1, <2>2, <2>3
<1>9. ASSUME Rotate(c)
      PROVE  call[c].op = "rotate" /\ call'[c].op = "create"
  BY <1>5, <1>9 DEF Rotate
<1> QED
  BY <1>1, <1>2, <1>4, <1>6, <1>7, <1>8, <1>9, OpSteps

\* How a family gets a live token.
LEMMA LiveSteps ==
  ASSUME Typed, [Next]_vars, NEW f \in Families
  PROVE  \/ Live(f)' \subseteq Live(f)
         \/ \E t \in Tokens : /\ Live(f)' = Live(f) \cup {t}
                              /\ \/ \E b \in Tabs : SignIn(b, t, f)
                                 \/ \E c \in Calls : CreateToken(c, t) /\ call[c].family = f
<1>1. ASSUME Lowers
      PROVE  Live(f)' \subseteq Live(f)
  <2> SUFFICES ASSUME NEW t \in Tokens, row'[t].state = "live", row'[t].family = f
               PROVE  row[t].state = "live" /\ row[t].family = f
    BY DEF Live
  <2>1. row[t].state = "live"
    BY <1>1 DEF Lowers
  <2> QED
    BY <1>1, <2>1, RowFacts DEF Lowers, Typed
<1>2. ASSUME NEW t \in Tokens, NEW g \in Families, Adds(t, g)
      PROVE  /\ g # f => Live(f)' \subseteq Live(f)
             /\ g = f => Live(f)' = Live(f) \cup {t}
  <2>1. /\ row'[t].state = "live" /\ row'[t].family = g /\ row[t].state # "live"
        /\ \A u \in Tokens \ {t} : row'[u] = row[u]
    BY <1>2 DEF Adds, Unused, Typed, TypeOK
  <2> QED
    BY <2>1 DEF Live
<1>3. ASSUME Next
      PROVE  \/ Lowers
             \/ \E b \in Tabs, t \in Tokens, g \in Families : SignIn(b, t, g) /\ Adds(t, g)
             \/ \E c \in Calls, t \in Tokens, g \in Families : CreateToken(c, t) /\ Adds(t, g) /\ call[c].family = g
  BY RowSteps
<1>4. CASE UNCHANGED vars
  BY <1>4 DEF vars, server, Live
<1> QED
  BY <1>1, <1>2, <1>3, <1>4

HalfOps == {"rotate", "create"}

\* Where a family is revoked as a whole.
LEMMA RevokedSteps ==
  ASSUME Typed, [Next]_vars, NEW f \in revoked' \ straddled'
  PROVE  \/ f \in revoked \ straddled /\ ~ \E b \in Tabs, t \in Tokens : SignIn(b, t, f)
         \/ /\ Refreshing(f, HalfOps) = {}
            /\ \/ \E b \in Tabs : Logout(b) /\ row[mem[b]].family = f
               \/ \E c \in Calls : RevokeFamily(c) /\ call[c].family = f
<1>1. ASSUME NEW g, RevokedAsWhole(g)
      PROVE  f \in revoked \ straddled \/ (f = g /\ Refreshing(f, HalfOps) = {})
  BY <1>1 DEF RevokedAsWhole, HalfOps
<1>2. ASSUME NEW b \in Tabs, NEW t \in Tokens, NEW g \in Families, SignIn(b, t, g)
      PROVE  f \in revoked \ straddled /\ f # g
  BY <1>2 DEF SignIn
<1>3. CASE \E b \in Tabs, t \in Tokens, g \in Families : SignIn(b, t, g)
  <2>1. ASSUME NEW b \in Tabs, NEW t \in Tokens, SignIn(b, t, f)
        PROVE  FALSE
    BY <2>1 DEF SignIn
  <2> QED
    BY <1>2, <1>3, <2>1
<1>4. CASE ~ \E b \in Tabs, t \in Tokens, g \in Families : SignIn(b, t, g)
  <2>0. ASSUME NEW b \in Tabs, NEW t \in Tokens, SignIn(b, t, f)
        PROVE  FALSE
    BY <2>0 DEF SignIn
  <2>1. ASSUME NEW b \in Tabs, Logout(b)
        PROVE  f \in revoked \ straddled \/ (f = row[mem[b]].family /\ Refreshing(f, HalfOps) = {})
    BY <1>1, <2>1 DEF Logout
  <2>2. ASSUME NEW c \in Calls, RevokeFamily(c)
        PROVE  f \in revoked \ straddled \/ (f = call[c].family /\ Refreshing(f, HalfOps) = {})
    BY <1>1, <2>2 DEF RevokeFamily
  <2>3. ASSUME NEW c \in Calls, Client(c)
        PROVE  f \in revoked \ straddled
    BY <2>3 DEF Client, BeRefused, PostRefresh, GiveUp, TakeTokens, ClearTokens, Disconnect, Unheard, server
  <2>4. ASSUME NEW c \in Calls, Server(c), ~RevokeFamily(c)
        PROVE  f \in revoked \ straddled
    BY <2>4 DEF Server, ReadToken, Rotate, Fail, Crash, CreateToken, server
  <2>5. CASE (\E b \in Tabs : Reload(b)) \/ (\E t \in Tokens : TokenExpires(t)) \/ UNCHANGED vars
    <3>1. revoked' = revoked /\ straddled' = straddled
      BY <2>5 DEF Reload, TokenExpires, vars, server
    <3> QED
      BY <2>0, <3>1
  <2> QED
    BY <1>4, <2>0, <2>1, <2>2, <2>3, <2>4, <2>5 DEF Next
<1> QED
  BY <1>3, <1>4

\* A family that was ended has no live token and nobody about to make one.
Dead == \A f \in revoked \ straddled : Live(f) = {} /\ Refreshing(f, HalfOps) = {}

LEMMA DeadStep ==
  ASSUME Typed, Dead, [Next]_vars
  PROVE  Dead'
<1> SUFFICES ASSUME NEW f \in revoked' \ straddled'
             PROVE  Live(f)' = {} /\ \A c \in Calls : call'[c].op \in HalfOps => call'[c].family # f
  BY DEF Dead, Refreshing
<1>0. f \in Families
  BY TypeStep DEF TypeOK
<1>1. CASE f \in revoked \ straddled /\ ~ \E b \in Tabs, t \in Tokens : SignIn(b, t, f)
  <2>1. Live(f) = {} /\ Refreshing(f, HalfOps) = {}
    BY <1>1 DEF Dead
  <2>2. ~ \E c \in Calls, t \in Tokens : CreateToken(c, t) /\ call[c].family = f
    BY <2>1 DEF CreateToken, Refreshing, HalfOps
  <2>3. Live(f)' = {}
    BY <1>0, <1>1, <2>1, <2>2, LiveSteps
  <2>4. ASSUME NEW c \in Calls, call'[c].op \in HalfOps, call'[c].family = f
        PROVE  FALSE
    <3>1. call[c].op \in HalfOps \/ (call[c].op = "posted" /\ row[call[c].token].state = "live")
      BY <2>4, HalfWay DEF HalfOps
    <3>2. call[c].family = f
      BY <2>4, HalfWay DEF HalfOps
    <3>3. call[c].op \notin HalfOps
      BY <2>1, <3>2 DEF Refreshing
    <3>4. call[c].op = "posted" /\ call[c].token \in Live(f)
      BY <3>1, <3>2, <3>3, CallKnows DEF Live, Full, AtServer
    <3> QED
      BY <2>1, <3>4
  <2> QED
    BY <2>3, <2>4
<1>2. ASSUME Refreshing(f, HalfOps) = {}, NEW t \in Tokens, row[t] \in Row, row[t].family = f,
             row' = RevokeAll(t)
      PROVE  Live(f)' = {}
  <2>1. ASSUME NEW x \in Tokens, row'[x].state = "live", row'[x].family = f
        PROVE  FALSE
    <3>1. row[x] \in Row /\ row[x].family = f
      BY <1>2, <2>1, RevokesAll, RowFacts DEF Lowers, Typed
    <3> QED
      BY <1>2, <2>1, <3>1, RevokesAll DEF Typed
  <2> QED
    BY <2>1 DEF Live
<1>3. ASSUME NEW b \in Tabs, Refreshing(f, HalfOps) = {}, Logout(b), row[mem[b]].family = f
      PROVE  Live(f)' = {} /\ \A c \in Calls : call'[c].op \in HalfOps => call'[c].family # f
  <2>1. mem[b] \in Tokens /\ row[mem[b]] \in Row
    BY <1>3 DEF Typed, TypeOK, Known, Logout
  <2> QED
    BY <1>2, <1>3, <2>1 DEF Logout, Refreshing
<1>4. ASSUME NEW c \in Calls, Refreshing(f, HalfOps) = {}, RevokeFamily(c), call[c].family = f
      PROVE  Live(f)' = {} /\ \A d \in Calls : call'[d].op \in HalfOps => call'[d].family # f
  <2>1. call[c].token \in Tokens /\ row[call[c].token] \in Row /\ row[call[c].token].family = f
    BY <1>4, CallKnows DEF RevokeFamily, Full, AtServer
  <2>2. \A d \in Calls : call'[d].op \in HalfOps => call'[d].family = call[d].family /\ call[d].op \in HalfOps
    <3>1. ~ \E d \in Calls : ReadToken(d)
      <4> SUFFICES ASSUME NEW d \in Calls, ReadToken(d) PROVE FALSE
        OBVIOUS
      <4>1. row' = row
        BY DEF ReadToken
      <4>2. call' = [call EXCEPT ![c].op = "denied"] /\ call[c].op = "reuse"
        BY <1>4 DEF RevokeFamily
      <4>3. call'[c].op = "denied"
        BY <4>2, OpSet DEF Typed, Full, AtServer
      <4>4. d = c
        BY <4>2, <4>3 DEF ReadToken, Typed, TypeOK
      <4> QED
        BY <4>2, <4>4 DEF ReadToken
    <3> QED
      BY <3>1, HalfWay DEF HalfOps
  <2> QED
    BY <1>2, <1>4, <2>1, <2>2 DEF RevokeFamily, Refreshing
<1> QED
  BY <1>1, <1>3, <1>4, RevokedSteps

\* Nobody races: one rotation at a time, its token the only live one until it
\* is revoked, and none until the next is made.
SingleOf(f) ==
  /\ \A s, t \in Live(f) : s = t
  /\ \A c, d \in Calls : (call[c].op \in HalfOps /\ call[c].family = f) =>
                         ((call[d].op \in HalfOps /\ call[d].family = f) => c = d)
  /\ \A c \in Calls : /\ call[c].op = "rotate" /\ call[c].family = f => Live(f) \subseteq {call[c].token}
                      /\ call[c].op = "create" /\ call[c].family = f => Live(f) = {}

Single == \A f \in Families \ raced : SingleOf(f)

LEMMA RacedSteps ==
  ASSUME Typed, [Next]_vars, NEW f \in Families, f \notin raced'
  PROVE  \/ f \notin raced
         \/ \E b \in Tabs, t \in Tokens : SignIn(b, t, f)
<1>1. ASSUME NEW b \in Tabs, NEW t \in Tokens, NEW g \in Families, SignIn(b, t, g), g # f
      PROVE  f \notin raced
  BY <1>1 DEF SignIn
<1>2. ASSUME NEW c \in Calls, Client(c) \/ Server(c)
      PROVE  f \notin raced
  <2>1. CASE Client(c)
    BY <2>1 DEF Client, BeRefused, PostRefresh, GiveUp, TakeTokens, ClearTokens, Disconnect, Unheard, server
  <2>2. CASE Server(c)
    BY <2>2 DEF Server, ReadToken, RevokeFamily, Rotate, Fail, Crash, CreateToken, server
  <2> QED
    BY <1>2, <2>1, <2>2
<1>3. CASE (\E b \in Tabs : Reload(b) \/ Logout(b)) \/ (\E t \in Tokens : TokenExpires(t)) \/ UNCHANGED vars
  BY <1>3 DEF Reload, Logout, TokenExpires, vars, server
<1> QED
  BY <1>1, <1>2, <1>3 DEF Next

\* What a reading or rotating handler finds and leaves.
LEMMA ReadFacts ==
  ASSUME Typed, NEW c \in Calls, ReadToken(c), row[call[c].token].state = "live"
  PROVE  /\ row' = row /\ call'[c].op = "rotate" /\ \A d \in Calls \ {c} : call'[d] = call[d]
         /\ call'[c].family = call[c].family /\ call'[c].token = call[c].token
         /\ call[c].token \in Live(call[c].family)
         /\ call[c].family \notin raced' => Refreshing(call[c].family, HalfOps) = {}
<1>1. call[c].op \in Full
  BY DEF ReadToken, Full, AtServer
<1>2. call' = [call EXCEPT ![c].op = "rotate"] /\ row' = row
  BY DEF ReadToken
<1>3. call[c].token \in Live(call[c].family)
  BY <1>1, CallKnows DEF Live
<1>4. call[c].family \notin raced' => Refreshing(call[c].family, HalfOps) = {}
  BY DEF ReadToken, HalfOps
<1> QED
  BY <1>1, <1>2, <1>3, <1>4, OpSet DEF Typed

LEMMA RotateFacts ==
  ASSUME Typed, NEW c \in Calls, Rotate(c)
  PROVE  /\ row'[call[c].token].state = "revoked" /\ \A t \in Tokens \ {call[c].token} : row'[t] = row[t]
         /\ call[c].op = "rotate" /\ call'[c].op = "create" /\ \A d \in Calls \ {c} : call'[d] = call[d]
         /\ call'[c].family = call[c].family /\ call'[c].token = call[c].token
<1>1. call[c].op \in Full
  BY DEF Rotate, Full, AtServer
<1>2. call' = [call EXCEPT ![c].op = "create"] /\ row' = [row EXCEPT ![call[c].token].state = "revoked"]
  BY DEF Rotate, RevokePrevious
<1>3. call[c].token \in Tokens /\ row[call[c].token] \in Row
  BY <1>1, CallKnows
<1> QED
  BY <1>1, <1>2, <1>3, OpSet, Ends DEF Typed, Rotate

LEMMA CreateFacts ==
  ASSUME Typed, NEW c \in Calls, NEW t \in Tokens, CreateToken(c, t)
  PROVE  /\ call[c].op = "create" /\ call'[c].op = "granted" /\ \A d \in Calls \ {c} : call'[d] = call[d]
         /\ call'[c].family = call[c].family /\ call'[c].token = t /\ call'[c].tab = call[c].tab
         /\ row'[t] \in Row /\ row'[t].state = "live" /\ row'[t].family = call[c].family
         /\ \A u \in Tokens \ {t} : row'[u] = row[u]
<1>1. call[c].op = "create" /\ call[c].op \in Full
  BY DEF CreateToken, Full, AtServer
<1>2. call[c] \in [op : Full, tab : Tabs \cup {Nobody}, token : Tokens, family : Families]
  <2>1. call[c] \in Call \cup {Idle}
    BY DEF Typed, TypeOK
  <2> QED
    BY <1>1, <2>1 DEF Call, Idle, Full, AtServer
<1>3. call'[c] = [call[c] EXCEPT !.op = "granted", !.token = t] /\ \A d \in Calls \ {c} : call'[d] = call[d]
  BY DEF CreateToken, Typed, TypeOK
<1>4. /\ call'[c].op = "granted" /\ call'[c].family = call[c].family
      /\ call'[c].token = t /\ call'[c].tab = call[c].tab
  BY <1>2, <1>3
<1>5. row'[t] = [family |-> call[c].family, state |-> "live"] /\ \A u \in Tokens \ {t} : row'[u] = row[u]
  BY DEF CreateToken, Typed, TypeOK
<1>6. call[c].family \in Families
  BY <1>2
<1> QED
  BY <1>1, <1>3, <1>4, <1>5, <1>6 DEF Row

LEMMA SignInFacts ==
  ASSUME Typed, NEW b \in Tabs, NEW t \in Tokens, NEW f \in Families, SignIn(b, t, f)
  PROVE  /\ Live(f) = {} /\ Refreshing(f, Full) = {} /\ call' = call
         /\ row'[t] \in Row /\ row'[t].state = "live" /\ row'[t].family = f
         /\ \A u \in Tokens \ {t} : row'[u] = row[u]
<1>1. \A x \in Tokens : row[x].state = "live" => row[x].family # f
  <2> SUFFICES ASSUME NEW x \in Tokens, row[x].state = "live", row[x].family = f PROVE FALSE
    OBVIOUS
  <2>1. row[x] # NoRow
    BY RowFacts DEF Typed
  <2> QED
    BY <2>1 DEF SignIn, InFamily, Unused
<1>2. row'[t] = [family |-> f, state |-> "live"] /\ \A u \in Tokens \ {t} : row'[u] = row[u]
  BY DEF SignIn, Typed, TypeOK
<1>3. Live(f) = {}
  BY <1>1 DEF Live
<1>4. Refreshing(f, Full) = {} /\ call' = call
  BY DEF SignIn, Full
<1>5. row'[t] \in Row /\ row'[t].state = "live" /\ row'[t].family = f
  BY <1>2 DEF Row
<1> QED
  BY <1>2, <1>3, <1>4, <1>5

LEMMA SingleStep ==
  ASSUME Typed, Single, [Next]_vars
  PROVE  Single'
<1> SUFFICES ASSUME NEW f \in Families, f \notin raced'
             PROVE  SingleOf(f)'
  BY DEF Single
<1>0. SUFFICES /\ \A s, t \in Live(f)' : s = t
               /\ \A c, d \in Calls : (call'[c].op \in HalfOps /\ call'[c].family = f) =>
                                      ((call'[d].op \in HalfOps /\ call'[d].family = f) => c = d)
               /\ \A c \in Calls : /\ call'[c].op = "rotate" /\ call'[c].family = f =>
                                        Live(f)' \subseteq {call'[c].token}
                                   /\ call'[c].op = "create" /\ call'[c].family = f => Live(f)' = {}
  BY DEF SingleOf
<1>1. CASE \E b \in Tabs, t \in Tokens : SignIn(b, t, f)
  <2>1. PICK b \in Tabs, t \in Tokens : SignIn(b, t, f)
    BY <1>1
  <2>2. Live(f)' \subseteq {t}
    BY <2>1, SignInFacts DEF Live
  <2>3. \A c \in Calls : ~ (call'[c].op \in HalfOps /\ call'[c].family = f)
    BY <2>1, SignInFacts DEF Refreshing, Full, AtServer, HalfOps
  <2> QED
    BY <2>2, <2>3 DEF HalfOps
<1>2. CASE f \notin raced /\ ~ \E b \in Tabs, t \in Tokens : SignIn(b, t, f)
  <2>0. /\ \A s, t \in Live(f) : s = t
        /\ \A c, d \in Calls : (call[c].op \in HalfOps /\ call[c].family = f) =>
                              ((call[d].op \in HalfOps /\ call[d].family = f) => c = d)
        /\ \A c \in Calls : /\ call[c].op = "rotate" /\ call[c].family = f => Live(f) \subseteq {call[c].token}
                            /\ call[c].op = "create" /\ call[c].family = f => Live(f) = {}
    BY <1>2 DEF Single, SingleOf
  <2>1. CASE \E c \in Calls, t \in Tokens : CreateToken(c, t) /\ call[c].family = f
    <3>1. PICK c \in Calls, t \in Tokens : CreateToken(c, t) /\ call[c].family = f
      BY <2>1
    <3>2. call[c].op = "create" /\ Live(f) = {}
      BY <2>0, <3>1, CreateFacts
    <3>3. Live(f)' \subseteq {t}
      BY <3>1, <3>2, CreateFacts DEF Live
    <3>4. \A d \in Calls : ~ (call'[d].op \in HalfOps /\ call'[d].family = f)
      BY <2>0, <3>1, <3>2, CreateFacts DEF HalfOps
    <3> QED
      BY <3>3, <3>4 DEF HalfOps
  <2>2. CASE ~ \E c \in Calls, t \in Tokens : CreateToken(c, t) /\ call[c].family = f
    <3>1. Live(f)' \subseteq Live(f)
      BY <1>2, <2>2, LiveSteps
    <3>2. CASE \E c \in Calls : ReadToken(c) /\ call[c].family = f /\ row[call[c].token].state = "live"
      <4>1. PICK c \in Calls : ReadToken(c) /\ call[c].family = f /\ row[call[c].token].state = "live"
        BY <3>2
      <4>2. /\ call'[c].op = "rotate" /\ call'[c].token = call[c].token /\ call[c].token \in Live(f)
            /\ Refreshing(f, HalfOps) = {} /\ \A d \in Calls \ {c} : call'[d] = call[d]
        BY <4>1, ReadFacts
      <4>3. \A d \in Calls : call'[d].op \in HalfOps /\ call'[d].family = f => d = c
        BY <4>2 DEF Refreshing
      <4>4. Live(f)' \subseteq {call'[c].token}
        BY <2>0, <3>1, <4>2
      <4> QED
        BY <2>0, <3>1, <4>2, <4>3, <4>4 DEF HalfOps
    <3>3. CASE \E c \in Calls : Rotate(c) /\ call[c].family = f
      <4>1. PICK c \in Calls : Rotate(c) /\ call[c].family = f
        BY <3>3
      <4>2. /\ call[c].op = "rotate" /\ call'[c].op = "create" /\ row'[call[c].token].state = "revoked"
            /\ \A d \in Calls \ {c} : call'[d] = call[d]
        BY <4>1, RotateFacts
      <4>3. Live(f)' = {}
        BY <2>0, <3>1, <4>1, <4>2 DEF Live
      <4>4. \A d \in Calls : call'[d].op \in HalfOps /\ call'[d].family = f => d = c
        BY <2>0, <4>1, <4>2 DEF HalfOps
      <4> QED
        BY <4>3, <4>4
    <3>4. CASE /\ ~ \E c \in Calls : ReadToken(c) /\ call[c].family = f /\ row[call[c].token].state = "live"
               /\ ~ \E c \in Calls : Rotate(c) /\ call[c].family = f
      <4>1. ASSUME NEW c \in Calls, call'[c].op \in HalfOps, call'[c].family = f
            PROVE  call[c].op = call'[c].op /\ call[c].family = f /\ call'[c].token = call[c].token
        BY <3>4, <4>1, HalfWay DEF HalfOps
      <4>2. \A c, d \in Calls : (call'[c].op \in HalfOps /\ call'[c].family = f) =>
                               ((call'[d].op \in HalfOps /\ call'[d].family = f) => c = d)
        BY <2>0, <4>1
      <4>3. ASSUME NEW c \in Calls
            PROVE  /\ call'[c].op = "rotate" /\ call'[c].family = f => Live(f)' \subseteq {call'[c].token}
                   /\ call'[c].op = "create" /\ call'[c].family = f => Live(f)' = {}
        BY <2>0, <3>1, <4>1 DEF HalfOps
      <4> QED
        BY <2>0, <3>1, <4>2, <4>3
    <3> QED
      BY <3>2, <3>3, <3>4
  <2> QED
    BY <2>1, <2>2
<1> QED
  BY <1>1, <1>2, RacedSteps

-----------------------------------------------------------------------------
(* What an app keeps of a session nothing has happened to *)

\* The refreshes of f the server works on, or whose tokens are on their way.
Waiting == AtServer \cup {"granted"}

\* f is the family of the token t.
Of(t, f) == t # None /\ row[t] \in Row /\ row[t].family = f

\* Of a family that may not end unasked: nobody who waits is told it is over,
\* one refresh at a time, of the only tab that has the session; the tokens the
\* tabs and the browser keep are live until one is rotated.
SoloOf(f) ==
  /\ \A c \in Calls : call[c].op = "denied" /\ call[c].tab # Nobody => call[c].family # f
  /\ \A c, d \in Calls : (call[c].op \in Waiting /\ call[c].family = f) =>
                         ((call[d].op \in Waiting /\ call[d].family = f) => c = d)
  /\ \A c \in Calls : call[c].op \in Waiting /\ call[c].family = f =>
       /\ call[c].tab \in Tabs /\ call[c].op # "reuse"
       /\ call[c].op # "create" => row[call[c].token].state = "live"
       /\ \A b \in Tabs : Of(mem[b], f) => b = call[c].tab
  /\ (\A c \in Calls : call[c].op \in {"create", "granted"} => call[c].family # f) =>
       /\ \A b \in Tabs : Of(mem[b], f) => row[mem[b]].state = "live"
       /\ Of(stored, f) => row[stored].state = "live"

Solo == Persists => \A f \in Families \ excused : SoloOf(f)

\* A step that is not about f: the rows of f that are held stay, no call about f
\* appears or moves, none that holds or makes its new token goes, and a tab gets
\* a token of f only from the browser's store, while nobody waits for another.
LEMMA QuietStep ==
  ASSUME Typed, [Next]_vars, NEW f, SoloOf(f),
         \A t \in Tokens : Held(t) /\ row[t] \in Row /\ row[t].family = f => row'[t] = row[t],
         \A c \in Calls : \/ call'[c].op \notin Full \/ call'[c].family # f \/ call'[c] = call[c]
                          \/ call'[c].op = "denied" /\ call'[c].tab = Nobody,
         \A c \in Calls : call[c].op \in {"create", "granted"} /\ call[c].family = f => call'[c] = call[c],
         \A b \in Tabs : \/ mem'[b] = None \/ mem'[b] = mem[b]
                         \/ row'[mem'[b]].family # f
                         \/ mem'[b] = stored /\ \A c \in Calls : call[c].op \in Waiting => call[c].family # f,
         stored' = None \/ stored' = stored \/ row'[stored'].family # f
  PROVE  SoloOf(f)'
<1> DEFINE OfN(t) == t # None /\ row'[t] \in Row /\ row'[t].family = f
<1>0. mem \in [Tabs -> Tokens \cup {None}] /\ stored \in Tokens \cup {None}
  BY DEF Typed, TypeOK
<1>1. ASSUME NEW t \in Tokens, Held(t), row[t] \in Row, OfN(t)
      PROVE  Of(t, f) /\ row'[t] = row[t]
  <2>1. row'[t].family = row[t].family
    BY <1>1, HeldKept
  <2> QED
    BY <1>1, <2>1 DEF Of
<1>2. \A b \in Tabs : OfN(mem[b]) => Of(mem[b], f) /\ row'[mem[b]] = row[mem[b]]
  BY <1>0, <1>1 DEF Held, Typed, Known
<1>3. OfN(stored) => Of(stored, f) /\ row'[stored] = row[stored]
  BY <1>0, <1>1 DEF Held, Typed, Known
<1>4. \A c \in Calls : call[c].op \in Full /\ call[c].family = f => row'[call[c].token] = row[call[c].token]
  BY CallKnows
<1>5. \A c \in Calls : call'[c].op \in Waiting /\ call'[c].family = f => call'[c] = call[c]
  BY DEF Waiting, Full, AtServer
<1>6. \A c \in Calls : call'[c].op = "denied" /\ call'[c].tab # Nobody => call'[c].family # f
  BY DEF SoloOf, Full
<1>7. \A c, d \in Calls : (call'[c].op \in Waiting /\ call'[c].family = f) =>
                          ((call'[d].op \in Waiting /\ call'[d].family = f) => c = d)
  BY <1>5 DEF SoloOf
<1>8. ASSUME NEW c \in Calls, call'[c].op \in Waiting, call'[c].family = f
      PROVE  /\ call'[c].tab \in Tabs /\ call'[c].op # "reuse"
             /\ call'[c].op # "create" => row'[call'[c].token].state = "live"
             /\ \A b \in Tabs : OfN(mem'[b]) => b = call'[c].tab
  <2>1. call'[c] = call[c]
    BY <1>5, <1>8
  <2>2. call[c].op \in Full
    BY <1>8, <2>1 DEF Waiting, Full, AtServer
  <2>3. /\ call[c].tab \in Tabs /\ call[c].op # "reuse"
        /\ call[c].op # "create" => row[call[c].token].state = "live"
        /\ \A b \in Tabs : Of(mem[b], f) => b = call[c].tab
    BY <1>8, <2>1 DEF SoloOf
  <2>4. \A b \in Tabs : OfN(mem'[b]) => mem'[b] = mem[b]
    BY <1>8, <2>1
  <2> QED
    BY <1>2, <1>4, <1>8, <2>1, <2>2, <2>3, <2>4
<1>9. ASSUME \A c \in Calls : call'[c].op \in {"create", "granted"} => call'[c].family # f
      PROVE  /\ \A b \in Tabs : OfN(mem'[b]) => row'[mem'[b]].state = "live"
             /\ OfN(stored') => row'[stored'].state = "live"
  <2>1. \A c \in Calls : call[c].op \in {"create", "granted"} => call[c].family # f
    BY <1>9
  <2>2. /\ \A b \in Tabs : Of(mem[b], f) => row[mem[b]].state = "live"
        /\ Of(stored, f) => row[stored].state = "live"
    BY <2>1 DEF SoloOf
  <2>3. \A b \in Tabs : OfN(mem'[b]) => mem'[b] = mem[b] \/ mem'[b] = stored
    OBVIOUS
  <2>4. OfN(stored') => stored' = stored
    OBVIOUS
  <2> QED
    BY <1>2, <1>3, <2>2, <2>3, <2>4
<1> HIDE DEF OfN
<1> QED
  BY <1>6, <1>7, <1>8, <1>9 DEF SoloOf, Of, OfN

\* The same for a step that moves one call and leaves the browser alone.
LEMMA QuietCall ==
  ASSUME Typed, [Next]_vars, NEW f, SoloOf(f), mem' = mem, stored' = stored,
         \A t \in Tokens : Held(t) /\ row[t] \in Row /\ row[t].family = f => row'[t] = row[t],
         NEW c \in Calls, \A d \in Calls \ {c} : call'[d] = call[d],
         \/ call'[c].op \notin Full \/ call'[c].family # f
         \/ call'[c].op = "denied" /\ call'[c].tab = Nobody,
         ~ (call[c].op \in {"create", "granted"} /\ call[c].family = f)
  PROVE  SoloOf(f)'
<1>1. \A d \in Calls : \/ call'[d].op \notin Full \/ call'[d].family # f \/ call'[d] = call[d]
                       \/ call'[d].op = "denied" /\ call'[d].tab = Nobody
  OBVIOUS
<1>2. \A d \in Calls : call[d].op \in {"create", "granted"} /\ call[d].family = f => call'[d] = call[d]
  OBVIOUS
<1> QED
  BY <1>1, <1>2, QuietStep

\* The one refresh of f moves on: its token is read, revoked, or replaced.
LEMMA OwnStep ==
  ASSUME Typed, [Next]_vars, NEW f, SoloOf(f), mem' = mem, stored' = stored,
         NEW c \in Calls, \A d \in Calls \ {c} : call'[d] = call[d],
         call[c].op \in Waiting, call[c].family = f,
         call'[c].family = f, call'[c].tab = call[c].tab,
         \/ call[c].op = "posted" /\ call'[c].op = "rotate" /\ row' = row
         \/ call'[c].op = "create"
         \/ call'[c].op = "granted",
         call'[c].op # "create" => row'[call'[c].token].state = "live"
  PROVE  SoloOf(f)'
<1> DEFINE OfN(t) == t # None /\ row'[t] \in Row /\ row'[t].family = f
<1>1. \A d \in Calls \ {c} : ~ (call[d].op \in Waiting /\ call[d].family = f)
  BY DEF SoloOf
<1>2. call[c].tab \in Tabs /\ \A b \in Tabs : Of(mem[b], f) => b = call[c].tab
  BY DEF SoloOf
<1>3. \A b \in Tabs : OfN(mem'[b]) => Of(mem[b], f)
  <2> SUFFICES ASSUME NEW b \in Tabs, OfN(mem[b])
               PROVE  Of(mem[b], f)
    OBVIOUS
  <2>1. mem[b] \in Tokens /\ row[mem[b]] \in Row /\ Held(mem[b])
    BY DEF Typed, TypeOK, Known, Held
  <2> QED
    BY <2>1, HeldKept DEF Of
<1>4. \A d \in Calls : call'[d].op = "denied" /\ call'[d].tab # Nobody => call'[d].family # f
  BY DEF SoloOf
<1>5. \A d \in Calls : call'[d].op \in Waiting /\ call'[d].family = f => d = c
  BY <1>1
<1>6. /\ call'[c].tab \in Tabs /\ call'[c].op # "reuse"
      /\ call'[c].op # "create" => row'[call'[c].token].state = "live"
      /\ \A b \in Tabs : OfN(mem'[b]) => b = call'[c].tab
  BY <1>2, <1>3
<1>7. ASSUME \A d \in Calls : call'[d].op \in {"create", "granted"} => call'[d].family # f
      PROVE  /\ \A b \in Tabs : OfN(mem'[b]) => row'[mem'[b]].state = "live"
             /\ OfN(stored') => row'[stored'].state = "live"
  <2>1. call[c].op = "posted" /\ row' = row
    BY <1>7
  <2>2. \A d \in Calls : call[d].op \in {"create", "granted"} => call[d].family # f
    BY <1>1, <2>1 DEF Waiting, AtServer
  <2>3. /\ \A b \in Tabs : Of(mem[b], f) => row[mem[b]].state = "live"
        /\ Of(stored, f) => row[stored].state = "live"
    BY <2>2 DEF SoloOf
  <2> QED
    BY <2>1, <2>3 DEF Of
<1> HIDE DEF OfN
<1>8. \A d \in Calls : call'[d].op \in Waiting /\ call'[d].family = f =>
       /\ call'[d].tab \in Tabs /\ call'[d].op # "reuse"
       /\ call'[d].op # "create" => row'[call'[d].token].state = "live"
       /\ \A b \in Tabs : OfN(mem'[b]) => b = call'[d].tab
  BY <1>5, <1>6
<1>9. \A d, e \in Calls : (call'[d].op \in Waiting /\ call'[d].family = f) =>
                         ((call'[e].op \in Waiting /\ call'[e].family = f) => d = e)
  BY <1>5
<1> QED
  BY <1>4, <1>7, <1>8, <1>9 DEF SoloOf, Of, OfN

LEMMA ExcusedSteps ==
  ASSUME Typed, [Next]_vars, NEW f \in Families, f \notin excused'
  PROVE  \/ f \notin excused
         \/ \E b \in Tabs, t \in Tokens : SignIn(b, t, f)
<1>1. ASSUME NEW b \in Tabs, NEW t \in Tokens, NEW g \in Families, SignIn(b, t, g), g # f
      PROVE  f \notin excused
  BY <1>1 DEF SignIn
<1>2. ASSUME NEW c \in Calls, Client(c) \/ Server(c)
      PROVE  f \notin excused
  <2>1. CASE Client(c)
    BY <2>1 DEF Client, BeRefused, PostRefresh, GiveUp, TakeTokens, ClearTokens, Disconnect, Unheard
  <2>2. CASE Server(c)
    BY <2>2 DEF Server, ReadToken, RevokeFamily, Rotate, Fail, Crash, CreateToken
  <2> QED
    BY <1>2, <2>1, <2>2
<1>3. CASE (\E b \in Tabs : Reload(b) \/ Logout(b)) \/ (\E t \in Tokens : TokenExpires(t)) \/ UNCHANGED vars
  BY <1>3 DEF Reload, Logout, TokenExpires, vars
<1> QED
  BY <1>1, <1>2, <1>3 DEF Next

\* A session that starts has one tab and one token.
LEMMA SignInSolo ==
  ASSUME Typed, [Next]_vars, NEW b \in Tabs, NEW t \in Tokens, NEW f \in Families, SignIn(b, t, f)
  PROVE  SoloOf(f)'
<1> DEFINE OfN(u) == u # None /\ row'[u] \in Row /\ row'[u].family = f
<1>1. \A c \in Calls : call'[c].op \in Full => call'[c].family # f
  BY SignInFacts DEF Refreshing
<1>2. mem' = [mem EXCEPT ![b] = t] /\ stored' = t /\ row'[t].state = "live"
  BY SignInFacts DEF SignIn
<1>3. ASSUME NEW x \in Tabs \ {b}
      PROVE  ~ OfN(mem'[x])
  <2> SUFFICES ASSUME mem[x] # None, row'[mem[x]] \in Row, row'[mem[x]].family = f
               PROVE  FALSE
    BY <1>2, <1>3 DEF Typed, TypeOK
  <2>1. mem[x] \in Tokens /\ row[mem[x]] \in Row /\ Held(mem[x])
    BY <1>3 DEF Typed, TypeOK, Known, Held
  <2>2. row[mem[x]].family = f
    BY <2>1, HeldKept
  <2>3. row[mem[x]] # NoRow
    BY <2>1, RowFacts DEF Typed
  <2> QED
    BY <2>1, <2>2, <2>3 DEF SignIn, InFamily, Unused
<1>4. \A x \in Tabs : OfN(mem'[x]) => row'[mem'[x]].state = "live"
  BY <1>2, <1>3 DEF Typed, TypeOK
<1> HIDE DEF OfN
<1>5. Waiting \subseteq Full /\ "denied" \in Full
  BY DEF Waiting, Full
<1>6. OfN(stored') => row'[stored'].state = "live"
  BY <1>2
<1> QED
  BY <1>1, <1>4, <1>5, <1>6 DEF SoloOf, Of, OfN

\* The browser's own steps: reload, sign-out, time.
LEMMA ReloadSolo ==
  ASSUME Typed, [Next]_vars, NEW f \in Families, SoloOf(f), f \notin excused', NEW b \in Tabs, Reload(b)
  PROVE  SoloOf(f)'
<1>0. /\ row' = row /\ mem' = [mem EXCEPT ![b] = stored] /\ stored' = stored
      /\ f \notin Awaited(b) /\ f \notin BeingRotated
  BY DEF Reload, server
<1>1. ASSUME NEW c \in Calls, call[c].op \in Waiting, call[c].family = f
      PROVE  call[c].tab # b
  BY <1>0, <1>1 DEF Awaited, Refreshing, Waiting
<1>2. ASSUME NEW c \in Calls, call[c] # Idle, call[c].tab = b, call[c].op # "refused"
      PROVE  call'[c].op = call[c].op /\ call'[c].family = call[c].family /\ call'[c].tab = Nobody
  <2>1. call'[c] = [call[c] EXCEPT !.tab = Nobody]
    BY <1>2 DEF Reload
  <2>2. call[c] \in Call /\ call[c].op \in Full
    BY <1>2, CallFacts DEF Typed
  <2>3. call[c] \in [op : Full, tab : Tabs \cup {Nobody}, token : Tokens, family : Families]
    BY <2>2 DEF Call, Full, AtServer
  <2> QED
    BY <2>1, <2>3
<1>3. ASSUME NEW c \in Calls
      PROVE  \/ call'[c].op \notin Full \/ call'[c].family # f \/ call'[c] = call[c]
             \/ call'[c].op = "denied" /\ call'[c].tab = Nobody
  <2>1. CASE call[c] = Idle \/ call[c].tab # b
    BY <2>1 DEF Reload
  <2>2. CASE call[c] # Idle /\ call[c].tab = b /\ call[c].op = "refused"
    <3>1. call'[c] = Idle
      BY <2>2 DEF Reload
    <3> QED
      BY <3>1 DEF Idle, Full, AtServer
  <2>3. CASE call[c] # Idle /\ call[c].tab = b /\ call[c].op # "refused"
    BY <1>1, <1>2, <2>3 DEF Full, Waiting
  <2> QED
    BY <2>1, <2>2, <2>3
<1>4. ASSUME NEW c \in Calls, call[c].op \in {"create", "granted"}, call[c].family = f
      PROVE  call'[c] = call[c]
  <2>1. call[c].tab # b
    BY <1>1, <1>4 DEF Waiting, AtServer
  <2> QED
    BY <2>1 DEF Reload
<1>5. \/ stored = None \/ row'[stored].family # f
      \/ \A c \in Calls : call[c].op \in Waiting => call[c].family # f
  BY <1>0 DEF BeingRotated, Refreshing, Waiting
<1>6. ASSUME NEW x \in Tabs
      PROVE  \/ mem'[x] = None \/ mem'[x] = mem[x] \/ row'[mem'[x]].family # f
             \/ mem'[x] = stored /\ \A c \in Calls : call[c].op \in Waiting => call[c].family # f
  BY <1>0, <1>5 DEF Typed, TypeOK
<1> QED
  BY <1>0, <1>3, <1>4, <1>6, QuietStep

\* Ending or ageing tokens of other families.
LEMMA OtherRows ==
  ASSUME Typed, [Next]_vars, NEW f \in Families, SoloOf(f), UNCHANGED <<browser, call>>,
         \A t \in Tokens : Held(t) /\ row[t] \in Row /\ row[t].family = f => row'[t] = row[t]
  PROVE  SoloOf(f)'
<1>1. mem' = mem /\ stored' = stored /\ call' = call
  BY DEF browser
<1> QED
  BY <1>1, QuietStep

LEMMA LogoutSolo ==
  ASSUME Typed, [Next]_vars, NEW f \in Families, SoloOf(f), f \notin excused', NEW b \in Tabs, Logout(b)
  PROVE  SoloOf(f)'
<1>1. f # row[mem[b]].family
  BY DEF Logout
<1>2. \A t \in Tokens : row[t].family = f => row'[t] = row[t]
  BY <1>1 DEF Logout, RevokeAll, InFamily
<1> QED
  BY <1>2, OtherRows DEF Logout

LEMMA ExpirySolo ==
  ASSUME Typed, [Next]_vars, NEW f \in Families, SoloOf(f), f \notin excused', NEW t \in Tokens, TokenExpires(t)
  PROVE  SoloOf(f)'
<1>1. f # row[t].family
  BY DEF TokenExpires
<1>2. \A u \in Tokens : row[u].family = f => row'[u] = row[u]
  BY <1>1 DEF TokenExpires, Typed, TypeOK
<1> QED
  BY <1>2, OtherRows DEF TokenExpires

LEMMA SignInOtherSolo ==
  ASSUME Typed, [Next]_vars, NEW f \in Families, SoloOf(f), NEW b \in Tabs, NEW t \in Tokens,
         NEW g \in Families \ {f}, SignIn(b, t, g)
  PROVE  SoloOf(f)'
<1>1. /\ call' = call /\ row'[t].family = g /\ \A u \in Tokens \ {t} : row'[u] = row[u]
      /\ mem' = [mem EXCEPT ![b] = t] /\ stored' = t /\ ~ Held(t)
  BY SignInFacts DEF SignIn, Unused
<1>2. \A x \in Tabs : mem'[x] = mem[x] \/ row'[mem'[x]].family # f
  BY <1>1 DEF Typed, TypeOK
<1> QED
  BY <1>1, <1>2, QuietStep

\* The client's steps on a call.
LEMMA ClientSolo ==
  ASSUME Typed, [Next]_vars, Persists, NEW f \in Families, SoloOf(f), f \notin excused',
         NEW c \in Calls, Client(c)
  PROVE  SoloOf(f)'
<1>0. call \in [Calls -> Call \cup {Idle}] /\ mem \in [Tabs -> Tokens \cup {None}]
  BY DEF Typed, TypeOK
<1>1. ASSUME UNCHANGED <<server, browser>>, \A d \in Calls \ {c} : call'[d] = call[d],
             \/ call'[c].op \notin Full \/ call'[c].family # f
             \/ call'[c].op = "denied" /\ call'[c].tab = Nobody,
             ~ (call[c].op \in {"create", "granted"} /\ call[c].family = f)
      PROVE  SoloOf(f)'
  <2>1. row' = row /\ mem' = mem /\ stored' = stored
    BY <1>1 DEF server, browser
  <2> QED
    BY <1>1, <2>1, QuietCall
<1>2. Idle.op \notin Full /\ \A b : [op |-> "refused", tab |-> b].op \notin Full
  BY DEF Idle, Full, AtServer
<1>3. ASSUME NEW b \in Tabs, BeRefused(c, b)
      PROVE  SoloOf(f)'
  <2>1. call'[c] = [op |-> "refused", tab |-> b] /\ \A d \in Calls \ {c} : call'[d] = call[d]
    BY <1>0, <1>3 DEF BeRefused
  <2>2. call[c].op \notin {"create", "granted"}
    BY <1>3 DEF BeRefused, Idle
  <2>3. call'[c].op \notin Full
    BY <1>2, <2>1
  <2> QED
    BY <1>1, <1>3, <2>1, <2>2, <2>3 DEF BeRefused
<1>4. CASE GiveUp(c)
  <2>1. call'[c].op \notin Full /\ \A d \in Calls \ {c} : call'[d] = call[d]
    BY <1>0, <1>2, <1>4 DEF GiveUp
  <2> QED
    BY <1>1, <1>4, <2>1 DEF GiveUp
<1>5. CASE Unheard(c)
  <2>1. call'[c].op \notin Full /\ \A d \in Calls \ {c} : call'[d] = call[d]
    BY <1>0, <1>2, <1>5 DEF Unheard
  <2>2. ~ (call[c].op \in {"create", "granted"} /\ call[c].family = f)
    BY <1>5, SessionsAssumption DEF Unheard, SoloOf, Waiting, AtServer
  <2> QED
    BY <1>1, <1>5, <2>1, <2>2 DEF Unheard
<1>6. CASE Disconnect(c)
  <2>0. call[c] \in [op : Full, tab : Tabs \cup {Nobody}, token : Tokens, family : Families]
    BY <1>0, <1>6 DEF Disconnect, Call, Idle, Full, AtServer
  <2>1. call'[c] = [call[c] EXCEPT !.tab = Nobody] /\ \A d \in Calls \ {c} : call'[d] = call[d]
    BY <1>0, <1>6 DEF Disconnect
  <2>2. call'[c].op = call[c].op /\ call'[c].family = call[c].family /\ call'[c].tab = Nobody
    BY <2>0, <2>1
  <2>3. call[c].op = "denied" \/ call[c].family # f
    BY <1>6 DEF Disconnect
  <2> QED
    BY <1>1, <1>6, <2>1, <2>2, <2>3 DEF Disconnect
<1>7. CASE ClearTokens(c)
  <2>1. call[c].op = "denied" /\ call[c].tab \in Tabs /\ call'[c].op \notin Full /\ stored' = None
        /\ mem' = [mem EXCEPT ![call[c].tab] = None] /\ row' = row /\ \A d \in Calls \ {c} : call'[d] = call[d]
    BY <1>0, <1>2, <1>7, CallFacts DEF ClearTokens, server, Typed, Full
  <2>2. \A b \in Tabs : mem'[b] = None \/ mem'[b] = mem[b]
    BY <1>0, <2>1
  <2>3. \A d \in Calls : call'[d].op \notin Full \/ call'[d] = call[d]
    BY <2>1
  <2>4. \A d \in Calls : call[d].op \in {"create", "granted"} => call'[d] = call[d]
    BY <2>1
  <2> QED
    BY <2>1, <2>2, <2>3, <2>4, QuietStep
<1>8. CASE TakeTokens(c)
  <2>1. /\ call[c].op = "granted" /\ call[c].tab \in Tabs /\ call'[c].op \notin Full
        /\ \A d \in Calls \ {c} : call'[d] = call[d]
        /\ mem' = [mem EXCEPT ![call[c].tab] = call[c].token] /\ stored' = call[c].token /\ row' = row
        /\ row[call[c].token] \in Row /\ row[call[c].token].family = call[c].family
    BY <1>0, <1>2, <1>8, CallFacts, CallKnows DEF TakeTokens, server, Kept, Typed, Full
  <2>2. \A b \in Tabs : mem'[b] = IF b = call[c].tab THEN call[c].token ELSE mem[b]
    BY <1>0, <2>1
  <2>3. CASE call[c].family # f
    <3>1. \A b \in Tabs : mem'[b] = mem[b] \/ row'[mem'[b]].family # f
      BY <2>1, <2>2, <2>3
    <3>2. \A d \in Calls : call'[d].op \notin Full \/ call'[d] = call[d]
      BY <2>1
    <3>3. \A d \in Calls : call[d].op \in {"create", "granted"} /\ call[d].family = f => call'[d] = call[d]
      BY <2>1, <2>3
    <3> QED
      BY <2>1, <2>3, <3>1, <3>2, <3>3, QuietStep
  <2>4. CASE call[c].family = f
    <3>0. Waiting \subseteq Full /\ "granted" \in Waiting /\ "denied" \in Full
      BY DEF Waiting, Full
    <3>1. row[call[c].token].state = "live" /\ \A b \in Tabs : Of(mem[b], f) => b = call[c].tab
      BY <2>1, <2>4, <3>0 DEF SoloOf
    <3>2. \A d \in Calls : call'[d].op \in Waiting => call'[d].family # f
      BY <2>1, <2>4, <3>0 DEF SoloOf
    <3>3. \A d \in Calls : call'[d].op = "denied" /\ call'[d].tab # Nobody => call'[d].family # f
      BY <2>1, <3>0 DEF SoloOf
    <3>4. \A b \in Tabs : Of(mem'[b], f) => row[mem'[b]].state = "live"
      BY <2>2, <3>1
    <3> QED
      BY <2>1, <3>1, <3>2, <3>3, <3>4 DEF SoloOf, Of
  <2> QED
    BY <2>3, <2>4
<1>9. CASE PostRefresh(c)
  <2> DEFINE b == call[c].tab
  <2>1. /\ call[c].op = "refused" /\ b \in Tabs /\ mem[b] \in Tokens /\ row[mem[b]] \in Row
        /\ row' = row /\ mem' = mem /\ stored' = stored
        /\ \A d \in Calls \ {c} : call'[d] = call[d]
        /\ call'[c] = [op |-> "posted", tab |-> b, token |-> mem[b], family |-> row[mem[b]].family]
    BY <1>0, <1>9, CallFacts DEF PostRefresh, server, browser, Typed, Known
  <2>2. CASE row[mem[b]].family # f
    BY <1>1, <1>9, <2>1, <2>2 DEF PostRefresh
  <2>3. CASE row[mem[b]].family = f
    <3>1. /\ Refreshing(f, AtServer \cup {"granted"}) = {}
          /\ \A o \in Tabs \ {b} : mem[o] = None \/ row[mem[o]].family # f
      BY <1>9, <2>3 DEF PostRefresh
    <3>2. \A d \in Calls : call[d].op \in Waiting => call[d].family # f
      BY <3>1 DEF Refreshing, Waiting
    <3>3. /\ \A x \in Tabs : Of(mem[x], f) => row[mem[x]].state = "live"
          /\ Of(stored, f) => row[stored].state = "live"
      BY <3>2 DEF SoloOf, Waiting, AtServer
    <3>4. Of(mem[b], f)
      BY <2>1, <2>3, SessionsAssumption DEF Of
    <3>5. \A d \in Calls : call'[d].op \in Waiting /\ call'[d].family = f => d = c
      BY <2>1, <3>2
    <3>6. /\ call'[c].op = "posted" /\ call'[c].tab = b /\ row'[call'[c].token].state = "live"
          /\ \A x \in Tabs : Of(mem'[x], f) => x = b
      BY <2>1, <3>1, <3>3, <3>4 DEF Of
    <3>7. \A d \in Calls : call'[d].op = "denied" /\ call'[d].tab # Nobody => call'[d].family # f
      BY <2>1, <3>6 DEF SoloOf
    <3>8. \A t : Of(t, f) <=> t # None /\ row'[t] \in Row /\ row'[t].family = f
      BY <2>1 DEF Of
    <3> HIDE DEF b
    <3> QED
      BY <2>1, <3>3, <3>5, <3>6, <3>7, <3>8 DEF SoloOf, Of
  <2> QED
    BY <2>2, <2>3
<1> QED
  BY <1>3, <1>4, <1>5, <1>6, <1>7, <1>8, <1>9 DEF Client

\* The server's steps on a call.
LEMMA ServerSolo ==
  ASSUME Typed, [Next]_vars, NEW f \in Families, SoloOf(f), f \notin excused',
         NEW c \in Calls, Server(c)
  PROVE  SoloOf(f)'
<1>0. mem' = mem /\ stored' = stored
  BY DEF Server, ReadToken, RevokeFamily, Rotate, Fail, Crash, CreateToken, browser
<1>1. call[c].op \in Full /\ call[c].op \in Waiting
  BY DEF Server, ReadToken, RevokeFamily, Rotate, Fail, Crash, CreateToken, Full, Waiting, AtServer
<1>2. /\ call[c].token \in Tokens /\ row[call[c].token] \in Row
      /\ row[call[c].token].family = call[c].family /\ Held(call[c].token)
  BY <1>1, CallKnows
<1>3. ASSUME row' = row, NEW o, call' = [call EXCEPT ![c].op = o], call[c].family # f
      PROVE  SoloOf(f)'
  <2>1. call'[c].family # f /\ \A d \in Calls \ {c} : call'[d] = call[d]
    BY <1>1, <1>3, OpSet DEF Typed
  <2> QED
    BY <1>0, <1>3, <2>1, QuietCall
<1>4. CASE ReadToken(c)
  <2>1. row' = row /\ call[c].op = "posted"
    BY <1>4 DEF ReadToken
  <2>2. CASE call[c].family # f
    BY <1>3, <1>4, <2>1, <2>2 DEF ReadToken
  <2>3. CASE call[c].family = f
    <3>1. row[call[c].token].state = "live"
      BY <1>1, <2>1, <2>3 DEF SoloOf
    <3>2. call' = [call EXCEPT ![c].op = "rotate"]
      BY <1>4, <3>1 DEF ReadToken
    <3>3. /\ call'[c].op = "rotate" /\ call'[c].tab = call[c].tab /\ call'[c].family = f
          /\ call'[c].token = call[c].token /\ \A d \in Calls \ {c} : call'[d] = call[d]
      BY <1>1, <2>3, <3>2, OpSet DEF Typed
    <3> QED
      BY <1>0, <1>1, <2>1, <2>3, <3>1, <3>3, OwnStep
  <2> QED
    BY <2>2, <2>3
<1>5. CASE RevokeFamily(c)
  <2>1. call[c].op = "reuse" /\ call[c].family # f
    BY <1>1, <1>5 DEF RevokeFamily, SoloOf
  <2>2. call'[c].family # f /\ \A d \in Calls \ {c} : call'[d] = call[d]
    BY <1>1, <1>5, <2>1, OpSet DEF RevokeFamily, Typed
  <2>3. \A t \in Tokens : row[t].family = f => row'[t] = row[t]
    BY <1>2, <1>5, <2>1 DEF RevokeFamily, RevokeAll, InFamily
  <2> QED
    BY <1>0, <2>1, <2>2, <2>3, QuietCall
<1>6. CASE Rotate(c)
  <2>1. /\ call[c].op = "rotate" /\ call'[c].op = "create" /\ call'[c].family = call[c].family
        /\ \A d \in Calls \ {c} : call'[d] = call[d]
        /\ \A t \in Tokens \ {call[c].token} : row'[t] = row[t]
    BY <1>6, RotateFacts
  <2>2. CASE call[c].family # f
    <3>1. \A t \in Tokens : row[t].family = f => row'[t] = row[t]
      BY <1>2, <2>1, <2>2
    <3> QED
      BY <1>0, <2>1, <2>2, <3>1, QuietCall
  <2>3. CASE call[c].family = f
    <3>1. call'[c].tab = call[c].tab
      BY <1>1, <1>6, OpSet DEF Rotate, Typed
    <3> QED
      BY <1>0, <1>1, <2>1, <2>3, <3>1, OwnStep
  <2> QED
    BY <2>2, <2>3
<1>7. ASSUME NEW t \in Tokens, CreateToken(c, t)
      PROVE  SoloOf(f)'
  <2>1. /\ call[c].op = "create" /\ call'[c].op = "granted" /\ call'[c].family = call[c].family
        /\ call'[c].token = t /\ call'[c].tab = call[c].tab /\ row'[t].state = "live"
        /\ \A d \in Calls \ {c} : call'[d] = call[d]
        /\ \A u \in Tokens \ {t} : row'[u] = row[u]
    BY <1>7, CreateFacts
  <2>2. CASE call[c].family # f
    <3>1. \A u \in Tokens : Held(u) => row'[u] = row[u]
      BY <1>7, <2>1 DEF CreateToken, Unused
    <3> QED
      BY <1>0, <2>1, <2>2, <3>1, QuietCall
  <2>3. CASE call[c].family = f
    BY <1>0, <1>1, <2>1, <2>3, OwnStep
  <2> QED
    BY <2>2, <2>3
<1>8. CASE Fail(c)
  <2>1. call[c].family # f /\ row' = row
    BY <1>8 DEF Fail, server
  <2> QED
    BY <1>3, <1>8, <2>1 DEF Fail
<1>9. CASE Crash(c)
  <2>1. call'[c] = Idle /\ \A d \in Calls \ {c} : call'[d] = call[d]
    BY <1>9 DEF Crash, Typed, TypeOK
  <2>2. call'[c].op \notin Full
    BY <2>1 DEF Idle, Full, AtServer
  <2>3. ~ (call[c].op \in {"create", "granted"} /\ call[c].family = f) /\ row' = row
    BY <1>9 DEF Crash, AtServer, server
  <2> QED
    BY <1>0, <2>1, <2>2, <2>3, QuietCall
<1> QED
  BY <1>4, <1>5, <1>6, <1>7, <1>8, <1>9 DEF Server

LEMMA SoloStep ==
  ASSUME Typed, Solo, [Next]_vars
  PROVE  Solo'
<1> SUFFICES ASSUME Persists, NEW f \in Families, f \notin excused'
             PROVE  SoloOf(f)'
  BY DEF Solo
<1>1. CASE \E b \in Tabs, t \in Tokens : SignIn(b, t, f)
  BY <1>1, SignInSolo
<1>2. CASE f \notin excused /\ ~ \E b \in Tabs, t \in Tokens : SignIn(b, t, f)
  <2>1. SoloOf(f)
    BY <1>2 DEF Solo
  <2>2. CASE UNCHANGED vars
    BY <2>1, <2>2, OtherRows DEF vars, server
  <2>3. CASE Next
    BY <1>2, <2>1, <2>3, ReloadSolo, LogoutSolo, ExpirySolo, SignInOtherSolo, ClientSolo, ServerSolo DEF Next
  <2> QED
    BY <2>2, <2>3
<1> QED
  BY <1>1, <1>2, ExcusedSteps

-----------------------------------------------------------------------------
(* Theorems *)

\* The histories start empty, and so do the rows.
LEMMA Start == Init => Dead /\ Single /\ Solo
<1> SUFFICES ASSUME Init PROVE Dead /\ Single /\ Solo
  OBVIOUS
<1>1. /\ \A c \in Calls : call[c].op = "idle"
      /\ \A t \in Tokens : row[t].state = "absent"
      /\ stored = None /\ \A b \in Tabs : mem[b] = None
      /\ revoked = {}
  BY DEF Init, Idle, NoRow
<1>2. \A f : Live(f) = {}
  BY <1>1 DEF Live
<1>3. Dead
  BY <1>1 DEF Dead
<1>4. Single
  BY <1>1, <1>2 DEF Single, SingleOf, HalfOps
<1>5. Solo
  BY <1>1 DEF Solo, SoloOf, Of, Waiting, AtServer
<1> QED
  BY <1>3, <1>4, <1>5

\* The rows, the tabs, the calls and the histories keep their types in every
\* execution, whatever the tabs and the handlers do to them at once.
THEOREM TypeCorrect == Spec => []TypeOK
<1>1. Typed => TypeOK
  BY DEF Typed
<1> QED
  BY <1>1, TypedInvariant, PTL

\* A logout, or a rotated token that comes back, ends a session for good in
\* AuthService: no token of its family is live, or becomes live, unless a
\* rotation was between its two statements at that moment.
THEOREM EndedFamiliesStayDead == Spec => []EndedFamilyStaysDead
<1>1. Typed /\ Dead /\ [Next]_vars => Dead'
  BY DeadStep
<1>2. Init => Dead
  BY Start
<1>3. Dead => EndedFamilyStaysDead
  BY DEF Dead, EndedFamilyStaysDead
<1> QED
  BY <1>1, <1>2, <1>3, TypedInvariant, PTL DEF Spec

\* Rotation leaves a session one live token at most, as long as no refresh reads
\* its token while another is between its read and its write.
THEOREM OneLiveToken == Spec => []OneLiveTokenPerFamily
<1>1. Typed /\ Single /\ [Next]_vars => Single'
  BY SingleStep
<1>2. Init => Single
  BY Start
<1>3. Single => OneLiveTokenPerFamily
  <2> SUFFICES ASSUME Single, NEW f \in Families \ raced
               PROVE  Cardinality(Live(f)) <= 1
    BY DEF OneLiveTokenPerFamily
  <2>1. \A s, t \in Live(f) : s = t
    BY DEF Single, SingleOf
  <2>2. CASE Live(f) = {}
    BY <2>2, FS_EmptySet
  <2>3. CASE Live(f) # {}
    <3>1. PICK t : Live(f) = {t}
      BY <2>1, <2>3
    <3>2. Cardinality({t}) = 1
      BY FS_Singleton
    <3> QED
      BY <3>1, <3>2
  <2> QED
    BY <2>2, <2>3
<1> QED
  BY <1>1, <1>2, <1>3, TypedInvariant, PTL DEF Spec

\* An app that stores every rotated token (both PWAs) is told that a session is
\* over, and forgets it, only after something that may end it: the session ran
\* out or was signed out, an error or a broken connection came in, two calls
\* refreshed it at once, or one tab refreshed it while another had it too.
THEOREM LostOnlyToRaces ==
  ASSUME Persists
  PROVE  Spec => []OnlyRacesLoseTheSession
<1>1. Typed /\ Solo /\ [Next]_vars => Solo'
  BY SoloStep
<1>2. Init => Solo
  BY Start
<1>3. Typed /\ Solo => OnlyRacesLoseTheSession
  <2> SUFFICES ASSUME Typed, Solo, NEW c \in Calls, call[c].op = "denied", call[c].tab # Nobody
               PROVE  call[c].family \in excused
    BY DEF OnlyRacesLoseTheSession
  <2>1. call[c].family \in Families
    BY CallKnows DEF Full
  <2> QED
    BY <2>1 DEF Solo, SoloOf
<1> QED
  BY <1>1, <1>2, <1>3, TypedInvariant, PTL DEF Spec
=============================================================================
