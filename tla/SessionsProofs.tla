--------------------------- MODULE SessionsProofs ---------------------------
(***************************************************************************)
(* Proofs about Sessions, for any number of users, calls and tokens.       *)
(***************************************************************************)
EXTENDS Sessions, TLAPS

(***************************************************************************)
(* Types                                                                   *)
(***************************************************************************)
TablesOK ==
    /\ accounts \subseteq Users /\ free \subseteq accounts
    /\ row \in [Tokens -> [user : Users \cup {Nil},
                           state : {"none", "live", "rotated", "over"}]]
    /\ chain \in [Tokens -> Tokens \cup {Nil}]
    /\ \A t \in Issued : row[t].user \in Users /\ chain[t] \in Issued
    /\ expired \subseteq Issued

AppOK ==
    /\ session \in Session /\ disk \in Session
    /\ {session.access, session.refresh, disk.access, disk.refresh} \subseteq Issued \cup {Nil}
    /\ signedIn \in BOOLEAN /\ leaving \in BOOLEAN

WireOK == late \subseteq Issued /\ lost \subseteq Issued

\* A call's record and, by its place, what its locals hold, I being the
\* tokens issued and A the accounts.
LocalsOK(r, I, A) ==
    /\ r \in CallState
    /\ {r.held, r.got} \subseteq I \cup {Nil}
    /\ r.pc \in {"signup", "grant", "login", "issue"} => r.user # Nil /\ r.held = Nil
    /\ r.pc = "refresh" => r.held # Nil
    /\ r.pc \in {"answer", "save"} => r.got # Nil
    /\ r.pc = "answer" /\ r.user = Nil => r.held # Nil
    /\ r.pc = "grant" => r.user \in A

CallsOK == call \in [Calls -> CallState] /\ \A c \in Calls : LocalsOK(call[c], Issued, accounts)

OneSignIn == \A c, d \in Calls : SigningIn(c) => ~signedIn /\ (SigningIn(d) => d = c)

SessionsTypes == TablesOK /\ AppOK /\ WireOK /\ CallsOK /\ OneSignIn

\* The types the runs check are part of those the proof is about.
LEMMA TypesAreTypes == SessionsTypes => SessionsTypeOK
BY DEF SessionsTypes, TablesOK, AppOK, WireOK, CallsOK, LocalsOK, OneSignIn, SessionsTypeOK

\* An idle call has no locals.
LEMMA IdleLocals ==
    /\ NoCall.user = Nil /\ NoCall.pc = "idle" /\ NoCall \in CallState
    /\ \A I, A : LocalsOK(NoCall, I, A)
BY DEF LocalsOK, NoCall, CallState

\* A call that moves on, while no token is issued, to a place where its locals
\* are right, keeps the types; it is a sign-in only if it was.
LEMMA MoveKeepsTypes ==
    ASSUME SessionsTypes, NEW c \in Calls, NEW n, LocalsOK(n, Issued, accounts'),
           n.user \in {Nil, call[c].user},
           call' = [call EXCEPT ![c] = n], UNCHANGED <<row, chain, expired, disk, leaving>>,
           accounts \subseteq accounts', accounts' \subseteq Users, free' \subseteq accounts',
           session' \in Session, {session'.access, session'.refresh} \subseteq Issued \cup {Nil},
           signedIn' = signedIn \/ (signedIn' = TRUE /\ SigningIn(c) /\ n.user = Nil),
           late' \subseteq Issued, lost' \subseteq Issued
    PROVE  SessionsTypes'
<1>1. Issued' = Issued
  BY DEF Issued
<1>2. /\ call'[c] = n /\ \A d \in Calls : d # c => call'[d] = call[d]
      /\ call' \in [Calls -> CallState]
  BY DEF SessionsTypes, CallsOK, LocalsOK
<1>3. TablesOK'
  BY <1>1 DEF SessionsTypes, TablesOK
<1>4. AppOK'
  BY <1>1 DEF SessionsTypes, AppOK, OneSignIn, Session
<1>5. WireOK'
  BY <1>1 DEF WireOK
<1>6. CallsOK'
  BY <1>1, <1>2 DEF SessionsTypes, CallsOK, LocalsOK
<1>7. OneSignIn'
  BY <1>2 DEF SessionsTypes, OneSignIn, SigningIn
<1> QED
  BY <1>3, <1>4, <1>5, <1>6, <1>7 DEF SessionsTypes

(***************************************************************************)
(* The invariant                                                           *)
(***************************************************************************)
Flying(c) == Pc(c) \in {"answer", "save"}

\* No token of its chain is newer.
Head(n) == \A s \in Issued : chain[s] = chain[n] => s <= n

\* The token may be, or has been, presented.
Shown(n) ==
    \/ n \in {session.refresh, disk.refresh} \cup late
    \/ \E d \in Calls : Pc(d) \in {"refresh", "answer"} /\ call[d].held = n

LiveIsHead == \A t \in Issued : Live(t) => Head(t)

\* A token whose refresh token is not saved yet is the newest of its chain,
\* nobody has seen it, and no other call has it.
FlightIsHead ==
    \A c \in Calls : Flying(c) =>
        /\ row[call[c].got].state # "rotated" /\ Head(call[c].got) /\ ~Shown(call[c].got)
        /\ \A d \in Calls : Flying(d) /\ call[d].got = call[c].got => d = c

\* If t has been exchanged, a newer token is on its way, lost, or one of X.
Excused(t, X) ==
    t # Nil /\ row[t].state = "rotated" => \E s \in Newer(t) : s \in InFlight \cup lost \cup X

SessionsInv ==
    /\ SessionsTypes
    /\ LiveIsHead /\ FlightIsHead
    /\ Excused(session.refresh, {}) /\ Excused(disk.refresh, {session.refresh})

\* The invariant says what the runs check.
LEMMA InvImplies == SessionsInv => SessionsTypeOK /\ OneLiveToken /\ LockedOutOnlyByLoss
<1> SUFFICES ASSUME SessionsInv PROVE SessionsTypeOK /\ OneLiveToken /\ LockedOutOnlyByLoss
  OBVIOUS
<1>1. SessionsTypeOK
  BY TypesAreTypes DEF SessionsInv
<1>2. OneLiveToken
  BY TokensAssumption DEF SessionsInv, LiveIsHead, Head, OneLiveToken, Issued
<1>3. LockedOutOnlyByLoss
  BY DEF SessionsInv, Excused, LockedOutOnlyByLoss
<1> QED
  BY <1>1, <1>2, <1>3

\* A call moves on, and at most the access token is written: a token in flight
\* stays with it or is lost, and what it presents has been shown.
LEMMA MoveKeepsInv ==
    ASSUME SessionsInv, SessionsTypes', NEW c \in Calls, NEW n, n \in CallState,
           call' = [call EXCEPT ![c] = n], UNCHANGED <<row, chain, disk>>,
           session'.refresh = session.refresh,
           n.pc \in {"answer", "save"} => Flying(c) /\ n.got = call[c].got,
           Flying(c) => n.pc \in {"answer", "save"} \/ call[c].got \in lost',
           lost \subseteq lost',
           \A t \in late' : t \in late \/ Shown(t),
           n.pc \in {"refresh", "answer"} => Shown(n.held)
    PROVE  SessionsInv'
<1>1. Issued' = Issued /\ (\A t : Newer(t)' = Newer(t)) /\ (\A t : Head(t)' = Head(t))
  BY DEF Issued, Newer, Head
<1>2. /\ call'[c] = n /\ \A d \in Calls : d # c => call'[d] = call[d]
  BY DEF SessionsInv, SessionsTypes, CallsOK
<1>3. LiveIsHead'
  BY <1>1 DEF SessionsInv, LiveIsHead, Live
<1>4. \A t : Shown(t)' => Shown(t)
  BY <1>2 DEF Shown, Pc
<1>5. FlightIsHead'
  BY <1>1, <1>2, <1>4 DEF SessionsInv, FlightIsHead, Flying, Pc
<1>6. InFlight \cup lost \subseteq InFlight' \cup lost'
  BY <1>2 DEF InFlight, Flying, Pc
<1>7. Excused(session.refresh, {})' /\ Excused(disk.refresh, {session.refresh})'
  BY <1>1, <1>6 DEF SessionsInv, Excused
<1> QED
  BY <1>3, <1>5, <1>7 DEF SessionsInv

\* The same, types included: enough for a call that only moves on.
LEMMA CallMoves ==
    ASSUME SessionsInv, NEW c \in Calls, NEW n, LocalsOK(n, Issued, accounts'),
           n.user \in {Nil, call[c].user},
           call' = [call EXCEPT ![c] = n],
           UNCHANGED <<row, chain, expired, disk, leaving, signedIn, session, lost>>,
           accounts \subseteq accounts', accounts' \subseteq Users, free' \subseteq accounts',
           late' \subseteq Issued,
           ~Flying(c), n.pc \notin {"answer", "save"}, \A t \in late' : t \in late \/ Shown(t),
           n.pc = "refresh" => Shown(n.held)
    PROVE  SessionsInv'
<1>1. SessionsTypes'
  BY MoveKeepsTypes DEF SessionsInv, SessionsTypes, AppOK, WireOK
<1>2. n \in CallState
  BY DEF LocalsOK
<1> QED
  BY <1>1, <1>2, MoveKeepsInv

\* The record of a call, and where it is.
LEMMA CallLocals ==
    ASSUME SessionsInv, NEW c \in Calls
    PROVE  /\ call[c] \in CallState /\ LocalsOK(call[c], Issued, accounts)
           /\ accounts \subseteq Users /\ free \subseteq accounts /\ late \subseteq Issued
           /\ Nil \notin Issued
BY TokensAssumption DEF SessionsInv, SessionsTypes, CallsOK, TablesOK, WireOK, Issued

\* What is issued, and what is on the wire.
LEMMA IssuedTokens ==
    SessionsInv => Nil \notin Issued /\ Issued \subseteq Tokens /\ late \subseteq Issued
BY TokensAssumption DEF SessionsInv, SessionsTypes, WireOK, Issued

\* Signing up, up to the tokens.
LEMMA CreateUserKeepsInv ==
    ASSUME SessionsInv, NEW c \in Calls, CreateUser(c) PROVE SessionsInv'
<1>1. ~Flying(c)
  BY DEF CreateUser, Flying
<1>2. CASE call[c].user \in accounts
  BY <1>1, <1>2, CallLocals, IdleLocals, CallMoves DEF CreateUser, End, server, app
<1>3. CASE call[c].user \notin accounts
  <2> DEFINE n == [call[c] EXCEPT !.pc = "grant"]
  <2>1. LocalsOK(n, Issued, accounts') /\ n.user = call[c].user /\ n.pc = "grant" /\ n.user \in Users
    BY <1>3, CallLocals, TokensAssumption DEF LocalsOK, CallState, CreateUser, Pc, Issued, server
  <2> QED
    BY <1>1, <1>3, <2>1, CallLocals, CallMoves DEF CreateUser, Goto, server, app
<1> QED
  BY <1>2, <1>3

\* The free plan is granted or not; the sign-up goes on.
LEMMA GrantFreeKeepsInv ==
    ASSUME SessionsInv, NEW c \in Calls, GrantFree(c) PROVE SessionsInv'
<1> DEFINE n == [call[c] EXCEPT !.pc = "issue"]
<1>1. ~Flying(c) /\ call[c].user \in accounts /\ n.user = call[c].user /\ n.pc = "issue"
  BY CallLocals DEF GrantFree, Flying, Pc, LocalsOK, CallState
<1>2. LocalsOK(n, Issued, accounts')
  BY CallLocals DEF GrantFree, LocalsOK, CallState, Issued, Pc
<1> QED
  BY <1>1, <1>2, CallLocals, CallMoves DEF GrantFree, Goto, app

\* The password is right, or the sign-in ends.
LEMMA CheckUserKeepsInv ==
    ASSUME SessionsInv, NEW c \in Calls, CheckUser(c) PROVE SessionsInv'
<1> DEFINE n == [call[c] EXCEPT !.pc = "issue"]
<1>1. ~Flying(c) /\ n.user = call[c].user /\ n.pc = "issue"
  BY CallLocals DEF CheckUser, Flying, Pc, LocalsOK, CallState
<1>2. LocalsOK(n, Issued, accounts')
  BY CallLocals DEF CheckUser, LocalsOK, CallState, Issued, Pc, server
<1>3. CASE End(c)
  BY <1>1, <1>3, CallLocals, IdleLocals, CallMoves DEF CheckUser, End, app, server
<1>4. CASE Goto(c, "issue")
  BY <1>1, <1>2, <1>4, CallLocals, CallMoves DEF CheckUser, Goto, app, server
<1> QED
  BY <1>3, <1>4 DEF CheckUser

\* A call that ends, or asks, or is told that its token has expired.
LEMMA InvalidRefreshKeepsInv ==
    ASSUME SessionsInv, NEW c \in Calls, InvalidRefresh(c) PROVE SessionsInv'
BY CallLocals, IdleLocals, CallMoves DEF InvalidRefresh, End, app, server, Flying

\* The middleware answers: done, or the access token has expired.
LEMMA AuthenticatedKeepsInv ==
    ASSUME SessionsInv, NEW c \in Calls, Authenticated(c) PROVE SessionsInv'
<1> DEFINE n == [call[c] EXCEPT !.pc = "expired"]
<1>1. ~Flying(c) /\ n.user = call[c].user /\ n.pc = "expired"
  BY CallLocals DEF Authenticated, Flying, Pc, LocalsOK, CallState
<1>2. LocalsOK(n, Issued, accounts')
  BY CallLocals DEF Authenticated, LocalsOK, CallState, Issued, Pc, server
<1>3. CASE End(c)
  BY <1>1, <1>3, CallLocals, IdleLocals, CallMoves DEF Authenticated, End, app, server
<1>4. CASE Goto(c, "expired")
  BY <1>1, <1>2, <1>4, CallLocals, CallMoves DEF Authenticated, Goto, app, server
<1> QED
  BY <1>3, <1>4 DEF Authenticated

\* A call asks with the access token there is, the first time or once more.
LEMMA ExecuteKeepsInv ==
    ASSUME SessionsInv, NEW c \in Calls, Execute(c) \/ ExecuteAgain(c) PROVE SessionsInv'
<1> DEFINE n == [NoCall EXCEPT !.pc = "ask", !.held = session.access]
           m == [NoCall EXCEPT !.pc = "ask", !.held = session.access, !.again = TRUE]
<1>1. ~Flying(c)
  BY DEF Execute, ExecuteAgain, Flying
<1>2. session.access # Nil => session.access \in Issued /\ Issued \subseteq Tokens
  BY DEF SessionsInv, SessionsTypes, AppOK, Issued
<1>3. session.access # Nil => LocalsOK(n, Issued, accounts') /\ n.user = Nil /\ n.pc = "ask"
  BY <1>2, IdleLocals DEF LocalsOK, CallState, NoCall
<1>4. session.access # Nil => LocalsOK(m, Issued, accounts') /\ m.user = Nil /\ m.pc = "ask"
  BY <1>2, IdleLocals DEF LocalsOK, CallState, NoCall
<1>5. CASE Execute(c)
  BY <1>1, <1>3, <1>5, CallLocals, CallMoves DEF Execute, app, server
<1>6. CASE ExecuteAgain(c) /\ session.access = Nil
  BY <1>1, <1>6, CallLocals, IdleLocals, CallMoves DEF ExecuteAgain, End, app, server
<1>7. CASE ExecuteAgain(c) /\ session.access # Nil
  BY <1>1, <1>4, <1>7, CallLocals, CallMoves DEF ExecuteAgain, app, server
<1> QED
  BY <1>5, <1>6, <1>7

\* The refresh token that is presented is the app's.
LEMMA RefreshBlockingKeepsInv ==
    ASSUME SessionsInv, NEW c \in Calls, RefreshBlocking(c) PROVE SessionsInv'
<1> DEFINE n == [call[c] EXCEPT !.pc = "refresh", !.held = session.refresh]
<1>1. ~Flying(c)
  BY DEF RefreshBlocking, Flying
<1>2. CASE session.refresh = Nil
  BY <1>1, <1>2, CallLocals, IdleLocals, CallMoves DEF RefreshBlocking, End, app, server
<1>3. CASE session.refresh # Nil
  <2>1. session.refresh \in Issued /\ Issued \subseteq Tokens
    BY <1>3 DEF SessionsInv, SessionsTypes, AppOK, Issued
  <2>2. /\ n \in CallState /\ n.user = call[c].user /\ n.pc = "refresh"
        /\ n.held = session.refresh /\ n.got = call[c].got
    BY <2>1, CallLocals DEF CallState
  <2>3. LocalsOK(n, Issued, accounts') /\ Shown(n.held)
    BY <1>3, <2>1, <2>2, CallLocals DEF LocalsOK, Shown
  <2> QED
    BY <1>1, <1>3, <2>2, <2>3, CallLocals, CallMoves DEF RefreshBlocking, app, server
<1> QED
  BY <1>2, <1>3

\* A new sign-in: nobody is signed in and no other sign-in is under way.
LEMMA SignInKeepsInv ==
    ASSUME SessionsInv, NEW c \in Calls, NEW u \in Users, NEW screen \in {"signup", "login"},
           SignIn(c, u, screen)
    PROVE  SessionsInv'
<1> DEFINE n == [NoCall EXCEPT !.pc = screen, !.user = u]
<1>1. /\ n \in CallState /\ LocalsOK(n, Issued, accounts) /\ n.pc = screen
  BY TokensAssumption DEF LocalsOK, CallState, NoCall
<1>2. /\ call'[c] = n /\ \A d \in Calls : d # c => call'[d] = call[d]
      /\ call' \in [Calls -> CallState]
  BY <1>1 DEF SignIn, SessionsInv, SessionsTypes, CallsOK
<1>3. Issued' = Issued /\ UNCHANGED <<server, app, late, lost>>
  BY DEF SignIn, server, Issued
<1>4. TablesOK' /\ AppOK' /\ WireOK'
  BY <1>3 DEF SessionsInv, SessionsTypes, TablesOK, AppOK, WireOK, server, app
<1>5. CallsOK'
  <2>1. ASSUME NEW d \in Calls PROVE LocalsOK(call'[d], Issued', accounts')
    <3>1. Issued' = Issued /\ accounts' = accounts
      BY <1>3 DEF server
    <3>2. CASE d = c
      BY <1>1, <1>2, <3>1, <3>2
    <3>3. CASE d # c
      BY <1>2, <3>1, <3>3, CallLocals
    <3> QED
      BY <3>2, <3>3
  <2> QED
    BY <1>2, <2>1 DEF CallsOK
<1>6. OneSignIn'
  BY <1>2, <1>3 DEF SessionsInv, SessionsTypes, OneSignIn, SigningIn, SignIn, app
<1>7. SessionsTypes'
  BY <1>4, <1>5, <1>6 DEF SessionsTypes
<1>8. ~Flying(c) /\ n.pc \notin {"answer", "save", "refresh"}
  BY <1>1 DEF SignIn, Flying
<1> QED
  BY <1>1, <1>3, <1>7, <1>8, MoveKeepsInv DEF SignIn, server, app

\* The answer of a call is lost, or its request; what it presented may come yet.
LEMMA CallFailsKeepsInv ==
    ASSUME SessionsInv, NEW c \in Calls, CallFails(c) PROVE SessionsInv'
<1>1. call[c].got # Nil => call[c].got \in Issued
  BY CallLocals DEF LocalsOK
<1>2. Pc(c) \in {"refresh", "answer"} /\ call[c].held # Nil => call[c].held \in Issued
  BY CallLocals DEF LocalsOK
<1>3. late' \subseteq Issued /\ \A t \in late' : t \in late \/ Shown(t)
  BY <1>2, CallLocals DEF CallFails, StillComes, Shown, LocalsOK, Pc
<1>4. lost \subseteq lost' /\ lost' \subseteq Issued /\ (Flying(c) => call[c].got \in lost')
  BY <1>1, CallLocals DEF CallFails, Flying, LocalsOK, Pc, SessionsInv, SessionsTypes, WireOK
<1>5. call' = [call EXCEPT ![c] = NoCall] /\ UNCHANGED <<server, app>>
  BY DEF CallFails, End
<1>6. SessionsTypes'
  BY <1>3, <1>4, <1>5, IdleLocals, CallLocals, MoveKeepsTypes
     DEF SessionsInv, SessionsTypes, AppOK, server, app
<1> QED
  BY <1>3, <1>4, <1>5, <1>6, IdleLocals, MoveKeepsInv DEF server, app

\* The HTTP client sends a refresh again, before its answer or for want of it.
LEMMA ResendKeepsInv ==
    ASSUME SessionsInv, NEW c \in Calls, Resend(c) PROVE SessionsInv'
<1>1. CASE Pc(c) = "refresh"
  <2>1. Shown(call[c].held) /\ call[c].held \in Issued
    BY <1>1, CallLocals DEF Shown, LocalsOK, Pc
  <2>2. call' = [call EXCEPT ![c] = call[c]]
    BY <1>1, CallLocals DEF Resend, SessionsInv, SessionsTypes, CallsOK, Pc
  <2>3. late' \subseteq Issued /\ (\A t \in late' : t \in late \/ Shown(t)) /\ ~Flying(c)
        /\ UNCHANGED <<server, app, lost>>
    BY <1>1, <2>1, CallLocals DEF Resend, StillComes, Flying, Pc
  <2> QED
    BY <1>1, <2>1, <2>2, <2>3, CallLocals, CallMoves DEF Pc, server, app
<1>2. CASE Pc(c) = "answer"
  <2> DEFINE n == [call[c] EXCEPT !.pc = "refresh", !.got = Nil]
  <2>1. call[c].held \in Issued /\ call[c].got \in Issued /\ Issued \subseteq Tokens /\ call[c].user = Nil
    BY <1>2, CallLocals DEF LocalsOK, Resend, SigningIn, Pc, Issued
  <2>2. /\ n \in CallState /\ n.pc = "refresh" /\ n.user = call[c].user
        /\ n.held = call[c].held /\ n.got = Nil
    BY CallLocals DEF CallState
  <2>3. LocalsOK(n, Issued, accounts)
    BY <2>1, <2>2, CallLocals DEF LocalsOK
  <2>4. Shown(n.held)
    BY <1>2, <2>2 DEF Shown, Pc
  <2>5. call' = [call EXCEPT ![c] = n] /\ UNCHANGED <<server, app, late>>
        /\ lost' = lost \cup {call[c].got}
    BY <1>2 DEF Resend, Pc
  <2>6. SessionsTypes'
    BY <2>1, <2>2, <2>3, <2>5, CallLocals, MoveKeepsTypes
       DEF SessionsInv, SessionsTypes, AppOK, WireOK, server, app
  <2> QED
    BY <2>2, <2>4, <2>5, <2>6, MoveKeepsInv DEF server, app
<1> QED
  BY <1>1, <1>2 DEF Resend

(***************************************************************************)
(* Saving                                                                  *)
(***************************************************************************)
\* What an answer brought is the newest token of its chain, and new to the app.
LEMMA AnswerIsNewest ==
    ASSUME SessionsInv, NEW c \in Calls, Flying(c)
    PROVE  /\ call[c].got \in Issued /\ row[call[c].got].state # "rotated"
           /\ call[c].got \notin {session.refresh, disk.refresh} \cup late
           /\ \A s \in Issued : chain[s] = chain[call[c].got] => s <= call[c].got
           /\ \A d \in Calls : Flying(d) /\ call[d].got = call[c].got => d = c
           /\ \A d \in Calls : Pc(d) \in {"refresh", "answer"} => call[d].held # call[c].got
  BY CallLocals DEF SessionsInv, FlightIsHead, Head, Shown, Flying, LocalsOK, Pc

\* The access token of the answer is written; its refresh token is still in flight.
LEMMA SaveFirstKeepsInv ==
    ASSUME SessionsInv, NEW c \in Calls, SaveFirst(c) PROVE SessionsInv'
<1> DEFINE n == [call[c] EXCEPT !.pc = "save"]
<1>1. Flying(c) /\ call[c].got \in Issued /\ Issued \subseteq Tokens
  BY AnswerIsNewest DEF SaveFirst, Flying, Issued
<1>2. n \in CallState /\ n.pc = "save" /\ n.user = call[c].user /\ n.got = call[c].got
      /\ n.held = call[c].held
  BY CallLocals DEF CallState
<1>3. LocalsOK(n, Issued, accounts)
  BY <1>1, <1>2, CallLocals DEF LocalsOK
<1>4. session' = [session EXCEPT !.access = call[c].got]
      /\ UNCHANGED <<server, disk, signedIn, leaving, late, lost>>
  BY DEF SaveFirst, Put, SaveOrder
<1>5. session' \in Session /\ session'.access = call[c].got /\ session'.refresh = session.refresh
  BY <1>1, <1>4 DEF SessionsInv, SessionsTypes, AppOK, Session
<1>6. call' = [call EXCEPT ![c] = n]
  BY DEF SaveFirst, Goto
<1>7. SessionsTypes'
  BY <1>1, <1>2, <1>3, <1>4, <1>5, <1>6, CallLocals, MoveKeepsTypes
     DEF SessionsInv, SessionsTypes, AppOK, WireOK, server
<1> QED
  BY <1>1, <1>2, <1>4, <1>5, <1>6, <1>7, MoveKeepsInv DEF server

\* The refresh token of the answer is written: it lands, and what it replaces is an
\* older one of its chain or is lost.
LEMMA SaveSecondKeepsInv ==
    ASSUME SessionsInv, NEW c \in Calls, SaveSecond(c) PROVE SessionsInv'
<1> DEFINE g == call[c].got
           m == [call[c] EXCEPT !.pc = "again"]
<1>1. Flying(c) /\ g \in Issued /\ Issued \subseteq Tokens
  BY AnswerIsNewest DEF SaveSecond, Flying, Issued
<1>2. m \in CallState /\ m.pc = "again" /\ m.user = call[c].user /\ m.got = g
      /\ m.held = call[c].held
  BY CallLocals DEF CallState
<1>3. LocalsOK(m, Issued, accounts)
  BY <1>1, <1>2, CallLocals DEF LocalsOK
<1>4. /\ session' = [session EXCEPT !.refresh = g]
      /\ lost' = lost \cup Replaced(session.refresh, g)
      /\ UNCHANGED <<server, disk, leaving, late>>
  BY DEF SaveSecond, Put, SaveOrder
<1>5. session' \in Session /\ session'.access = session.access /\ session'.refresh = g
  BY <1>1, <1>4 DEF SessionsInv, SessionsTypes, AppOK, Session
<1>6. PICK n : /\ call' = [call EXCEPT ![c] = n] /\ n \in {NoCall, m}
               /\ \/ signedIn' = signedIn
                  \/ signedIn' = TRUE /\ SigningIn(c) /\ n.user = Nil
  BY IdleLocals DEF SaveSecond, End, Goto
<1>7. LocalsOK(n, Issued, accounts) /\ n.user \in {Nil, call[c].user}
      /\ n.pc \notin {"answer", "save", "refresh"} /\ n \in CallState
  BY <1>2, <1>3, <1>6, IdleLocals
<1>8. lost' \subseteq Issued /\ lost \subseteq lost'
  BY <1>4 DEF SessionsInv, SessionsTypes, AppOK, WireOK, Replaced
<1>9. SessionsTypes'
  BY <1>1, <1>4, <1>5, <1>6, <1>7, <1>8, CallLocals, MoveKeepsTypes
     DEF SessionsInv, SessionsTypes, AppOK, WireOK, server
<1>10. Issued' = Issued /\ (\A t : Newer(t)' = Newer(t)) /\ (\A t : Head(t)' = Head(t))
  BY <1>4 DEF Issued, Newer, Head, server
<1>11. /\ call'[c] = n /\ \A d \in Calls : d # c => call'[d] = call[d]
  BY <1>6 DEF SessionsInv, SessionsTypes, CallsOK
<1>12. LiveIsHead'
  BY <1>4, <1>10 DEF SessionsInv, LiveIsHead, Live, server
<1>13. FlightIsHead'
  <2>1. \A t : Shown(t)' => Shown(t) \/ t = g
    BY <1>4, <1>5, <1>7, <1>11 DEF Shown, Pc
  <2>2. \A d \in Calls : Flying(d)' => d # c /\ Flying(d) /\ call'[d] = call[d]
    BY <1>7, <1>11 DEF Flying, Pc
  <2> QED
    BY <1>1, <1>4, <1>10, <2>1, <2>2 DEF SessionsInv, FlightIsHead, server
<1>14. \A x \in InFlight : x = g \/ x \in InFlight'
  BY <1>11 DEF InFlight, Pc
<1>15. Excused(session.refresh, {})'
  BY <1>1, <1>4, <1>5, AnswerIsNewest DEF Excused, server
<1>16. Excused(disk.refresh, {session.refresh})'
  <2> SUFFICES ASSUME disk.refresh # Nil, row[disk.refresh].state = "rotated"
               PROVE  \E s \in Newer(disk.refresh) : s \in InFlight' \cup lost' \cup {g}
    BY <1>4, <1>5, <1>10 DEF Excused, server
  <2>1. PICK s \in Newer(disk.refresh) : s \in InFlight \cup lost \cup {session.refresh}
    BY DEF SessionsInv, Excused
  <2>2. CASE s # session.refresh
    BY <1>8, <1>14, <2>1, <2>2
  <2>3. CASE s = session.refresh /\ s \in lost'
    BY <2>1, <2>3
  <2>4. CASE s = session.refresh /\ s \notin lost'
    <3>1. s \in Issued /\ s # Nil /\ s # g /\ chain[s] = chain[g]
      BY <1>1, <1>4, <2>4, <2>1, AnswerIsNewest, CallLocals DEF Newer, Replaced
    <3>2. s <= g
      BY <1>1, <3>1, AnswerIsNewest
    <3>3. g \in Newer(disk.refresh)
      BY <1>1, <2>1, <3>1, <3>2, TokensAssumption DEF Newer, Issued, SessionsInv, SessionsTypes, AppOK, Session
    <3> QED
      BY <3>3
  <2> QED
    BY <2>2, <2>3, <2>4
<1> QED
  BY <1>9, <1>12, <1>13, <1>15, <1>16 DEF SessionsInv

(***************************************************************************)
(* New tokens                                                              *)
(***************************************************************************)
\* A fresh token is later than every issued one, and nobody has it.
LEMMA FreshIsLast ==
    ASSUME SessionsInv, NEW n \in Tokens, Fresh(n)
    PROVE  /\ n \notin Issued /\ n # Nil /\ n \in Nat /\ Issued \subseteq Nat
           /\ \A s \in Issued : s < n
           /\ \A x : Shown(x) => x \in Issued \cup {Nil}
<1>1. n \notin Issued /\ n # Nil /\ n \in Nat /\ Issued \subseteq Nat /\ Issued \subseteq Tokens
  BY TokensAssumption DEF Fresh, Issued
<1>2. \A s \in Issued : s < n
  BY <1>1 DEF Fresh
<1>3. \A x : Shown(x) => x \in Issued \cup {Nil}
  BY CallLocals DEF Shown, LocalsOK, SessionsInv, SessionsTypes, AppOK, WireOK
<1> QED
  BY <1>1, <1>2, <1>3

\* A new token n is put at the end of a chain.  What was its head has been
\* shown, and is exchanged with the same step; nobody else's token changes.
LEMMA NewTokenKeepsInv ==
    ASSUME SessionsInv, SessionsTypes', NEW n \in Tokens, Fresh(n), NEW c,
           Issued' = Issued \cup {n}, row'[n].state = "live",
           \A x \in Issued : chain'[x] = chain[x],
           \A x \in Issued : \/ row'[x].state = row[x].state
                             \/ row'[x].state = "rotated" /\ chain[x] = chain'[n] /\ Shown(x),
           \A x \in Issued : Head(x) /\ chain[x] = chain'[n]
                          => row'[x].state = "rotated" /\ Shown(x),
           \A d \in Calls : Flying(d)' => \/ Flying(d) /\ call'[d].got = call[d].got
                                          \/ d = c /\ call'[d].got = n,
           \A d \in Calls : Flying(d) => Flying(d)' /\ call'[d].got = call[d].got,
           \A x \in Issued \cup {n} : Shown(x)' => Shown(x),
           n \in InFlight' \cup lost', lost \subseteq lost',
           session'.refresh = session.refresh, disk' = disk
    PROVE  SessionsInv'
<1>1. /\ n \notin Issued /\ n # Nil /\ n \in Nat /\ Issued \subseteq Nat
      /\ \A s \in Issued : s < n
      /\ \A x : Shown(x) => x \in Issued \cup {Nil}
  BY FreshIsLast
<1>2. Head(n)'
  BY <1>1 DEF Head
<1>3. \A x \in Issued : Head(x) /\ chain[x] # chain'[n] => Head(x)'
  BY <1>1 DEF Head
<1>4. LiveIsHead'
  BY <1>1, <1>2, <1>3 DEF SessionsInv, LiveIsHead, Live
<1>5. FlightIsHead'
  <2> SUFFICES ASSUME NEW d \in Calls, Flying(d)'
               PROVE  /\ row'[call'[d].got].state # "rotated" /\ Head(call[d].got)'
                      /\ ~Shown(call[d].got)'
                      /\ \A e \in Calls : Flying(e)' /\ call'[e].got = call'[d].got => e = d
    BY DEF FlightIsHead
  <2>1. \A e \in Calls : Flying(e) => call[e].got \in Issued
    BY AnswerIsNewest
  <2>2. CASE Flying(d) /\ call'[d].got = call[d].got
    <3>1. PICK g \in Issued : /\ g = call[d].got /\ row[g].state # "rotated"
                              /\ Head(g) /\ ~Shown(g)
      BY <2>1, <2>2 DEF SessionsInv, FlightIsHead
    <3>2. row'[g].state = row[g].state /\ chain[g] # chain'[n]
      BY <3>1
    <3>3. Head(g)' /\ ~Shown(g)'
      BY <1>3, <3>1, <3>2
    <3>4. \A e \in Calls : Flying(e)' /\ call'[e].got = g => e = d
      BY <1>1, <2>2, <3>1 DEF SessionsInv, FlightIsHead
    <3> QED
      BY <2>2, <3>1, <3>2, <3>3, <3>4 DEF Head, Shown, Pc
  <2>3. CASE d = c /\ call'[d].got = n
    <3>1. ~Shown(n)'
      BY <1>1
    <3>2. \A e \in Calls : Flying(e)' /\ call'[e].got = n => e = d
      BY <1>1, <2>1, <2>3
    <3> QED
      BY <1>2, <2>3, <3>1, <3>2 DEF Head, Shown, Pc
  <2> QED
    BY <2>2, <2>3
<1>6. InFlight \subseteq InFlight'
  BY DEF InFlight, Flying
<1>7. ASSUME NEW x \in Issued, row'[x].state = "rotated", NEW X,
             row[x].state = "rotated" => \E s \in Newer(x) : s \in InFlight \cup lost \cup X
      PROVE  \E s \in Newer(x)' : s \in InFlight' \cup lost' \cup X
  <2>1. Newer(x) \subseteq Newer(x)'
    BY DEF Newer
  <2>2. CASE row[x].state = "rotated"
    BY <1>6, <1>7, <2>1, <2>2
  <2>3. CASE row[x].state # "rotated"
    BY <1>1, <1>7, <2>3 DEF Newer
  <2> QED
    BY <2>2, <2>3
<1>8. session.refresh \in Issued \cup {Nil} /\ disk.refresh \in Issued \cup {Nil}
  BY DEF SessionsInv, SessionsTypes, AppOK
<1>9. Excused(session.refresh, {})'
  BY <1>7, <1>8 DEF SessionsInv, Excused
<1>10. Excused(disk.refresh, {session.refresh})'
  BY <1>7, <1>8 DEF SessionsInv, Excused
<1> QED
  BY <1>4, <1>5, <1>9, <1>10 DEF SessionsInv

\* The tables with a new token in them are of their types.
LEMMA InsertKeepsTables ==
    ASSUME SessionsInv, NEW n \in Tokens, Fresh(n), NEW u \in Users, NEW root \in Issued \cup {n},
           row' \in [Tokens -> [user : Users \cup {Nil},
                               state : {"none", "live", "rotated", "over"}]],
           row'[n] = [user |-> u, state |-> "live"],
           \A x \in Tokens : x # n => row'[x].user = row[x].user
                                   /\ (row'[x].state = "none" <=> row[x].state = "none"),
           chain' = [chain EXCEPT ![n] = root], UNCHANGED <<accounts, free, expired>>
    PROVE  /\ TablesOK' /\ Issued' = Issued \cup {n}
           /\ chain'[n] = root /\ \A x \in Issued : chain'[x] = chain[x]
<1>1. n \notin Issued /\ Issued \subseteq Tokens
  BY DEF Fresh, Issued
<1>2. Issued' = Issued \cup {n}
  BY <1>1 DEF Issued
<1>3. chain' \in [Tokens -> Tokens \cup {Nil}] /\ chain'[n] = root
      /\ \A x \in Issued : chain'[x] = chain[x]
  BY <1>1 DEF SessionsInv, SessionsTypes, TablesOK
<1>4. \A x \in Issued' : row'[x].user \in Users /\ chain'[x] \in Issued'
  BY <1>1, <1>2, <1>3 DEF SessionsInv, SessionsTypes, TablesOK
<1> QED
  BY <1>2, <1>3, <1>4 DEF SessionsInv, SessionsTypes, TablesOK

\* The app and the wire stay of their types when more tokens are issued.
LEMMA MoreTokens ==
    ASSUME SessionsInv, Issued \subseteq Issued', UNCHANGED app,
           late' \subseteq Issued', lost' \subseteq Issued'
    PROVE  AppOK' /\ WireOK'
  BY DEF SessionsInv, SessionsTypes, AppOK, WireOK, app

\* ... and so do the calls, of which one may get the new token.
LEMMA CallsWithMoreTokens ==
    ASSUME SessionsInv, Issued \subseteq Issued', accounts' = accounts, signedIn' = signedIn,
           NEW c \in Calls, NEW r, LocalsOK(r, Issued', accounts), r.user = call[c].user,
           call' = [call EXCEPT ![c] = r]
    PROVE  CallsOK' /\ OneSignIn'
<1>1. /\ call'[c] = r /\ \A d \in Calls : d # c => call'[d] = call[d]
      /\ call' \in [Calls -> CallState]
  BY DEF SessionsInv, SessionsTypes, CallsOK, LocalsOK
<1>2. ASSUME NEW d \in Calls PROVE LocalsOK(call'[d], Issued', accounts')
  <2>1. CASE d = c
    BY <1>1, <2>1
  <2>2. CASE d # c
    BY <1>1, <2>2, CallLocals DEF LocalsOK
  <2> QED
    BY <2>1, <2>2
<1>3. OneSignIn'
  BY <1>1 DEF SessionsInv, SessionsTypes, OneSignIn, SigningIn
<1> QED
  BY <1>1, <1>2, <1>3 DEF CallsOK

\* Signing in issues the first token of a chain.
LEMMA IssueTokensKeepsInv ==
    ASSUME SessionsInv, NEW c \in Calls, IssueTokens(c) PROVE SessionsInv'
<1>1. PICK n \in Tokens : /\ Insert(n, call[c].user, n)
                          /\ call' = [call EXCEPT ![c].pc = "answer", ![c].got = n]
  BY DEF IssueTokens
<1> DEFINE r == [call[c] EXCEPT !.pc = "answer", !.got = n]
<1>2. Fresh(n) /\ UNCHANGED <<accounts, free, expired, app, late, lost>>
  BY <1>1 DEF Insert, IssueTokens
<1>3. n \notin Issued /\ n # Nil /\ \A x : Shown(x) => x \in Issued \cup {Nil}
  BY <1>2, FreshIsLast
<1>4. call[c].user \in Users /\ Pc(c) = "issue" /\ call[c].held = Nil
  BY CallLocals, TokensAssumption DEF IssueTokens, LocalsOK, CallState, Pc
<1>5. /\ TablesOK' /\ Issued' = Issued \cup {n}
      /\ chain'[n] = n /\ \A x \in Issued : chain'[x] = chain[x]
  <2>1. /\ row' \in [Tokens -> [user : Users \cup {Nil},
                                state : {"none", "live", "rotated", "over"}]]
        /\ row'[n] = [user |-> call[c].user, state |-> "live"]
        /\ \A x \in Tokens : x # n => row'[x] = row[x]
    BY <1>1, <1>4 DEF Insert, SessionsInv, SessionsTypes, TablesOK
  <2> QED
    BY <1>1, <1>2, <1>4, <2>1, InsertKeepsTables DEF Insert
<1>6. row'[n].state = "live" /\ \A x \in Issued : row'[x] = row[x] /\ chain[x] # n
  BY <1>1, <1>3 DEF Insert, SessionsInv, SessionsTypes, TablesOK, Issued
<1>7. /\ r \in CallState /\ r.pc = "answer" /\ r.got = n /\ r.held = call[c].held
      /\ r.user = call[c].user
  BY CallLocals DEF CallState
<1>8. LocalsOK(r, Issued', accounts)
  BY <1>3, <1>4, <1>5, <1>7, CallLocals, TokensAssumption DEF LocalsOK
<1>9. call' = [call EXCEPT ![c] = r]
  BY <1>1
<1>10. SessionsTypes'
  BY <1>2, <1>5, <1>7, <1>8, <1>9, MoreTokens, CallsWithMoreTokens
     DEF SessionsTypes, SessionsInv, WireOK, app
<1>11. /\ call'[c].pc = "answer" /\ call'[c].got = n /\ call'[c].held = call[c].held
       /\ \A d \in Calls : d # c => call'[d] = call[d]
  BY <1>7, <1>9 DEF SessionsInv, SessionsTypes, CallsOK
<1>12. ~Flying(c) /\ \A d \in Calls :
           /\ Flying(d) => Flying(d)' /\ call'[d].got = call[d].got
           /\ Flying(d)' => (Flying(d) /\ call'[d].got = call[d].got) \/ (d = c /\ call'[d].got = n)
  <2>1. ~Flying(c)
    BY <1>4 DEF Flying
  <2>2. \A d \in Calls : d # c => (Flying(d)' <=> Flying(d)) /\ call'[d].got = call[d].got
    BY <1>11 DEF Flying, Pc
  <2> HIDE DEF r
  <2> QED
    BY <1>11, <2>1, <2>2
<1>13. n \in InFlight'
  BY <1>7, <1>11 DEF InFlight, Pc
<1>14. ASSUME NEW x \in Issued \cup {n}, Shown(x)' PROVE Shown(x)
  <2>1. x # Nil
    BY <1>3, CallLocals
  <2> QED
    BY <1>2, <1>4, <1>7, <1>11, <1>14, <2>1 DEF Shown, Pc, app
<1> QED
  <2>1. \A x \in Issued : row'[x].state = row[x].state /\ chain[x] # chain'[n]
    BY <1>5, <1>6
  <2>2. session' = session /\ disk' = disk /\ lost' = lost
    BY <1>2 DEF app
  <2>3. row'[n].state = "live" /\ Issued' = Issued \cup {n} /\ \A x \in Issued : chain'[x] = chain[x]
    BY <1>5, <1>6
  <2>4. /\ \A d \in Calls : Flying(d)' => \/ Flying(d) /\ call'[d].got = call[d].got
                                          \/ d = c /\ call'[d].got = n
        /\ \A d \in Calls : Flying(d) => Flying(d)' /\ call'[d].got = call[d].got
    BY <1>12
  <2>5. n \in InFlight' \cup lost' /\ lost \subseteq lost' /\ session'.refresh = session.refresh
    BY <1>13, <2>2
  <2> HIDE DEF r
  <2> QED
    BY <1>2, <1>10, <1>14, <2>1, <2>2, <2>3, <2>4, <2>5, NewTokenKeepsInv

\* An exchange: the token presented, which has been shown, gives way to n.
LEMMA RotateKeepsInv ==
    ASSUME SessionsInv, NEW t \in Issued, NEW n \in Tokens, RotateRefreshToken(t, n), Shown(t),
           NEW c, UNCHANGED <<accounts, free, expired, app>>,
           AppOK' /\ WireOK' /\ CallsOK' /\ OneSignIn',
           \A d \in Calls : \/ d # c /\ call'[d] = call[d]
                            \/ d = c /\ Pc(c) = "refresh" /\ call'[c].pc = "answer"
                             /\ call'[c].got = n /\ call'[c].held = call[c].held
                            \/ d = c /\ call'[c] = call[c] /\ n \in lost',
           c \in Calls \/ n \in lost', late' \subseteq late, lost \subseteq lost'
    PROVE  SessionsInv'
<1>1. Fresh(n) /\ Live(t) /\ Head(t)
  BY DEF RotateRefreshToken, SessionsInv, LiveIsHead
<1>2. n \notin Issued /\ n # Nil /\ t \in Tokens /\ t # n /\ Issued \subseteq Nat
      /\ Issued \subseteq Tokens
  BY <1>1, FreshIsLast DEF Issued
<1>3. /\ row[t].user \in Users /\ chain[t] \in Issued
      /\ row' \in [Tokens -> [user : Users \cup {Nil},
                              state : {"none", "live", "rotated", "over"}]]
      /\ row'[n] = [user |-> row[t].user, state |-> "live"]
      /\ row'[t].state = "rotated" /\ row'[t].user = row[t].user
      /\ \A x \in Tokens : x \notin {t, n} => row'[x] = row[x]
  BY <1>2, TokensAssumption DEF RotateRefreshToken, SessionsInv, SessionsTypes, TablesOK
<1>4. /\ TablesOK' /\ Issued' = Issued \cup {n}
      /\ chain'[n] = chain[t] /\ \A x \in Issued : chain'[x] = chain[x]
  <2>1. \A x \in Tokens : x # n => row'[x].user = row[x].user
                                /\ (row'[x].state = "none" <=> row[x].state = "none")
    BY <1>1, <1>3 DEF Live
  <2> QED
    BY <1>1, <1>3, <2>1, InsertKeepsTables DEF RotateRefreshToken
<1>5. SessionsTypes'
  BY <1>4 DEF SessionsTypes
<1>6. \A x \in Issued : \/ row'[x].state = row[x].state
                        \/ row'[x].state = "rotated" /\ chain[x] = chain'[n] /\ Shown(x)
  BY <1>2, <1>3, <1>4
<1>7. \A x \in Issued : Head(x) /\ chain[x] = chain'[n] => x = t
  BY <1>1, <1>2, <1>4 DEF Head
<1>8. \A x \in Issued : Head(x) /\ chain[x] = chain'[n] => row'[x].state = "rotated" /\ Shown(x)
  BY <1>3, <1>7
<1>9. /\ \A d \in Calls : Flying(d)' => \/ Flying(d) /\ call'[d].got = call[d].got
                                        \/ d = c /\ call'[d].got = n
      /\ \A d \in Calls : Flying(d) => Flying(d)' /\ call'[d].got = call[d].got
  BY DEF Flying, Pc
<1>10. \A x : Shown(x)' => Shown(x)
  BY DEF Shown, Pc, app
<1>11. n \in InFlight' \cup lost'
  BY DEF InFlight, Pc
<1>12. row'[n].state = "live" /\ session'.refresh = session.refresh /\ disk' = disk
  BY <1>3 DEF app
<1> QED
  BY <1>1, <1>4, <1>5, <1>6, <1>8, <1>9, <1>10, <1>11, <1>12, NewTokenKeepsInv

\* The token a waiting call presents is exchanged for the one it will be answered.
LEMMA RefreshKeepsInv ==
    ASSUME SessionsInv, NEW c \in Calls, Refresh(c) PROVE SessionsInv'
<1>1. PICK n \in Tokens : /\ RotateRefreshToken(call[c].held, n)
                          /\ call' = [call EXCEPT ![c].pc = "answer", ![c].got = n]
  BY DEF Refresh
<1>2. PICK t \in Issued : t = call[c].held
  BY CallLocals DEF Refresh, LocalsOK, Pc
<1> DEFINE r == [call[c] EXCEPT !.pc = "answer", !.got = n]
<1>3. Pc(c) = "refresh" /\ Shown(t) /\ UNCHANGED <<accounts, free, expired, app, late, lost>>
       /\ RotateRefreshToken(t, n)
  BY <1>1, <1>2 DEF Refresh, Shown, Pc
<1>4. Issued' = Issued \cup {n}
  BY <1>3 DEF RotateRefreshToken, Issued, Fresh, Live, SessionsInv, SessionsTypes, TablesOK
<1>5. /\ r \in CallState /\ r.pc = "answer" /\ r.got = n /\ r.held = call[c].held
      /\ r.user = call[c].user
  BY CallLocals DEF CallState
<1>6. LocalsOK(r, Issued', accounts)
  BY <1>2, <1>4, <1>5, <1>3, CallLocals, TokensAssumption DEF LocalsOK, Pc
<1>7. call' = [call EXCEPT ![c] = r]
  BY <1>1
<1>8. AppOK' /\ WireOK'
  BY <1>4, <1>3, MoreTokens DEF SessionsInv, SessionsTypes, WireOK
<1>9. CallsOK' /\ OneSignIn'
  BY <1>4, <1>5, <1>6, <1>7, <1>3, CallsWithMoreTokens DEF app
<1>10. /\ call'[c].pc = "answer" /\ call'[c].got = n /\ call'[c].held = call[c].held
       /\ \A d \in Calls : d # c => call'[d] = call[d]
  BY <1>5, <1>7 DEF SessionsInv, SessionsTypes, CallsOK
<1> HIDE DEF r
<1> QED
  BY <1>8, <1>9, <1>10, <1>3, RotateKeepsInv

\* A request that comes late is refused, or exchanges its token for one that is lost.
LEMMA RefreshLateKeepsInv ==
    ASSUME SessionsInv, NEW t \in Tokens, RefreshLate(t) PROVE SessionsInv'
<1>1. t \in Issued /\ Shown(t) /\ t \in Tokens /\ late' \subseteq late
      /\ UNCHANGED <<accounts, free, expired, app, call>>
  BY IssuedTokens DEF RefreshLate, Shown
<1>2. CASE UNCHANGED <<row, chain, lost>>
  <2>1. Issued' = Issued /\ (\A x : Newer(x)' = Newer(x)) /\ (\A x : Head(x)' = Head(x))
    BY <1>2 DEF Issued, Newer, Head
  <2>2. SessionsTypes'
    BY <1>1, <1>2, <2>1 DEF SessionsInv, SessionsTypes, TablesOK, AppOK, WireOK, CallsOK,
                            OneSignIn, SigningIn, app
  <2>3. LiveIsHead'
    BY <1>2, <2>1 DEF SessionsInv, LiveIsHead, Live
  <2>4. \A x : Shown(x)' => Shown(x)
    BY <1>1 DEF Shown, Pc, app
  <2>5. FlightIsHead'
    BY <1>1, <1>2, <2>1, <2>4 DEF SessionsInv, FlightIsHead, Flying, Pc
  <2>6. Excused(session.refresh, {})' /\ Excused(disk.refresh, {session.refresh})'
    BY <1>1, <1>2, <2>1 DEF SessionsInv, Excused, InFlight, Pc, app
  <2> QED
    BY <2>2, <2>3, <2>5, <2>6 DEF SessionsInv
<1>3. ASSUME NEW n \in Tokens, RotateRefreshToken(t, n), lost' = lost \cup {n}
      PROVE  SessionsInv'
  <2>1. Issued' = Issued \cup {n}
    BY <1>1, <1>3 DEF RotateRefreshToken, Issued, Fresh, Live, SessionsInv, SessionsTypes, TablesOK
  <2>2. AppOK' /\ WireOK'
    BY <1>1, <1>3, <2>1, MoreTokens DEF SessionsInv, SessionsTypes, WireOK
  <2>3. CallsOK' /\ OneSignIn'
    BY <1>1, <2>1, CallLocals
       DEF SessionsInv, SessionsTypes, CallsOK, OneSignIn, SigningIn, LocalsOK, app
  <2>4. \A d \in Calls : call'[d] = call[d]
    BY <1>1
  <2>5. n \in lost' /\ lost \subseteq lost' /\ late' \subseteq late
    BY <1>1, <1>3
  <2> QED
    BY <1>1, <1>3, <2>2, <2>3, <2>4, <2>5, RotateKeepsInv
<1> QED
  BY <1>2, <1>3 DEF RefreshLate

(***************************************************************************)
(* The rest                                                                *)
(***************************************************************************)
\* A live token that is revoked, or expires: it has not been exchanged.
LEMMA OverKeepsInv ==
    ASSUME SessionsInv, NEW t \in Tokens, RevokeRefreshToken(t) \/ RefreshExpires(t)
    PROVE  SessionsInv'
<1>1. Live(t) /\ UNCHANGED <<accounts, free, chain, expired, app, call, late, lost>>
      /\ row' = [row EXCEPT ![t].state = "over"]
  BY DEF RevokeRefreshToken, RefreshExpires
<1>2. /\ row' \in [Tokens -> [user : Users \cup {Nil},
                              state : {"none", "live", "rotated", "over"}]]
      /\ row'[t].state = "over"
      /\ \A x \in Tokens : /\ row'[x].user = row[x].user
                           /\ x # t => row'[x] = row[x]
  BY <1>1 DEF SessionsInv, SessionsTypes, TablesOK
<1>3. Issued' = Issued /\ t \in Issued
  BY <1>1, <1>2 DEF Issued, Live
<1>4. (\A x : Newer(x)' = Newer(x)) /\ (\A x : Head(x)' = Head(x))
      /\ (\A x : Shown(x)' = Shown(x)) /\ \A d : Flying(d)' = Flying(d)
  BY <1>1, <1>3 DEF Newer, Head, Shown, Flying, Pc, app
<1>5. SessionsTypes'
  BY <1>1, <1>2, <1>3 DEF SessionsInv, SessionsTypes, TablesOK, AppOK, WireOK, CallsOK,
                          OneSignIn, SigningIn, app
<1>6. \A x \in Issued : /\ row'[x].state = "rotated" => row[x].state = "rotated"
                        /\ row'[x].state = "live" => row[x].state = "live"
  BY <1>2 DEF Issued
<1>7. LiveIsHead'
  BY <1>3, <1>4, <1>6 DEF SessionsInv, LiveIsHead, Live
<1>8. FlightIsHead'
  <2>1. \A d \in Calls : Flying(d) => call[d].got \in Issued
    BY AnswerIsNewest
  <2> QED
    BY <1>1, <1>4, <1>6, <2>1 DEF SessionsInv, FlightIsHead
<1>9. Excused(session.refresh, {})' /\ Excused(disk.refresh, {session.refresh})'
  <2>1. {session.refresh, disk.refresh} \subseteq Issued \cup {Nil}
    BY DEF SessionsInv, SessionsTypes, AppOK
  <2>2. session' = session /\ disk' = disk /\ lost' = lost /\ InFlight' = InFlight
    BY <1>1 DEF app, InFlight, Pc
  <2> QED
    BY <1>4, <1>6, <2>1, <2>2 DEF SessionsInv, Excused
<1> QED
  BY <1>5, <1>7, <1>8, <1>9 DEF SessionsInv

\* What concerns neither the rows nor a call, and forgets refresh tokens only
\* to count them as lost, or remembers the one there is.
LEMMA ForgetKeepsInv ==
    ASSUME SessionsInv, SessionsTypes', UNCHANGED <<row, chain, call, late>>, lost \subseteq lost',
           \/ session'.refresh = session.refresh
           \/ session'.refresh = Nil /\ session.refresh \in lost' \cup {Nil},
           disk'.refresh \in {disk.refresh, session'.refresh}
    PROVE  SessionsInv'
<1>1. Issued' = Issued /\ (\A t : Newer(t)' = Newer(t)) /\ (\A t : Head(t)' = Head(t))
      /\ InFlight' = InFlight /\ \A d : Flying(d)' = Flying(d)
  BY DEF Issued, Newer, Head, InFlight, Flying, Pc
<1>2. LiveIsHead'
  BY <1>1 DEF SessionsInv, LiveIsHead, Live
<1>3. FlightIsHead'
  <2>1. \A t \in Issued : Shown(t)' => Shown(t)
    BY IssuedTokens DEF Shown, Pc
  <2> QED
    BY <1>1, <2>1, AnswerIsNewest DEF SessionsInv, FlightIsHead
<1>4. Excused(session.refresh, {})'
  BY <1>1 DEF SessionsInv, Excused
<1>5. Excused(disk.refresh, {session.refresh})'
  <2>1. \A t : Newer(t) \subseteq Issued /\ Nil \notin Newer(t)
    BY IssuedTokens DEF Newer
  <2> QED
    BY <1>1, <1>4, <2>1 DEF SessionsInv, Excused
<1> QED
  BY <1>2, <1>3, <1>4, <1>5 DEF SessionsInv

\* Steps of the app that write the preferences: a sign-out, and the file.
LEMMA ForgetStepsKeepInv ==
    ASSUME SessionsInv, RemoveAccess \/ RemoveRefresh \/ Flush PROVE SessionsInv'
<1>1. Issued' = Issued /\ UNCHANGED <<server, call, late>>
  BY DEF RemoveAccess, RemoveRefresh, Flush, Issued, server
<1>2. /\ session' \in Session /\ disk' \in Session
      /\ {session'.access, session'.refresh, disk'.access, disk'.refresh} \subseteq Issued \cup {Nil}
      /\ signedIn' \in BOOLEAN /\ leaving' \in BOOLEAN /\ (signedIn' => signedIn)
  <2>1. /\ session \in Session /\ disk \in Session
        /\ {session.access, session.refresh, disk.access, disk.refresh} \subseteq Issued \cup {Nil}
        /\ signedIn \in BOOLEAN /\ leaving \in BOOLEAN
    BY DEF SessionsInv, SessionsTypes, AppOK
  <2>2. CASE RemoveAccess
    BY <2>1, <2>2 DEF RemoveAccess, Put, Session
  <2>3. CASE RemoveRefresh
    BY <2>1, <2>3 DEF RemoveRefresh, Put, Session
  <2>4. CASE Flush
    BY <2>1, <2>4 DEF Flush
  <2> QED
    BY <2>2, <2>3, <2>4
<1>3. lost \subseteq lost' /\ lost' \subseteq Issued
  BY DEF RemoveAccess, RemoveRefresh, Flush, Put, Replaced, SessionsInv, SessionsTypes, AppOK, WireOK
<1>4. SessionsTypes'
  BY <1>1, <1>2, <1>3 DEF SessionsInv, SessionsTypes, TablesOK, AppOK, WireOK, CallsOK,
                          OneSignIn, SigningIn, server
<1>5. /\ \/ session'.refresh = session.refresh
         \/ session'.refresh = Nil /\ session.refresh \in lost' \cup {Nil}
      /\ disk'.refresh \in {disk.refresh, session'.refresh}
  BY DEF RemoveAccess, RemoveRefresh, Flush, Put, Replaced, SessionsInv, SessionsTypes, AppOK, Session
<1> QED
  BY <1>1, <1>3, <1>4, <1>5, ForgetKeepsInv DEF server

\* An access token expires: no refresh token is concerned.
LEMMA AccessExpiresKeepsInv ==
    ASSUME SessionsInv, NEW t \in Tokens, AccessExpires(t) PROVE SessionsInv'
<1>1. Issued' = Issued /\ UNCHANGED <<accounts, free, row, chain, app, call, late, lost>>
      /\ expired' \subseteq Issued
  BY DEF AccessExpires, Issued, SessionsInv, SessionsTypes, TablesOK
<1>2. SessionsTypes'
  BY <1>1 DEF SessionsInv, SessionsTypes, TablesOK, AppOK, WireOK, CallsOK, OneSignIn,
              SigningIn, app
<1> QED
  BY <1>1, <1>2, ForgetKeepsInv DEF app

\* The process dies: what it had in memory only is lost.
LEMMA KilledKeepsInv ==
    ASSUME SessionsInv, Killed PROVE SessionsInv'
<1>1. /\ Issued' = Issued /\ (\A t : Newer(t)' = Newer(t)) /\ (\A t : Head(t)' = Head(t))
      /\ UNCHANGED <<server, disk>> /\ session' = disk
  BY DEF Killed, Issued, Newer, Head, server
<1>2. /\ lost \cup InFlight \subseteq lost'
      /\ session.refresh \in lost' \cup {Nil, disk.refresh}
  BY DEF Killed, InFlight
<1>3. lost' \subseteq Issued
  BY AnswerIsNewest DEF Killed, Flying, SessionsInv, SessionsTypes, AppOK, WireOK
<1>4. \A t \in late' : t \in late \/ \E c \in Calls : Pc(c) = "refresh" /\ call[c].held = t
  BY DEF Killed, StillComes
<1>5. late' \subseteq Issued
  BY <1>4, CallLocals, IssuedTokens DEF LocalsOK, Pc
<1>6. call' = [c \in Calls |-> NoCall]
  BY DEF Killed
<1>7. SessionsTypes'
  <2>1. TablesOK' /\ WireOK'
    BY <1>1, <1>3, <1>5 DEF SessionsInv, SessionsTypes, TablesOK, WireOK, server
  <2>2. AppOK'
    BY <1>1 DEF SessionsInv, SessionsTypes, AppOK, Killed
  <2>3. CallsOK' /\ OneSignIn'
    BY <1>6, IdleLocals DEF CallsOK, OneSignIn, SigningIn
  <2> QED
    BY <2>1, <2>2, <2>3 DEF SessionsTypes
<1>8. LiveIsHead'
  BY <1>1 DEF SessionsInv, LiveIsHead, Live, server
<1>9. FlightIsHead'
  BY <1>6, IdleLocals DEF FlightIsHead, Flying, Pc
<1>10. disk.refresh # Nil => \A s \in Newer(disk.refresh) : s \notin {Nil, disk.refresh}
  <2>1. disk.refresh \in Issued \cup {Nil}
    BY DEF SessionsInv, SessionsTypes, AppOK
  <2>2. Issued \subseteq Nat /\ Nil \notin Issued
    BY IssuedTokens, TokensAssumption
  <2> QED
    BY <2>1, <2>2 DEF Newer
<1>11. Excused(session.refresh, {})' /\ Excused(disk.refresh, {session.refresh})'
  BY <1>1, <1>2, <1>10 DEF SessionsInv, Excused, server
<1> QED
  BY <1>7, <1>8, <1>9, <1>11 DEF SessionsInv

(***************************************************************************)
(* The theorems                                                            *)
(***************************************************************************)
\* Nothing is issued at first.
LEMMA InitInv == Init => SessionsInv
<1> SUFFICES ASSUME Init PROVE SessionsInv
  OBVIOUS
<1>1. Issued = {}
  BY DEF Init, Issued, NoRow
<1>2. /\ session = NoSession /\ disk = NoSession /\ call = [c \in Calls |-> NoCall]
      /\ late = {} /\ lost = {} /\ expired = {} /\ accounts = {} /\ free = {}
      /\ signedIn = FALSE /\ leaving = FALSE
  BY DEF Init
<1>3. TablesOK /\ WireOK
  BY <1>1, <1>2 DEF Init, TablesOK, WireOK, NoRow
<1>4. AppOK
  BY <1>1, <1>2 DEF AppOK, NoSession, Session
<1>5. CallsOK /\ OneSignIn
  BY <1>2, IdleLocals DEF CallsOK, OneSignIn, SigningIn
<1>6. LiveIsHead /\ FlightIsHead
  BY <1>1, <1>2, IdleLocals DEF LiveIsHead, FlightIsHead, Flying, Pc
<1>7. session.refresh = Nil /\ disk.refresh = Nil
  BY <1>2 DEF NoSession
<1> QED
  BY <1>3, <1>4, <1>5, <1>6, <1>7 DEF SessionsInv, SessionsTypes, Excused

\* Every step keeps the invariant.
LEMMA NextKeepsInv == SessionsInv /\ [Next]_vars => SessionsInv'
<1> SUFFICES ASSUME SessionsInv, [Next]_vars PROVE SessionsInv'
  OBVIOUS
<1>1. ASSUME NEW c \in Calls, ServerStep(c) PROVE SessionsInv'
  BY <1>1, CreateUserKeepsInv, GrantFreeKeepsInv, CheckUserKeepsInv, IssueTokensKeepsInv,
     RefreshKeepsInv, InvalidRefreshKeepsInv, AuthenticatedKeepsInv DEF ServerStep
<1>2. ASSUME NEW c \in Calls, AppStep(c) PROVE SessionsInv'
  BY <1>2, SignInKeepsInv, ExecuteKeepsInv, RefreshBlockingKeepsInv, SaveFirstKeepsInv,
     SaveSecondKeepsInv, CallFailsKeepsInv, ResendKeepsInv DEF AppStep
<1>3. ASSUME NEW t \in Tokens,
             RefreshLate(t) \/ RevokeRefreshToken(t) \/ AccessExpires(t) \/ RefreshExpires(t)
      PROVE  SessionsInv'
  BY <1>3, RefreshLateKeepsInv, OverKeepsInv, AccessExpiresKeepsInv
<1>4. CASE RemoveAccess \/ RemoveRefresh \/ Flush \/ Killed
  BY <1>4, ForgetStepsKeepInv, KilledKeepsInv
<1>5. CASE UNCHANGED vars
  <2>1. SessionsTypes'
    BY <1>5 DEF vars, server, app, SessionsInv, SessionsTypes, TablesOK, AppOK, WireOK, CallsOK,
                OneSignIn, SigningIn, Issued
  <2> QED
    BY <1>5, <2>1, ForgetKeepsInv DEF vars, server, app
<1> QED
  BY <1>1, <1>2, <1>3, <1>4, <1>5 DEF Next

\* The invariant holds always.
LEMMA InvHolds == Spec => []SessionsInv
  BY InitInv, NextKeepsInv, PTL DEF Spec

\* The tables, the app and the calls are of their types in every behaviour; in
\* particular one sign-in at most is under way.
THEOREM TypesHold == Spec => []SessionsTypeOK
  BY InvHolds, InvImplies, PTL

\* RotateRefreshToken leaves one live token of a sign-in at most, for any number
\* of calls, tokens, resent and late requests.
THEOREM OneTokenIsLive == Spec => []OneLiveToken
  BY InvHolds, InvImplies, PTL

\* If the app keeps a refresh token that has been exchanged, what it was exchanged
\* for is on its way to SessionStore.save or was lost with an answer, the process
\* or a sign-out.
THEOREM NobodyIsLockedOut == Spec => []LockedOutOnlyByLoss
  BY InvHolds, InvImplies, PTL

\* The app's two tokens are written by a save, with the newest of a chain, or
\* are removed; or the process dies.
LEMMA StepNeverBackwards ==
    ASSUME SessionsInv, [Next]_vars
    PROVE  Killed \/ \A key \in {"access", "refresh"} :
              LET old == session[key]  new == session'[key] IN
              old # Nil /\ new # Nil /\ chain[old] = chain'[new] => new >= old
<1> DEFINE Keys == {"access", "refresh"}
           Good == \A key \in Keys :
              session[key] # Nil /\ session'[key] # Nil /\ chain[session[key]] = chain'[session'[key]]
                  => session'[key] >= session[key]
<1>1. /\ \A key \in Keys : session[key] \in Issued \cup {Nil}
      /\ DOMAIN session = Keys /\ session = [key \in DOMAIN session |-> session[key]]
      /\ Issued \subseteq Nat
  BY IssuedTokens, TokensAssumption DEF SessionsInv, SessionsTypes, AppOK, Session
<1>2. ASSUME session' = session PROVE Good
  BY <1>1, <1>2
<1>3. ASSUME NEW key \in Keys, session' = [session EXCEPT ![key] = Nil] PROVE Good
  <2>1. \A k \in Keys : session'[k] \in {session[k], Nil}
    BY <1>1, <1>3
  <2> QED
    BY <1>1, <2>1
<1>4. ASSUME NEW key \in Keys, NEW c \in Calls, Flying(c), chain' = chain,
             session' = [session EXCEPT ![key] = call[c].got]
      PROVE  Good
  <2>1. /\ call[c].got \in Issued
        /\ \A s \in Issued : chain[s] = chain[call[c].got] => s <= call[c].got
    BY <1>4, AnswerIsNewest
  <2>2. \A k \in Keys : session'[k] \in {session[k], call[c].got}
    BY <1>1, <1>4
  <2> QED
    BY <1>1, <1>4, <2>1, <2>2
<1>5. ASSUME NEW c \in Calls, SaveFirst(c) \/ SaveSecond(c) PROVE Good
  BY <1>4, <1>5 DEF SaveFirst, SaveSecond, Put, SaveOrder, Flying, server
<1>6. ASSUME RemoveAccess \/ RemoveRefresh PROVE Good
  BY <1>3, <1>6 DEF RemoveAccess, RemoveRefresh, Put
<1>7. ASSUME NEW c \in Calls, ServerStep(c) PROVE session' = session
  BY <1>7 DEF ServerStep, CreateUser, GrantFree, CheckUser, IssueTokens, Refresh, InvalidRefresh,
              Authenticated, server, app
<1>8. ASSUME NEW c \in Calls,
             \/ \E u \in Users, screen \in {"signup", "login"} : SignIn(c, u, screen)
             \/ Execute(c) \/ RefreshBlocking(c) \/ ExecuteAgain(c) \/ CallFails(c) \/ Resend(c)
      PROVE  session' = session
  BY <1>8 DEF SignIn, Execute, RefreshBlocking, ExecuteAgain, CallFails, Resend, app
<1>9. ASSUME NEW t \in Tokens,
             RefreshLate(t) \/ RevokeRefreshToken(t) \/ AccessExpires(t) \/ RefreshExpires(t)
      PROVE  session' = session
  BY <1>9 DEF RefreshLate, RevokeRefreshToken, AccessExpires, RefreshExpires, app
<1>10. ASSUME Flush \/ UNCHANGED vars PROVE Good
  BY <1>2, <1>10 DEF Flush, vars, app
<1> HIDE DEF Good
<1>11. ASSUME NEW c \in Calls, AppStep(c) PROVE Good
  BY <1>2, <1>5, <1>8, <1>11 DEF AppStep
<1>12. Killed \/ Good
  <2>1. CASE \E c \in Calls : ServerStep(c) \/ AppStep(c)
    BY <1>2, <1>7, <1>11, <2>1
  <2>2. CASE \E t \in Tokens :
               RefreshLate(t) \/ RevokeRefreshToken(t) \/ AccessExpires(t) \/ RefreshExpires(t)
    BY <1>2, <1>9, <2>2
  <2> QED
    BY <1>6, <1>10, <2>1, <2>2 DEF Next
<1> QED
  BY <1>12 DEF Good

\* SessionStore.save never replaces a token by an older one of the same sign-in,
\* although it is two edits and other threads save between them.
THEOREM NoStepGoesBackwards == Spec => NeverBackwards
<1>1. SessionsInv /\ [Next]_vars =>
        [Killed \/ \A key \in {"access", "refresh"} :
              LET old == session[key]  new == session'[key] IN
              old # Nil /\ new # Nil /\ chain[old] = chain'[new] => new >= old]_vars
  BY StepNeverBackwards
<1> QED
  BY <1>1, InvHolds, PTL DEF Spec, NeverBackwards

=============================================================================
