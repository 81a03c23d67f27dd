------------------------------ MODULE Sessions ------------------------------
(***************************************************************************)
(* Sign-in sessions: the refresh_tokens table and the handlers that issue, *)
(* rotate and revoke, the access tokens the middleware checks, and the app *)
(* that keeps one pair of tokens and uses it from several threads, over a  *)
(* network that may lose an answer or deliver a request late, in a process *)
(* that may be killed before its preferences are on disk.                  *)
(*                                                                         *)
(* An access token and the refresh token of the same answer are one member *)
(* of Tokens, numbered as they are issued.  A step is one request to the   *)
(* server, one SQL statement or transaction, or one read or write of the   *)
(* preferences.                                                            *)
(*                                                                         *)
(* A Bug_ operator is a faulty variant of the definition that follows it,  *)
(* and no behaviour uses it.                                               *)
(***************************************************************************)
EXTENDS Integers, FiniteSets

CONSTANTS
    Users,
    Calls,      \* API calls the app makes concurrently
    Tokens,     \* bound: pairs of tokens ever issued
    MaxLate,    \* bound: refresh requests on the wire that nobody waits for
    Nil

ASSUME TokensAssumption == Tokens \subseteq Nat /\ Nil \notin Tokens /\ Nil \notin Users
ASSUME LateAssumption == MaxLate \in Nat

VARIABLES
    accounts,   \* the users table
    free,       \* users who were given the free plan
    row,        \* refresh_tokens: per token its user and its state
    chain,      \* history: per token, the one its sign-in issued
    expired,    \* access tokens past their exp
    session,    \* SessionStore: what getString returns
    disk,       \* SessionStore: what a new process would find
    signedIn,   \* UiState.signedIn: the app shows its main screen
    leaving,    \* signOut is between its two edits
    call,       \* per API call: where it is, and its local variables
    late,       \* refresh requests whose caller has given up, still on the wire
    lost        \* history: tokens the app was issued, or had, and no longer has

server == <<accounts, free, row, chain, expired>>
app    == <<session, disk, signedIn, leaving>>
vars   == <<server, app, call, late, lost>>

-----------------------------------------------------------------------------
NoRow     == [user |-> Nil, state |-> "none"]
NoSession == [access |-> Nil, refresh |-> Nil]
NoCall    == [pc |-> "idle", user |-> Nil, held |-> Nil, got |-> Nil, again |-> FALSE]

Pc(c)     == call[c].pc
Issued    == {t \in Tokens : row[t].state # "none"}
Live(t)   == row[t].state = "live"
Fresh(t)  == t \notin Issued /\ \A s \in Tokens : s < t <=> s \in Issued
Goto(c, pc) == call' = [call EXCEPT ![c].pc = pc]
End(c)      == call' = [call EXCEPT ![c] = NoCall]

\* Newer(t): the tokens t was exchanged for, directly or not.
Newer(t) == {s \in Issued : chain[s] = chain[t] /\ s > t}

-----------------------------------------------------------------------------
(***************************************************************************)
(* The server                                                              *)
(***************************************************************************)
\* handleSignup: CreateUser.
CreateUser(c) ==
    /\ Pc(c) = "signup"
    /\ IF call[c].user \in accounts
       THEN End(c) /\ UNCHANGED accounts
       ELSE Goto(c, "grant") /\ accounts' = accounts \cup {call[c].user}
    /\ UNCHANGED <<free, row, chain, expired, app, late, lost>>

\* ... GrantTimeBlock, whose failure is only logged.
GrantFree(c) ==
    /\ Pc(c) = "grant"
    /\ free' \in {free, free \cup {call[c].user}}
    /\ Goto(c, "issue")
    /\ UNCHANGED <<accounts, row, chain, expired, app, late, lost>>

\* handleLogin: UserByIdentifier, CheckPassword.
CheckUser(c) ==
    /\ Pc(c) = "login"
    /\ \/ call[c].user \in accounts /\ Goto(c, "issue")
       \/ End(c)
    /\ UNCHANGED <<server, app, late, lost>>

\* A new row of the table.
Insert(t, u, root) ==
    /\ Fresh(t)
    /\ chain' = [chain EXCEPT ![t] = root]
    /\ row' = [row EXCEPT ![t] = [user |-> u, state |-> "live"]]

IssueTokens(c) ==
    /\ Pc(c) = "issue"
    /\ \E t \in Tokens :
          /\ Insert(t, call[c].user, t)
          /\ call' = [call EXCEPT ![c].pc = "answer", ![c].got = t]
    /\ UNCHANGED <<accounts, free, expired, app, late, lost>>

\* The token presented need not be unused: a replay gets a second one.
Bug_RotateRefreshToken(t, n) ==
    /\ row[t].state \in {"live", "rotated"} /\ Fresh(n)
    /\ row' = [row EXCEPT ![t].state = "rotated", ![n] = [user |-> row[t].user, state |-> "live"]]
    /\ chain' = [chain EXCEPT ![n] = chain[t]]

\* Revoke and insert, no transaction: the insert may not happen.
Bug_RotateUnatomically(t, n) ==
    /\ Live(t) /\ Fresh(n)
    /\ \/ /\ row' = [row EXCEPT ![t].state = "rotated"]
          /\ UNCHANGED chain
       \/ /\ row' = [row EXCEPT ![t].state = "rotated",
                                ![n] = [user |-> row[t].user, state |-> "live"]]
          /\ chain' = [chain EXCEPT ![n] = chain[t]]

\* One transaction: the token presented, if live, is revoked and n takes its
\* place.
RotateRefreshToken(t, n) ==
    /\ Live(t) /\ Fresh(n)
    /\ row' = [row EXCEPT ![t].state = "rotated", ![n] = [user |-> row[t].user, state |-> "live"]]
    /\ chain' = [chain EXCEPT ![n] = chain[t]]

\* handleRefresh.  Whatever goes wrong is answered 401 invalid_refresh.
Refresh(c) ==
    /\ Pc(c) = "refresh"
    /\ \E n \in Tokens :
          /\ RotateRefreshToken(call[c].held, n)
          /\ call' = [call EXCEPT ![c].pc = "answer", ![c].got = n]
    /\ UNCHANGED <<accounts, free, expired, app, late, lost>>

InvalidRefresh(c) ==
    /\ Pc(c) = "refresh"
    /\ End(c)
    /\ UNCHANGED <<server, app, late, lost>>

\* A request nobody waits for any more is executed; so is its answer lost.
RefreshLate(t) ==
    /\ t \in late
    /\ late' = late \ {t}
    /\ \/ ~Live(t) /\ UNCHANGED <<row, chain, lost>>
       \/ \E n \in Tokens : RotateRefreshToken(t, n) /\ lost' = lost \cup {n}
    /\ UNCHANGED <<accounts, free, expired, app, call>>

\* handleLogout: RevokeRefreshToken.  The app has the token, and no
\* caller for it.
RevokeRefreshToken(t) ==
    /\ Live(t) /\ t = session.refresh
    /\ row' = [row EXCEPT ![t].state = "over"]
    /\ UNCHANGED <<accounts, free, chain, expired, app, call, late, lost>>

\* The middleware, and the app on its answer: a token that is merely expired is
\* told from an invalid one, and refreshed, once.
Authenticated(c) ==
    /\ Pc(c) = "ask"
    /\ IF call[c].held \in expired /\ ~call[c].again THEN Goto(c, "expired") ELSE End(c)
    /\ UNCHANGED <<server, app, late, lost>>

\* Tokens live equally long: they expire in the order they were issued.
AccessExpires(t) ==
    /\ t \in Issued \ expired
    /\ \A s \in Issued : s < t => s \in expired
    /\ expired' = expired \cup {t}
    /\ UNCHANGED <<accounts, free, row, chain, app, call, late, lost>>

\* RefreshTokenTTL, longer than the access token's.
RefreshExpires(t) ==
    /\ Live(t) /\ t \in expired
    /\ \A s \in Issued : s < t => ~Live(s)
    /\ row' = [row EXCEPT ![t].state = "over"]
    /\ UNCHANGED <<accounts, free, chain, expired, app, call, late, lost>>

-----------------------------------------------------------------------------
(***************************************************************************)
(* The app                                                                 *)
(***************************************************************************)
SigningIn(c) == call[c].user # Nil

\* The buttons stay on.
Bug_SignIn(c, u, screen) ==
    /\ Pc(c) = "idle" /\ ~signedIn
    /\ call' = [call EXCEPT ![c] = [NoCall EXCEPT !.pc = screen, !.user = u]]
    /\ UNCHANGED <<server, app, late, lost>>

\* The sign-in screen is shown while nobody is signed in; its buttons are off
\* while a call of theirs is busy.
SignIn(c, u, screen) ==
    /\ Pc(c) = "idle" /\ ~signedIn
    /\ \A d \in Calls : ~SigningIn(d)
    /\ call' = [call EXCEPT ![c] = [NoCall EXCEPT !.pc = screen, !.user = u]]
    /\ UNCHANGED <<server, app, late, lost>>

\* execute, authenticated
Execute(c) ==
    /\ Pc(c) = "idle" /\ session.access # Nil
    /\ call' = [call EXCEPT ![c] = [NoCall EXCEPT !.pc = "ask", !.held = session.access]]
    /\ UNCHANGED <<server, app, late, lost>>

\* refreshBlocking
RefreshBlocking(c) ==
    /\ Pc(c) = "expired"
    /\ IF session.refresh = Nil THEN End(c)
       ELSE call' = [call EXCEPT ![c].pc = "refresh", ![c].held = session.refresh]
    /\ UNCHANGED <<server, app, late, lost>>

\* A refresh token that gives way to one of another sign-in is lost.
Replaced(old, new) ==
    IF old = Nil \/ new = old THEN {}
    ELSE IF new # Nil /\ chain[new] = chain[old] THEN {} ELSE {old}

Bug_SaveOrder == <<"refresh", "access">>

\* SessionStore.save: an edit a token, in this order.  (The third, of the user
\* id, is never read.)
SaveOrder == <<"access", "refresh">>

Put(key, t) ==
    /\ session' = [session EXCEPT ![key] = t]
    /\ lost' = IF key = "refresh" THEN lost \cup Replaced(session.refresh, t) ELSE lost

SaveFirst(c) ==
    /\ Pc(c) = "answer"
    /\ Put(SaveOrder[1], call[c].got)
    /\ Goto(c, "save")
    /\ UNCHANGED <<server, disk, signedIn, leaving, late>>

\* ... and the caller goes on: execute, or signIn.
SaveSecond(c) ==
    /\ Pc(c) = "save"
    /\ Put(SaveOrder[2], call[c].got)
    /\ IF SigningIn(c) THEN signedIn' = TRUE /\ End(c)
       ELSE Goto(c, "again") /\ UNCHANGED signedIn
    /\ UNCHANGED <<server, disk, leaving, late>>

\* execute once more, with the access token there is by now.
ExecuteAgain(c) ==
    /\ Pc(c) = "again"
    /\ IF session.access = Nil THEN End(c)
       ELSE call' = [call EXCEPT ![c] = [NoCall EXCEPT !.pc = "ask", !.held = session.access,
                                                       !.again = TRUE]]
    /\ UNCHANGED <<server, app, late, lost>>

\* Refresh requests nobody waits for any more.
StillComes(L) == late' = late \cup L /\ Cardinality(late') <= MaxLate

\* An IOException, or an error of the server's, on the way there or back.  A
\* refresh request may be executed later.
CallFails(c) ==
    /\ Pc(c) \in {"signup", "grant", "login", "issue", "ask", "refresh", "answer"}
    /\ \/ UNCHANGED late
       \/ Pc(c) = "refresh" /\ StillComes({call[c].held})
    /\ lost' = IF Pc(c) = "answer" THEN lost \cup {call[c].got} ELSE lost
    /\ End(c)
    /\ UNCHANGED <<server, app>>

\* retryOnConnectionFailure: OkHttp sends the request a second time.
Resend(c) ==
    /\ ~SigningIn(c)
    /\ \/ Pc(c) = "refresh" /\ StillComes({call[c].held}) /\ UNCHANGED <<call, lost>>
       \/ /\ Pc(c) = "answer" /\ lost' = lost \cup {call[c].got}
          /\ call' = [call EXCEPT ![c].pc = "refresh", ![c].got = Nil]
          /\ UNCHANGED late
    /\ UNCHANGED <<server, app>>

\* SessionStore.signOut: one edit a token; then the state of the screen.
RemoveAccess ==
    /\ signedIn /\ ~leaving
    /\ Put("access", Nil)
    /\ leaving' = TRUE
    /\ UNCHANGED <<server, disk, signedIn, call, late>>

RemoveRefresh ==
    /\ leaving
    /\ Put("refresh", Nil)
    /\ leaving' = FALSE /\ signedIn' = FALSE
    /\ UNCHANGED <<server, disk, call, late>>

\* apply() writes the file in the background.
Flush ==
    /\ disk' = session
    /\ UNCHANGED <<server, session, signedIn, leaving, call, late, lost>>

\* The process dies; what it had not written is gone.
Killed ==
    /\ session' = disk
    /\ signedIn' = (disk.refresh # Nil)
    /\ leaving' = FALSE
    /\ \E L \in SUBSET {call[c].held : c \in {d \in Calls : Pc(d) = "refresh"}} : StillComes(L)
    /\ lost' = lost \cup {call[c].got : c \in {d \in Calls : Pc(d) \in {"answer", "save"}}}
                    \cup (IF session.refresh \in {Nil, disk.refresh} THEN {} ELSE {session.refresh})
    /\ call' = [c \in Calls |-> NoCall]
    /\ UNCHANGED <<server, disk>>

-----------------------------------------------------------------------------
Init ==
    /\ accounts = {} /\ free = {}
    /\ row = [t \in Tokens |-> NoRow]
    /\ chain = [t \in Tokens |-> Nil]
    /\ expired = {}
    /\ session = NoSession /\ disk = NoSession
    /\ signedIn = FALSE /\ leaving = FALSE
    /\ call = [c \in Calls |-> NoCall]
    /\ late = {} /\ lost = {}

ServerStep(c) ==
    CreateUser(c) \/ GrantFree(c) \/ CheckUser(c) \/ IssueTokens(c)
    \/ Refresh(c) \/ InvalidRefresh(c) \/ Authenticated(c)

AppStep(c) ==
    \/ \E u \in Users, screen \in {"signup", "login"} : SignIn(c, u, screen)
    \/ Execute(c) \/ RefreshBlocking(c) \/ ExecuteAgain(c)
    \/ SaveFirst(c) \/ SaveSecond(c)
    \/ CallFails(c) \/ Resend(c)

Next ==
    \/ \E c \in Calls : ServerStep(c) \/ AppStep(c)
    \/ \E t \in Tokens :
          RefreshLate(t) \/ RevokeRefreshToken(t) \/ AccessExpires(t) \/ RefreshExpires(t)
    \/ RemoveAccess \/ RemoveRefresh \/ Flush \/ Killed

Spec == Init /\ [][Next]_vars

-----------------------------------------------------------------------------
(***************************************************************************)
(* Properties                                                              *)
(***************************************************************************)
Session == [access : Tokens \cup {Nil}, refresh : Tokens \cup {Nil}]

CallState ==
    [pc : {"idle", "signup", "grant", "login", "issue", "ask", "expired", "refresh",
           "answer", "save", "again"},
     user : Users \cup {Nil}, held : Tokens \cup {Nil}, got : Tokens \cup {Nil},
     again : BOOLEAN]

\* The state is of its type; a token has a user and a chain once it is issued,
\* and whoever holds a token holds an issued one.  One sign-in is under way at most, and
\* none once the app is signed in.
SessionsTypeOK ==
    /\ accounts \subseteq Users /\ free \subseteq accounts
    /\ row \in [Tokens -> [user : Users \cup {Nil},
                           state : {"none", "live", "rotated", "over"}]]
    /\ chain \in [Tokens -> Tokens \cup {Nil}]
    /\ \A t \in Issued : row[t].user \in Users /\ chain[t] \in Issued
    /\ session \in Session /\ disk \in Session
    /\ {session.access, session.refresh, disk.access, disk.refresh} \subseteq Issued \cup {Nil}
    /\ signedIn \in BOOLEAN /\ leaving \in BOOLEAN
    /\ call \in [Calls -> CallState]
    /\ \A c \in Calls : {call[c].held, call[c].got} \subseteq Issued \cup {Nil}
    /\ \A c, d \in Calls : SigningIn(c) => ~signedIn /\ (SigningIn(d) => d = c)
    /\ expired \subseteq Issued /\ late \subseteq Issued /\ lost \subseteq Issued

\* "rather than two live tokens existing": of all the tokens that go back to one
\* sign-in at most one is live, whatever was resent, replayed or came late.
OneLiveToken ==
    \A s, t \in Issued : Live(s) /\ Live(t) /\ chain[s] = chain[t] => s = t

InFlight == {call[c].got : c \in {d \in Calls : Pc(d) \in {"answer", "save"}}}

\* The refresh token the app keeps has been exchanged already only if the one it
\* was exchanged for is about to be saved, or was lost for good: with an answer,
\* with the process, by signing out or to another sign-in.  Threads that refresh
\* at the same time do not lock each other out.
LockedOutOnlyByLoss ==
    session.refresh # Nil /\ row[session.refresh].state = "rotated"
        => Newer(session.refresh) \cap (InFlight \cup lost) # {}

\* Of one sign-in, the app never replaces a token by an older one, although two
\* threads may save at the same time, the edits of one between those of the
\* other; only a process that dies goes back to what is on disk.
NeverBackwards ==
    [][Killed \/ \A key \in {"access", "refresh"} :
            LET old == session[key]  new == session'[key] IN
            old # Nil /\ new # Nil /\ chain[old] = chain'[new] => new >= old]_vars

=============================================================================
