-------------------------- MODULE VpnServiceProofs --------------------------
(***************************************************************************)
(* Proofs about the Android service, for any networks, configs and ladders,*)
(* any number of starts and refreshes at one time, and callbacks, timers   *)
(* and coroutines in any order.                                            *)
(*                                                                         *)
(* Each handler of the engine gives the service a list of actions.  The    *)
(* work is to say, per handler, what that list leaves on the phone, next   *)
(* to what the handler leaves in the engine: a tunnel that is wanted and   *)
(* not up has somebody working on it (Served), and a grace window that     *)
(* runs has its timer (Timed).                                             *)
(***************************************************************************)
EXTENDS VpnService, ReliabilityEngineProofs, SequenceTheorems

StartState ==
    [pc : {"none", "launched", "ready", "ok", "failed", "rejected"},
     fallback : Fallback \cup {Nil}]

PhoneState ==
    [tun : BOOLEAN, backend : BOOLEAN, armed : SUBSET Timers, asking : Nat, waiting : Nat,
     starts : [Slots -> StartState]]

\* Somebody works on the tunnel: F are the timers about to dispatch.
Busy(ph, F) ==
    Free(ph) # Slots \/ ph.asking + ph.waiting > 0 \/ "retry" \in ph.armed \cup F

Unserved(e) == e.wantsTunnel /\ e.network # Nil /\ e.status # "CONNECTED"

-----------------------------------------------------------------------------
(***************************************************************************)
(* Executing the actions of a list                                         *)
(***************************************************************************)
\* The recursion that walks the list is well defined, for the lists there are.
LEMMA AfterEachStep ==
    ASSUME NEW ph, NEW acts, Len(acts) \in 0 .. 4
    PROVE  AfterEach(ph, acts) =
              [i \in 0 .. Len(acts) |->
                 IF i = 0 THEN ph ELSE execute(AfterEach(ph, acts)[i - 1], acts[i])]
<1> DEFINE one   == execute(ph, acts[1])
           two   == execute(one, acts[2])
           three == execute(two, acts[3])
           four  == execute(three, acts[4])
           f == [i \in 0 .. Len(acts) |->
                   IF i = 0 THEN ph ELSE IF i = 1 THEN one ELSE IF i = 2 THEN two
                   ELSE IF i = 3 THEN three ELSE four]
           Walk(g) == g = [i \in 0 .. Len(acts) |-> IF i = 0 THEN ph ELSE execute(g[i - 1], acts[i])]
<1>1. ASSUME NEW i \in 0 .. Len(acts)
      PROVE  f[i] = IF i = 0 THEN ph ELSE execute(f[i - 1], acts[i])
  <2> DEFINE n == Len(acts)
  <2>1. i = 0 \/ i = 1 \/ i = 2 \/ i = 3 \/ i = 4
    <3>1. n \in 0 .. 4 /\ i \in 0 .. n
      OBVIOUS
    <3> HIDE DEF n
    <3> QED
      BY <3>1
  <2> HIDE DEF four
  <2>2. CASE i = 0
    BY <2>2
  <2>3. CASE i = 1
    BY <2>3
  <2>4. CASE i = 2
    BY <2>4
  <2>5. CASE i = 3
    BY <2>5
  <2>6. CASE i = 4
    BY <2>6 DEF four
  <2> QED
    BY <2>1, <2>2, <2>3, <2>4, <2>5, <2>6
<1>2. Walk(f)
  <2> HIDE DEF f
  <2>1. f = [i \in 0 .. Len(acts) |-> f[i]]
    BY DEF f
  <2> QED
    BY <1>1, <2>1
<1>3. \E g : Walk(g)
  <2> HIDE DEF Walk
  <2> QED
    BY <1>2
<1> QED
  BY <1>3 DEF AfterEach

\* What the lists of up to four actions come to.
LEMMA NoAction == ASSUME NEW ph PROVE executeAll(ph, << >>) = ph
<1>1. Len(<< >>) = 0
  OBVIOUS
<1> QED
  BY <1>1, AfterEachStep DEF executeAll

\* A list of one action is that action.
LEMMA OneAction ==
    ASSUME NEW ph, NEW a
    PROVE  executeAll(ph, <<a>>) = execute(ph, a)
<1> DEFINE l == <<a>>
<1>1. Len(l) = 1 /\ l[1] = a
  OBVIOUS
<1> HIDE DEF l
<1> QED
  BY <1>1, AfterEachStep DEF executeAll, l

\* Two actions are executed in their order,
LEMMA TwoActions ==
    ASSUME NEW ph, NEW a, NEW b
    PROVE  executeAll(ph, <<a, b>>) = execute(execute(ph, a), b)
<1> DEFINE l == <<a, b>>
<1>1. Len(l) = 2 /\ l[1] = a /\ l[2] = b
  OBVIOUS
<1> HIDE DEF l
<1> QED
  BY <1>1, AfterEachStep DEF executeAll, l

\* three,
LEMMA ThreeActions ==
    ASSUME NEW ph, NEW a, NEW b, NEW c
    PROVE  executeAll(ph, <<a, b, c>>) = execute(execute(execute(ph, a), b), c)
<1> DEFINE l == <<a, b, c>>
<1>1. Len(l) = 3 /\ l[1] = a /\ l[2] = b /\ l[3] = c
  OBVIOUS
<1> HIDE DEF l
<1> QED
  BY <1>1, AfterEachStep DEF executeAll, l

\* and four, the longest list the engine returns.
LEMMA FourActions ==
    ASSUME NEW ph, NEW a, NEW b, NEW c, NEW d
    PROVE  executeAll(ph, <<a, b, c, d>>)
              = execute(execute(execute(execute(ph, a), b), c), d)
<1> DEFINE l == <<a, b, c, d>>
           A == AfterEach(ph, l)
<1>1. Len(l) = 4 /\ l[1] = a /\ l[2] = b /\ l[3] = c /\ l[4] = d
  OBVIOUS
<1> HIDE DEF l
<1>2. A = [i \in 0 .. 4 |-> IF i = 0 THEN ph ELSE execute(A[i - 1], l[i])]
  <2>1. Len(l) \in 0 .. 4
    BY <1>1
  <2>2. A = [i \in 0 .. Len(l) |-> IF i = 0 THEN ph ELSE execute(A[i - 1], l[i])]
    BY <2>1, AfterEachStep
  <2> QED
    BY <1>1, <2>2
<1> HIDE DEF A
<1>3. A[0] = ph /\ A[1] = execute(A[0], a) /\ A[2] = execute(A[1], b)
  BY <1>1, <1>2
<1>4. A[3] = execute(A[2], c) /\ A[4] = execute(A[3], d)
  BY <1>1, <1>2
<1>5. executeAll(ph, l) = A[4]
  BY <1>1 DEF executeAll, A
<1> QED
  BY <1>3, <1>4, <1>5 DEF l

\* A list with one action more.
LEMMA OneMore ==
    ASSUME NEW S, NEW s \in Seq(S), NEW a \in S, NEW t \in Seq(S),
           Len(t) = Len(s) + 1, t[Len(s) + 1] = a, \A i \in 1 .. Len(s) : t[i] = s[i]
    PROVE  s \o <<a>> = t
<1> DEFINE l == <<a>>
<1>1. l \in Seq(S) /\ Len(l) = 1 /\ l[1] = a
  OBVIOUS
<1> HIDE DEF l
<1>2. /\ s \o l \in Seq(S) /\ Len(s \o l) = Len(s) + Len(l)
      /\ \A i \in 1 .. Len(s) + Len(l) :
            (s \o l)[i] = IF i <= Len(s) THEN s[i] ELSE l[i - Len(s)]
  BY <1>1, ConcatProperties
<1>3. ASSUME NEW i \in 1 .. Len(t) PROVE (s \o l)[i] = t[i]
  <2>1. (s \o l)[i] = IF i <= Len(s) THEN s[i] ELSE l[i - Len(s)]
    BY <1>1, <1>2
  <2>2. CASE i \in 1 .. Len(s)
    BY <2>1, <2>2
  <2>3. CASE i = Len(s) + 1
    <3>1. ~(i <= Len(s)) /\ i - Len(s) = 1
      BY <2>3
    <3>2. (s \o l)[i] = l[i - Len(s)]
      BY <2>1, <3>1, Zenon
    <3>3. (s \o l)[i] = a
      BY <1>1, <3>1, <3>2, Zenon
    <3>4. t[i] = a
      BY <2>3, Zenon
    <3> QED
      BY <3>3, <3>4, Zenon
  <2>4. i \in 1 .. Len(s) \/ i = Len(s) + 1
    <3> DEFINE n == Len(s)
    <3>1. n \in Nat /\ i \in 1 .. n + 1
      OBVIOUS
    <3> HIDE DEF n
    <3>2. i \in 1 .. n \/ i = n + 1
      BY <3>1
    <3> QED
      BY <3>2 DEF n
  <2> QED
    BY <2>2, <2>3, <2>4
<1>4. s \o l = t
  BY <1>1, <1>2, <1>3, SeqEqual
<1> QED
  BY <1>4 DEF l

\* The lists the engine puts together.
LEMMA Joined ==
    /\ \A a, b : <<a>> \o <<b>> = <<a, b>>
    /\ \A a, b, c : <<a, b>> \o <<c>> = <<a, b, c>>
    /\ \A a, b, c, d : <<a, b, c>> \o <<d>> = <<a, b, c, d>>
<1>1. ASSUME NEW a, NEW b PROVE <<a>> \o <<b>> = <<a, b>>
  <2> DEFINE S == {a, b}
             s == <<a>>
             t == <<a, b>>
  <2>1. /\ s \in Seq(S) /\ t \in Seq(S) /\ b \in S /\ Len(t) = Len(s) + 1
        /\ t[Len(s) + 1] = b /\ \A i \in 1 .. Len(s) : t[i] = s[i]
    OBVIOUS
  <2> HIDE DEF s, t, S
  <2>2. s \o <<b>> = t
    BY <2>1, OneMore, Zenon
  <2> QED
    BY <2>2 DEF s, t
<1>2. ASSUME NEW a, NEW b, NEW c PROVE <<a, b>> \o <<c>> = <<a, b, c>>
  <2> DEFINE S == {a, b, c}
             s == <<a, b>>
             t == <<a, b, c>>
  <2>1. /\ s \in Seq(S) /\ t \in Seq(S) /\ c \in S /\ Len(t) = Len(s) + 1
        /\ t[Len(s) + 1] = c /\ \A i \in 1 .. Len(s) : t[i] = s[i]
    OBVIOUS
  <2> HIDE DEF s, t, S
  <2>2. s \o <<c>> = t
    BY <2>1, OneMore, Zenon
  <2> QED
    BY <2>2 DEF s, t
<1>3. ASSUME NEW a, NEW b, NEW c, NEW d PROVE <<a, b, c>> \o <<d>> = <<a, b, c, d>>
  <2> DEFINE S == {a, b, c, d}
             s == <<a, b, c>>
             t == <<a, b, c, d>>
  <2>1. /\ s \in Seq(S) /\ t \in Seq(S) /\ d \in S /\ Len(t) = Len(s) + 1
        /\ t[Len(s) + 1] = d /\ \A i \in 1 .. Len(s) : t[i] = s[i]
    OBVIOUS
  <2> HIDE DEF s, t, S
  <2>2. s \o <<d>> = t
    BY <2>1, OneMore, Zenon
  <2> QED
    BY <2>2 DEF s, t
<1> QED
  BY <1>1, <1>2, <1>3

\* What each action does to the phone.
LEMMA Executed ==
    ASSUME NEW ph
    PROVE  /\ \A f, m : execute(ph, StartTunnel(f, m)) = startTunnel(ph, f)
           /\ \A p : execute(ph, SetTrafficPolicy(p)) = applyTrafficPolicy(ph, p)
           /\ execute(ph, Plain("StopTunnel")) = [ph EXCEPT !.backend = FALSE]
           /\ execute(ph, Plain("ScheduleRetry")) = [ph EXCEPT !.armed = @ \cup {"retry"}]
           /\ execute(ph, Plain("ScheduleGraceExpiry")) = [ph EXCEPT !.armed = @ \cup {"grace"}]
           /\ execute(ph, Plain("ScheduleStabilityCheck"))
                 = [ph EXCEPT !.armed = @ \cup {"stability"}]
           /\ execute(ph, Plain("CancelTimers")) = [ph EXCEPT !.armed = {}]
           /\ execute(ph, Plain("RefreshConfig")) = refreshConfig(ph)
BY DEF execute, StartTunnel, SetTrafficPolicy, Plain

-----------------------------------------------------------------------------
(***************************************************************************)
(* What single actions leave alone                                         *)
(***************************************************************************)
\* Applying a policy never touches timers, starts or refreshes, and closes the
\* tun only for DIRECT.
LEMMA PolicyApplied ==
    ASSUME NEW ph \in PhoneState, NEW p \in Policies
    PROVE  LET Q == applyTrafficPolicy(ph, p) IN
           /\ Q \in PhoneState /\ Q.armed = ph.armed /\ Q.starts = ph.starts
           /\ Q.asking = ph.asking /\ Q.waiting = ph.waiting
           /\ p # "DIRECT" => Q.tun = ph.tun
BY DEF applyTrafficPolicy, PhoneState, Policies

\* A start takes a free slot.
LEMMA StartTakesSlot ==
    ASSUME NEW ph \in PhoneState, Free(ph) # {}, NEW f \in Fallback \cup {Nil}
    PROVE  LET Q == startTunnel(ph, f) IN
           /\ Q \in PhoneState /\ Free(Q) # Slots /\ Q.armed = ph.armed /\ Q.tun = ph.tun
           /\ Q.asking = ph.asking /\ Q.waiting = ph.waiting
<1> DEFINE s == AnyFree(ph)
           x == [pc |-> "launched", fallback |-> f]
           Q == startTunnel(ph, f)
<1>1. s \in Free(ph)
  BY DEF AnyFree
<1>2. s \in Slots
  BY <1>1 DEF Free
<1> HIDE DEF s
<1>3. x \in StartState /\ x # NoStart
  BY DEF StartState, NoStart
<1>4. Q = [ph EXCEPT !.starts[s] = x]
  BY DEF startTunnel, s
<1> HIDE DEF x, Q
<1>5. /\ Q \in PhoneState /\ Q.starts[s] = x /\ Q.armed = ph.armed /\ Q.tun = ph.tun
      /\ Q.asking = ph.asking /\ Q.waiting = ph.waiting
  BY <1>2, <1>3, <1>4 DEF PhoneState
<1>6. s \notin Free(Q)
  BY <1>3, <1>5 DEF Free
<1> QED
  BY <1>2, <1>5, <1>6 DEF Q

\* Asking for a config leaves somebody asking, or waiting to try again.
LEMMA RefreshAsks ==
    ASSUME NEW ph \in PhoneState
    PROVE  LET Q == refreshConfig(ph) IN
           /\ Q \in PhoneState /\ Q.asking + Q.waiting > 0
           /\ Q.armed = ph.armed /\ Q.tun = ph.tun /\ Q.starts = ph.starts
<1> DEFINE n == IF ph.asking + ph.waiting < MaxRefreshes THEN ph.asking + 1 ELSE ph.asking
           Q == refreshConfig(ph)
<1>1. ph.asking \in Nat /\ ph.waiting \in Nat
  BY DEF PhoneState
<1>2. n \in Nat /\ n + ph.waiting > 0
  BY <1>1, BoundsAssumption
<1>3. Q = [ph EXCEPT !.asking = n]
  BY DEF refreshConfig
<1> HIDE DEF n, Q
<1>4. /\ Q \in PhoneState /\ Q.asking = n /\ Q.waiting = ph.waiting
      /\ Q.armed = ph.armed /\ Q.tun = ph.tun /\ Q.starts = ph.starts
  BY <1>2, <1>3 DEF PhoneState
<1> QED
  BY <1>2, <1>4 DEF Q

\* Arming a timer, cancelling all, stopping the backend.
LEMMA TimersAndBackend ==
    ASSUME NEW ph \in PhoneState, NEW t \in Timers
    PROVE  LET A == [ph EXCEPT !.armed = @ \cup {t}]
               C == [ph EXCEPT !.armed = {}]
               B == [ph EXCEPT !.backend = FALSE]
           IN  /\ A \in PhoneState /\ A.armed = ph.armed \cup {t}
               /\ A.tun = ph.tun /\ A.starts = ph.starts
               /\ A.asking = ph.asking /\ A.waiting = ph.waiting
               /\ C \in PhoneState /\ C.tun = ph.tun /\ C.starts = ph.starts
               /\ C.asking = ph.asking /\ C.waiting = ph.waiting
               /\ B \in PhoneState /\ B.armed = ph.armed /\ B.tun = ph.tun
               /\ B.starts = ph.starts
               /\ B.asking = ph.asking /\ B.waiting = ph.waiting
BY DEF PhoneState

-----------------------------------------------------------------------------
(***************************************************************************)
(* What each handler leaves on the phone and in the engine                 *)
(***************************************************************************)
\* A tunnel that is wanted and not up has somebody working on it; a grace
\* window has its timer, or had it before.
Served(e, ph, r) ==
    LET Q == executeAll(ph, r.actions) IN
    /\ Q \in PhoneState
    /\ Unserved(r.engine) => Busy(Q, {})
    /\ r.engine.graceRunning => \/ "grace" \in Q.armed
                                \/ e.graceRunning /\ ph.armed \subseteq Q.armed

\* The tun stays, unless in soft mode the user is told.
Guarded(e, ph, r) ==
    ph.tun /\ ~executeAll(ph, r.actions).tun /\ e.policy # "DIRECT" =>
        e.killSwitchMode = "SOFT" /\ r.engine.status \in {"UNPROTECTED", "FAILED"}

Handled(e, ph, r) == Served(e, ph, r) /\ Guarded(e, ph, r)

\* No actions, on an engine that wants no tunnel or has one.
LEMMA NothingToDo ==
    ASSUME NEW e, NEW ph \in PhoneState, NEW r,
           r.actions = << >>, r.engine.graceRunning => e.graceRunning, ~Unserved(r.engine)
    PROVE  Handled(e, ph, r)
<1>1. executeAll(ph, r.actions) = ph
  BY NoAction
<1> QED
  BY <1>1 DEF Handled, Served, Guarded

\* Asking for a config serves the tunnel: somebody is asking then.
LEMMA RefreshHandled ==
    ASSUME NEW e, NEW f, NEW ph \in PhoneState, f.graceRunning => e.graceRunning
    PROVE  Handled(e, ph, Refresh(f))
<1>1. executeAll(ph, Refresh(f).actions) = refreshConfig(ph) /\ Refresh(f).engine = f
  <2> DEFINE ask == Plain("RefreshConfig")
  <2>1. Refresh(f).actions = <<ask>> /\ Refresh(f).engine = f
    BY DEF Refresh, Returns
  <2>2. execute(ph, ask) = refreshConfig(ph)
    BY Executed
  <2> HIDE DEF ask
  <2>3. executeAll(ph, <<ask>>) = execute(ph, ask)
    BY OneAction
  <2> QED
    BY <2>1, <2>2, <2>3
<1> QED
  BY <1>1, RefreshAsks DEF Handled, Served, Guarded, Busy

\* Without a network nobody need serve the tunnel.
LEMMA HoldHandled ==
    ASSUME NEW e, NEW f \in EngineState, NEW ph \in PhoneState,
           f.graceRunning => e.graceRunning, f.network = Nil
    PROVE  Handled(e, ph, holdWithoutNetwork(f))
<1> DEFINE g == holdWithoutNetwork(f).engine
<1>1. "BLOCK" \in Policies /\ "BLOCK" # "DIRECT"
  BY DEF Policies
<1>2. executeAll(ph, holdWithoutNetwork(f).actions) = applyTrafficPolicy(ph, "BLOCK")
  <2> DEFINE apply == SetTrafficPolicy("BLOCK")
  <2>1. holdWithoutNetwork(f).actions = <<apply>>
    BY DEF holdWithoutNetwork, Returns
  <2>2. execute(ph, apply) = applyTrafficPolicy(ph, "BLOCK")
    BY Executed
  <2> HIDE DEF apply
  <2>3. executeAll(ph, <<apply>>) = execute(ph, apply)
    BY OneAction
  <2> QED
    BY <2>1, <2>2, <2>3
<1>3. g.network = Nil /\ g.graceRunning = f.graceRunning
  BY DEF holdWithoutNetwork, Returns, EngineState
<1> HIDE DEF g
<1>4. ~Unserved(g)
  BY <1>3 DEF Unserved
<1> QED
  BY <1>1, <1>2, <1>3, <1>4, PolicyApplied DEF Handled, Served, Guarded, g

\* Starting takes a slot, applies the policy there is, and opens the grace
\* window if asked to.
LEMMA StartActions ==
    ASSUME NEW e \in EngineState, NEW grace \in BOOLEAN, NEW ph \in PhoneState,
           WithinBound(ph, startTunnelActions(e, grace).actions)
    PROVE  LET Q == executeAll(ph, startTunnelActions(e, grace).actions) IN
           /\ Q \in PhoneState /\ Free(Q) # Slots /\ ph.armed \subseteq Q.armed
           /\ grace => e.graceRunning \/ "grace" \in Q.armed
           /\ e.policy # "DIRECT" => Q.tun = ph.tun
<1> DEFINE acts == startTunnelActions(e, grace).actions
           apply == SetTrafficPolicy(e.policy)
           start == StartTunnel(e.currentFallback, e.mtu)
           clock == Plain("ScheduleGraceExpiry")
           P == applyTrafficPolicy(ph, e.policy)
           S == startTunnel(P, e.currentFallback)
<1>1. e.policy \in Policies /\ e.currentFallback \in Fallback \cup {Nil}
  BY DEF EngineState
<1>2. /\ P \in PhoneState /\ P.armed = ph.armed /\ P.starts = ph.starts
      /\ e.policy # "DIRECT" => P.tun = ph.tun
  BY <1>1, PolicyApplied
<1>3. acts = <<apply, start, clock>> \/ (acts = <<apply, start>> /\ (grace => e.graceRunning))
  <2>1. acts = <<apply, start>> \o IF grace /\ ~e.graceRunning THEN <<clock>> ELSE << >>
    BY DEF startTunnelActions, Returns
  <2> HIDE DEF acts, apply, start, clock
  <2>2. /\ <<apply, start>> \o <<clock>> = <<apply, start, clock>>
        /\ <<apply, start>> \o << >> = <<apply, start>>
    BY Joined
  <2> QED
    BY <2>1, <2>2
<1>4. Free(P) # {}
  <2>1. 2 \in DOMAIN acts /\ acts[2] = start
    BY <1>3
  <2>2. start.do = "StartTunnel"
    BY DEF StartTunnel
  <2> HIDE DEF acts, start
  <2>3. Free(ph) # {}
    BY <2>1, <2>2 DEF WithinBound, acts
  <2> QED
    BY <1>2, <2>3 DEF Free
<1> HIDE DEF P
<1>5. S \in PhoneState /\ Free(S) # Slots /\ S.armed = ph.armed /\ S.tun = P.tun
  BY <1>1, <1>2, <1>4, StartTakesSlot
<1>6. /\ execute(ph, apply) = P /\ execute(P, start) = S
      /\ execute(S, clock) = [S EXCEPT !.armed = @ \cup {"grace"}]
  <2> HIDE DEF S
  <2>1. execute(ph, apply) = P /\ execute(S, clock) = [S EXCEPT !.armed = @ \cup {"grace"}]
    BY Executed DEF P
  <2>2. \A x, y : execute(P, StartTunnel(x, y)) = startTunnel(P, x)
    BY Executed
  <2>3. execute(P, start) = S
    BY <2>2 DEF S
  <2> QED
    BY <2>1, <2>3
<1> HIDE DEF S, apply, start, clock
<1>7. CASE acts = <<apply, start, clock>>
  <2> DEFINE G == [S EXCEPT !.armed = @ \cup {"grace"}]
  <2>1. executeAll(ph, acts) = G
    <3>1. executeAll(ph, <<apply, start, clock>>)
             = execute(execute(execute(ph, apply), start), clock)
      BY ThreeActions
    <3> HIDE DEF acts
    <3> QED
      BY <1>6, <1>7, <3>1
  <2>2. "grace" \in Timers
    BY DEF Timers
  <2>3. G \in PhoneState /\ G.armed = S.armed \cup {"grace"} /\ G.tun = S.tun
        /\ G.starts = S.starts
    BY <1>5, <2>2, TimersAndBackend
  <2> HIDE DEF G, acts
  <2>4. Free(G) = Free(S)
    BY <2>3 DEF Free
  <2> QED
    BY <1>2, <1>5, <2>1, <2>3, <2>4 DEF acts
<1>8. CASE acts = <<apply, start>> /\ (grace => e.graceRunning)
  <2>1. executeAll(ph, acts) = S
    <3>1. executeAll(ph, <<apply, start>>) = execute(execute(ph, apply), start)
      BY TwoActions
    <3> HIDE DEF acts
    <3> QED
      BY <1>6, <1>8, <3>1
  <2> HIDE DEF acts
  <2> QED
    BY <1>2, <1>5, <1>8, <2>1 DEF acts
<1> QED
  BY <1>3, <1>7, <1>8

\* A fresh attempt holds traffic and keeps the tun.
LEMMA AttemptHandled ==
    ASSUME NEW e \in EngineState, e.config # Nil, NEW n \in Networks,
           NEW status \in {"CONNECTING", "RECONNECTING"}, NEW ph \in PhoneState,
           WithinBound(ph, Attempt(e, n, status).actions)
    PROVE  Handled(e, ph, Attempt(e, n, status))
<1> DEFINE f == [e EXCEPT !.status = status, !.policy = "BLOCK",
                          !.currentFallback = preferred(e, n), !.mtu = mtuFor(e, n)]
           r == Attempt(e, n, status)
<1>1. preferred(e, n) \in Fallback /\ mtuFor(e, n) \in Mtus
  BY PreferredIsFallback, MtuForInRange
<1>2. f \in EngineState /\ f.policy = "BLOCK" /\ f.graceRunning = e.graceRunning
  BY <1>1 DEF EngineState, Statuses, Policies
<1>3. r = startTunnelActions(f, TRUE)
  BY DEF Attempt
<1> HIDE DEF f, r
<1>4. LET Q == executeAll(ph, r.actions) IN
      /\ Q \in PhoneState /\ Free(Q) # Slots /\ ph.armed \subseteq Q.armed
      /\ f.graceRunning \/ "grace" \in Q.armed
      /\ Q.tun = ph.tun
  BY <1>2, <1>3, StartActions DEF r
<1> QED
  BY <1>2, <1>4 DEF Handled, Served, Guarded, Busy, r

\* Cancelling the timers and stopping the backend leaves the tun.
LEMMA Stopped ==
    ASSUME NEW ph \in PhoneState
    PROVE  LET Q == execute(execute(ph, Plain("CancelTimers")), Plain("StopTunnel"))
           IN  Q \in PhoneState /\ Q.tun = ph.tun
<1> DEFINE C == [ph EXCEPT !.armed = {}]
<1>1. "retry" \in Timers
  BY DEF Timers
<1>2. C \in PhoneState /\ C.tun = ph.tun
  BY <1>1, TimersAndBackend
<1>3. execute(ph, Plain("CancelTimers")) = C
  BY Executed
<1> HIDE DEF C
<1>4. execute(C, Plain("StopTunnel")) = [C EXCEPT !.backend = FALSE]
  BY Executed
<1>5. [C EXCEPT !.backend = FALSE] \in PhoneState /\ [C EXCEPT !.backend = FALSE].tun = C.tun
  BY <1>1, <1>2, TimersAndBackend
<1> QED
  BY <1>2, <1>3, <1>4, <1>5

\* onConnectRequested asks, holds or attempts.
LEMMA ConnectHandled ==
    ASSUME NEW e, Sound(e), NEW ph \in PhoneState,
           WithinBound(ph, onConnectRequested(e).actions)
    PROVE  Handled(e, ph, onConnectRequested(e))
<1> DEFINE w == [e EXCEPT !.wantsTunnel = TRUE]
           v == [w EXCEPT !.status = "CONNECTING"]
           r == onConnectRequested(e)
<1>1. /\ w \in EngineState /\ w.config = e.config /\ w.network = e.network
      /\ w.graceRunning = e.graceRunning /\ w.policy = e.policy
      /\ w.killSwitchMode = e.killSwitchMode /\ v.graceRunning = e.graceRunning
  BY DEF Sound, EngineState
<1>2. /\ e.config = Nil => r = Refresh(v)
      /\ e.config # Nil /\ e.network = Nil => r = holdWithoutNetwork(w)
      /\ e.config # Nil /\ e.network # Nil => r = Attempt(w, e.network, "CONNECTING")
  BY DEF onConnectRequested
<1> HIDE DEF w, v
<1>3. CASE e.config = Nil
  BY <1>1, <1>2, <1>3, RefreshHandled
<1>4. CASE e.config # Nil /\ e.network = Nil
  BY <1>1, <1>2, <1>4, HoldHandled
<1>5. CASE e.config # Nil /\ e.network # Nil
  <2>1. e.network \in Networks
    BY <1>5 DEF Sound, EngineState
  <2>2. Handled(w, ph, r)
    BY <1>1, <1>2, <1>5, <2>1, AttemptHandled
  <2> HIDE DEF r
  <2> QED
    BY <1>1, <2>2 DEF Handled, Served, Guarded, r
<1> QED
  BY <1>3, <1>4, <1>5

\* onDisconnectRequested takes everything down: no tunnel is wanted, no window runs.
LEMMA DisconnectServed ==
    ASSUME NEW e, Sound(e), NEW ph \in PhoneState
    PROVE  Served(e, ph, onDisconnectRequested(e))
<1> DEFINE r == onDisconnectRequested(e)
           cancel == Plain("CancelTimers")
           stop   == Plain("StopTunnel")
           open   == SetTrafficPolicy("DIRECT")
           S == execute(execute(ph, cancel), stop)
<1>1. r.actions = <<cancel, stop, open>>
  BY DEF onDisconnectRequested, Returns
<1>2. ~r.engine.wantsTunnel /\ ~r.engine.graceRunning
  BY DEF onDisconnectRequested, Returns, Sound, EngineState
<1>3. S \in PhoneState
  BY Stopped
<1>4. execute(S, open) = applyTrafficPolicy(S, "DIRECT")
  BY Executed
<1>5. applyTrafficPolicy(S, "DIRECT") \in PhoneState
  <2>1. "DIRECT" \in Policies
    BY DEF Policies
  <2> HIDE DEF S
  <2> QED
    BY <1>3, <2>1, PolicyApplied
<1> HIDE DEF r, cancel, stop, open
<1>6. executeAll(ph, <<cancel, stop, open>>) = execute(S, open)
  BY ThreeActions
<1> HIDE DEF S
<1> QED
  BY <1>1, <1>2, <1>4, <1>5, <1>6 DEF Served, Unserved, r

\* onNetworkAvailable asks or attempts, unless there is nothing to do.
LEMMA AvailableHandled ==
    ASSUME NEW e, Sound(e), NEW n \in Networks, NEW ph \in PhoneState,
           WithinBound(ph, onNetworkAvailable(e, n).actions)
    PROVE  Handled(e, ph, onNetworkAvailable(e, n))
<1> DEFINE on == [e EXCEPT !.network = n]
           fresh == [on EXCEPT !.failures = 0]
           status == IF e.status = "NO_NETWORK" THEN "CONNECTING" ELSE "RECONNECTING"
           handoff == e.network # Nil /\ e.network # n
           r == onNetworkAvailable(e, n)
<1>1. /\ on.config = e.config /\ on.graceRunning = e.graceRunning /\ on.status = e.status
      /\ on.wantsTunnel = e.wantsTunnel
  BY DEF Sound, EngineState
<1>2. /\ fresh \in EngineState /\ fresh.config = e.config
      /\ fresh.graceRunning = e.graceRunning /\ fresh.policy = e.policy
      /\ fresh.killSwitchMode = e.killSwitchMode
  <2> DEFINE zero == 0
  <2>1. zero \in 0 .. FAILURES_BEFORE_FALLBACK - 1
    BY DEF FAILURES_BEFORE_FALLBACK
  <2>2. fresh = [e EXCEPT !.network = n, !.failures = zero]
    OBVIOUS
  <2> HIDE DEF zero, fresh
  <2> QED
    BY <2>1, <2>2 DEF Sound, EngineState
<1>3. CASE ~e.wantsTunnel
  <2>1. r = Returns(on, << >>)
    BY <1>3 DEF onNetworkAvailable
  <2> QED
    BY <1>1, <1>3, <2>1, NothingToDo DEF Returns, Unserved
<1>4. CASE e.wantsTunnel /\ e.config = Nil
  <2>1. r = Refresh(on)
    BY <1>4 DEF onNetworkAvailable
  <2> HIDE DEF on
  <2> QED
    BY <1>1, <2>1, RefreshHandled
<1>5. CASE e.wantsTunnel /\ e.config # Nil /\ ~handoff /\ e.status = "CONNECTED"
  <2>1. r = Returns(on, << >>)
    BY <1>5 DEF onNetworkAvailable
  <2> QED
    BY <1>1, <1>5, <2>1, NothingToDo DEF Returns, Unserved
<1>6. CASE e.wantsTunnel /\ e.config # Nil /\ (handoff \/ e.status # "CONNECTED")
  <2>1. r = Attempt(fresh, n, status)
    BY <1>6 DEF onNetworkAvailable
  <2>2. status \in {"CONNECTING", "RECONNECTING"}
    OBVIOUS
  <2> HIDE DEF fresh, status
  <2>3. Handled(fresh, ph, r)
    BY <1>2, <1>6, <2>1, <2>2, AttemptHandled
  <2> HIDE DEF r
  <2> QED
    BY <1>2, <2>3 DEF Handled, Served, Guarded, r
<1> QED
  BY <1>3, <1>4, <1>5, <1>6

\* onNetworkLost cancels the timers and closes the window with them; the tun stays.
LEMMA LostHandled ==
    ASSUME NEW e, Sound(e), NEW ph \in PhoneState
    PROVE  /\ Handled(e, ph, onNetworkLost(e))
           /\ executeAll(ph, onNetworkLost(e).actions).tun = ph.tun
<1> DEFINE r == onNetworkLost(e)
           cancel == Plain("CancelTimers")
           stop   == Plain("StopTunnel")
           S == execute(execute(ph, cancel), stop)
<1>1. r.actions = <<cancel, stop>>
  BY DEF onNetworkLost, Returns
<1>2. r.engine.network = Nil /\ ~r.engine.graceRunning
  BY DEF onNetworkLost, Returns, Sound, EngineState
<1>3. S \in PhoneState /\ S.tun = ph.tun
  BY Stopped
<1> HIDE DEF r, cancel, stop
<1>4. executeAll(ph, <<cancel, stop>>) = S
  BY TwoActions
<1> HIDE DEF S
<1> QED
  BY <1>1, <1>2, <1>3, <1>4 DEF Handled, Served, Guarded, Unserved, r

\* onEstablished cancels the timers as the tunnel is up; the tun stays.
LEMMA EstablishedHandled ==
    ASSUME NEW e, Sound(e), NEW ph \in PhoneState
    PROVE  Handled(e, ph, onEstablished(e))
<1> DEFINE r == onEstablished(e)
           cancel == Plain("CancelTimers")
           apply  == SetTrafficPolicy("TUNNEL")
           check  == Plain("ScheduleStabilityCheck")
           C == [ph EXCEPT !.armed = {}]
           P == applyTrafficPolicy(C, "TUNNEL")
           A == [P EXCEPT !.armed = @ \cup {"stability"}]
<1>1. PICK k \in 0 .. FAILURES_BEFORE_FALLBACK - 1, t \in [Networks -> TransportNames \cup {Nil}] :
         LadderWorked(e) = [e EXCEPT !.failures = k, !.transportOn = t]
  BY LadderWorkedState DEF Sound
<1>2. r.actions = <<cancel, apply, check>>
  BY DEF onEstablished, Returns
<1>3. r.engine.status = "CONNECTED" /\ ~r.engine.graceRunning
  BY <1>1 DEF onEstablished, Returns, Sound, EngineState
<1>4. "stability" \in Timers /\ "TUNNEL" \in Policies /\ "TUNNEL" # "DIRECT"
  BY DEF Timers, Policies
<1>5. C \in PhoneState /\ C.tun = ph.tun
  BY <1>4, TimersAndBackend
<1>6. execute(ph, cancel) = C
  BY Executed
<1> HIDE DEF C, r
<1>7. P \in PhoneState /\ P.tun = C.tun
  BY <1>4, <1>5, PolicyApplied
<1>8. execute(C, apply) = P
  BY Executed
<1> HIDE DEF P
<1>9. A \in PhoneState /\ A.tun = P.tun
  BY <1>4, <1>7, TimersAndBackend
<1>10. execute(P, check) = A
  BY Executed
<1> HIDE DEF A, cancel, apply, check
<1>11. executeAll(ph, <<cancel, apply, check>>) = A
  <2>1. executeAll(ph, <<cancel, apply, check>>)
           = execute(execute(execute(ph, cancel), apply), check)
    BY ThreeActions
  <2> QED
    BY <1>6, <1>8, <1>10, <2>1
<1> QED
  BY <1>2, <1>3, <1>5, <1>7, <1>9, <1>11 DEF Handled, Served, Guarded, Unserved, r

\* onFailed, terminal: no tunnel is wanted; the tun is closed in soft mode only.
LEMMA TerminalHandled ==
    ASSUME NEW e, Sound(e), NEW ph \in PhoneState
    PROVE  Handled(e, ph, onTerminal(e))
<1> DEFINE r == onTerminal(e)
           p == IF e.killSwitchMode = "STRICT" THEN "BLOCK" ELSE "DIRECT"
           cancel == Plain("CancelTimers")
           stop   == Plain("StopTunnel")
           apply  == SetTrafficPolicy(p)
           ask    == Plain("RefreshConfig")
           S == execute(execute(ph, cancel), stop)
           P == applyTrafficPolicy(S, p)
           R == refreshConfig(P)
<1>1. r.actions = <<cancel, stop, apply, ask>>
  BY DEF onTerminal, Returns
<1>2. ~r.engine.wantsTunnel /\ ~r.engine.graceRunning /\ r.engine.status = "FAILED"
  BY DEF onTerminal, Returns, Sound, EngineState
<1>3. p \in Policies /\ (p = "DIRECT" => e.killSwitchMode = "SOFT")
  BY DEF Sound, EngineState, KillSwitchMode, Policies
<1>4. S \in PhoneState /\ S.tun = ph.tun
  BY Stopped
<1> HIDE DEF r, p, S
<1>5. P \in PhoneState /\ (p # "DIRECT" => P.tun = S.tun)
  BY <1>3, <1>4, PolicyApplied
<1>6. execute(S, apply) = P
  BY Executed
<1> HIDE DEF P
<1>7. R \in PhoneState /\ R.tun = P.tun
  BY <1>5, RefreshAsks
<1>8. execute(P, ask) = R
  BY Executed
<1> HIDE DEF R, cancel, stop, apply, ask
<1>9. executeAll(ph, <<cancel, stop, apply, ask>>) = R
  <2>1. executeAll(ph, <<cancel, stop, apply, ask>>)
           = execute(execute(execute(execute(ph, cancel), stop), apply), ask)
    BY FourActions
  <2> QED
    BY <1>6, <1>8, <2>1 DEF S
<1> QED
  BY <1>1, <1>2, <1>3, <1>4, <1>5, <1>7, <1>9 DEF Handled, Served, Guarded, Unserved, r

\* A failed attempt arms the retry, and the grace clock as it opens the window.
LEMMA FailedActions ==
    ASSUME NEW ph \in PhoneState, NEW hold \in BOOLEAN, NEW rejected \in BOOLEAN,
           NEW acts,
           acts = (IF hold THEN <<SetTrafficPolicy("BLOCK"), Plain("ScheduleGraceExpiry")>>
                   ELSE << >>)
                  \o <<Plain("ScheduleRetry")>>
                  \o (IF rejected THEN <<Plain("RefreshConfig")>> ELSE << >>)
    PROVE  LET Q == executeAll(ph, acts) IN
           /\ Q \in PhoneState /\ Q.tun = ph.tun
           /\ "retry" \in Q.armed /\ ph.armed \subseteq Q.armed
           /\ hold => "grace" \in Q.armed
<1> DEFINE apply == SetTrafficPolicy("BLOCK")
           clock == Plain("ScheduleGraceExpiry")
           again == Plain("ScheduleRetry")
           ask   == Plain("RefreshConfig")
           P == applyTrafficPolicy(ph, "BLOCK")
           G == [P EXCEPT !.armed = @ \cup {"grace"}]
           H == IF hold THEN G ELSE ph
           R == [H EXCEPT !.armed = @ \cup {"retry"}]
           F == IF rejected THEN refreshConfig(R) ELSE R
<1>1. "grace" \in Timers /\ "retry" \in Timers /\ "BLOCK" \in Policies /\ "BLOCK" # "DIRECT"
  BY DEF Timers, Policies
<1>2. P \in PhoneState /\ P.armed = ph.armed /\ P.tun = ph.tun
  BY <1>1, PolicyApplied
<1>3. execute(ph, apply) = P
  BY Executed
<1> HIDE DEF P
<1>4. G \in PhoneState /\ G.armed = P.armed \cup {"grace"} /\ G.tun = P.tun
  BY <1>1, <1>2, TimersAndBackend
<1>5. execute(P, clock) = G
  BY Executed
<1> HIDE DEF G
<1>6. /\ H \in PhoneState /\ ph.armed \subseteq H.armed /\ H.tun = ph.tun
      /\ hold => "grace" \in H.armed
  BY <1>2, <1>4
<1> HIDE DEF H
<1>7. R \in PhoneState /\ R.armed = H.armed \cup {"retry"} /\ R.tun = H.tun
  BY <1>1, <1>6, TimersAndBackend
<1>8. execute(H, again) = R
  BY Executed
<1> HIDE DEF R
<1>9. F \in PhoneState /\ F.armed = R.armed /\ F.tun = R.tun
  BY <1>7, RefreshAsks
<1>10. execute(R, ask) = refreshConfig(R)
  BY Executed
<1>11. executeAll(ph, acts) = F
  <2>1. acts = (IF hold THEN <<apply, clock>> ELSE << >>) \o <<again>>
               \o (IF rejected THEN <<ask>> ELSE << >>)
    OBVIOUS
  <2> HIDE DEF apply, clock, again, ask
  <2>2. << >> \o <<again>> = <<again>> /\ <<again>> \o << >> = <<again>>
    OBVIOUS
  <2>3. <<apply, clock, again>> \o << >> = <<apply, clock, again>>
    OBVIOUS
  <2>4. CASE hold /\ rejected
    <3>1. acts = <<apply, clock>> \o <<again>> \o <<ask>>
      BY <2>1, <2>4
    <3>2. <<apply, clock>> \o <<again>> = <<apply, clock, again>>
      BY Joined
    <3>3. <<apply, clock, again>> \o <<ask>> = <<apply, clock, again, ask>>
      BY Joined
    <3>4. acts = <<apply, clock, again, ask>>
      BY <3>1, <3>2, <3>3
    <3>5. executeAll(ph, <<apply, clock, again, ask>>)
             = execute(execute(execute(execute(ph, apply), clock), again), ask)
      BY FourActions
    <3> QED
      BY <1>3, <1>5, <1>8, <1>10, <2>4, <3>4, <3>5 DEF H
  <2>5. CASE hold /\ ~rejected
    <3>1. acts = <<apply, clock, again>>
      BY <2>1, <2>3, <2>5, Joined
    <3>2. executeAll(ph, <<apply, clock, again>>)
             = execute(execute(execute(ph, apply), clock), again)
      BY ThreeActions
    <3> QED
      BY <1>3, <1>5, <1>8, <2>5, <3>1, <3>2 DEF H
  <2>6. CASE ~hold /\ rejected
    <3>1. acts = <<again, ask>>
      BY <2>1, <2>2, <2>6, Joined
    <3>2. executeAll(ph, <<again, ask>>) = execute(execute(ph, again), ask)
      BY TwoActions
    <3> QED
      BY <1>8, <1>10, <2>6, <3>1, <3>2 DEF H
  <2>7. CASE ~hold /\ ~rejected
    <3>1. acts = <<again>>
      BY <2>1, <2>2, <2>7
    <3>2. executeAll(ph, <<again>>) = execute(ph, again)
      BY OneAction
    <3> QED
      BY <1>8, <2>7, <3>1, <3>2 DEF H
  <2> QED
    BY <2>4, <2>5, <2>6, <2>7
<1> HIDE DEF F
<1> QED
  BY <1>6, <1>7, <1>9, <1>11

\* onFailed, otherwise: a retry is armed, or a config asked for.
LEMMA AttemptFailedHandled ==
    ASSUME NEW e, Sound(e), NEW rejected \in BOOLEAN, NEW ph \in PhoneState
    PROVE  Handled(e, ph, onAttemptFailed(e, rejected))
<1> DEFINE told == e.status = "UNPROTECTED"
           hold == ~e.graceRunning /\ ~told
           prev == FallbackOr(e, e.network)
           r == onAttemptFailed(e, rejected)
<1>1. CASE ~e.wantsTunnel
  BY <1>1, NothingToDo DEF onAttemptFailed, Returns, Unserved
<1>2. CASE e.wantsTunnel /\ e.config = Nil
  <2>1. r = Refresh(e)
    BY <1>2 DEF onAttemptFailed
  <2> HIDE DEF r
  <2> QED
    BY <2>1, RefreshHandled DEF r
<1>3. CASE e.wantsTunnel /\ e.config # Nil
  <2>1. prev \in Fallback
    BY <1>3, PreferredIsFallback DEF Sound, FallbackOr, EngineState
  <2>2. PICK k \in 0 .. FAILURES_BEFORE_FALLBACK - 1, g \in Fallback :
           LadderFailed(e, prev) = [e EXCEPT !.failures = k, !.currentFallback = g]
    BY <1>3, <2>1, LadderFailedState DEF Sound
  <2> DEFINE w == [e EXCEPT !.failures = k, !.currentFallback = g]
             f == [w EXCEPT !.status = IF told THEN @ ELSE "RECONNECTING",
                            !.policy = IF hold THEN "BLOCK" ELSE @,
                            !.graceRunning = @ \/ hold]
             acts == (IF hold THEN <<SetTrafficPolicy("BLOCK"), Plain("ScheduleGraceExpiry")>>
                      ELSE << >>)
                     \o <<Plain("ScheduleRetry")>>
                     \o (IF rejected THEN <<Plain("RefreshConfig")>> ELSE << >>)
  <2>3. r = Returns(f, acts)
    BY <1>3, <2>2 DEF onAttemptFailed
  <2>4. f.graceRunning = (e.graceRunning \/ hold) /\ hold \in BOOLEAN
    BY DEF Sound, EngineState
  <2>5. LET Q == executeAll(ph, acts) IN
        /\ Q \in PhoneState /\ Q.tun = ph.tun
        /\ "retry" \in Q.armed /\ ph.armed \subseteq Q.armed
        /\ hold => "grace" \in Q.armed
    BY <2>4, FailedActions
  <2>6. r.engine = f /\ r.actions = acts
    BY <2>3 DEF Returns
  <2> HIDE DEF r, f, acts, hold
  <2> QED
    BY <2>4, <2>5, <2>6 DEF Handled, Served, Guarded, Busy, r
<1> QED
  BY <1>1, <1>2, <1>3

\* onRetry asks, holds or starts, and neither opens nor closes the window.
LEMMA RetryHandled ==
    ASSUME NEW e, Sound(e), NEW ph \in PhoneState, WithinBound(ph, onRetry(e).actions)
    PROVE  Handled(e, ph, onRetry(e))
<1> DEFINE r == onRetry(e)
<1>1. CASE ~e.wantsTunnel
  BY <1>1, NothingToDo DEF onRetry, Returns, Unserved
<1>2. CASE e.wantsTunnel /\ e.config = Nil
  <2>1. r = Refresh(e)
    BY <1>2 DEF onRetry
  <2> HIDE DEF r
  <2> QED
    BY <2>1, RefreshHandled DEF r
<1>3. CASE e.wantsTunnel /\ e.config # Nil /\ e.network = Nil
  <2>1. r = holdWithoutNetwork(e)
    BY <1>3 DEF onRetry
  <2> HIDE DEF r
  <2> QED
    BY <1>3, <2>1, HoldHandled DEF Sound, r
<1>4. CASE e.wantsTunnel /\ e.config # Nil /\ e.network # Nil
  <2> DEFINE w == [e EXCEPT !.currentFallback = FallbackOr(e, e.network)]
  <2>1. r = startTunnelActions(w, FALSE)
    BY <1>4 DEF onRetry
  <2>2. FallbackOr(e, e.network) \in Fallback
    BY <1>4, PreferredIsFallback DEF Sound, FallbackOr, EngineState
  <2>3. w \in EngineState /\ w.graceRunning = e.graceRunning /\ w.policy = e.policy
    BY <2>2 DEF Sound, EngineState
  <2> HIDE DEF w
  <2>4. r.engine.graceRunning = e.graceRunning
    BY <2>1, <2>3 DEF startTunnelActions, Returns, EngineState
  <2> HIDE DEF r
  <2>5. LET Q == executeAll(ph, r.actions) IN
        /\ Q \in PhoneState /\ Free(Q) # Slots /\ ph.armed \subseteq Q.armed
        /\ e.policy # "DIRECT" => Q.tun = ph.tun
    BY <2>1, <2>3, StartActions DEF r
  <2> QED
    BY <2>4, <2>5 DEF Handled, Served, Guarded, Busy, r
<1> QED
  BY <1>1, <1>2, <1>3, <1>4

\* The end of the window and the stability check leave timers, starts and
\* refreshes to themselves, and no tunnel to be served that was not before.
Left(e, ph, r) ==
    LET Q == executeAll(ph, r.actions) IN
    /\ Q \in PhoneState /\ Q.armed = ph.armed /\ Q.starts = ph.starts
    /\ Q.asking = ph.asking /\ Q.waiting = ph.waiting
    /\ Unserved(r.engine) => Unserved(e)

\* onGraceExpired closes the window; in soft mode it opens the tun and says so.
LEMMA GraceExpiredLeaves ==
    ASSUME NEW e, Sound(e), NEW ph \in PhoneState
    PROVE  /\ Left(e, ph, onGraceExpired(e)) /\ Guarded(e, ph, onGraceExpired(e))
           /\ ~onGraceExpired(e).engine.graceRunning
<1> DEFINE over == [e EXCEPT !.graceRunning = FALSE]
           r == onGraceExpired(e)
<1>1. /\ over \in EngineState /\ ~over.graceRunning /\ over.status = e.status
      /\ over.wantsTunnel = e.wantsTunnel /\ over.network = e.network
  BY DEF Sound, EngineState
<1>2. CASE r.actions = << >>
  <2>1. executeAll(ph, r.actions) = ph
    BY <1>2, NoAction
  <2>2. /\ r.engine.network = over.network /\ r.engine.wantsTunnel = over.wantsTunnel
        /\ r.engine.status = over.status /\ ~r.engine.graceRunning
    <3>1. r.engine = over \/ r.engine = [over EXCEPT !.policy = "BLOCK"]
      BY <1>2 DEF onGraceExpired, Returns
    <3> HIDE DEF over, r
    <3> QED
      BY <1>1, <3>1 DEF EngineState
  <2> HIDE DEF r, over
  <2> QED
    BY <1>1, <2>1, <2>2 DEF Left, Guarded, Unserved, r
<1>3. CASE r.actions # << >>
  <2> DEFINE open == SetTrafficPolicy("DIRECT")
             f == [over EXCEPT !.status = "UNPROTECTED", !.policy = "DIRECT"]
  <2>1. /\ r.actions = <<open>> /\ r.engine = f
        /\ e.killSwitchMode = "SOFT" /\ e.wantsTunnel /\ e.status # "CONNECTED"
    BY <1>3 DEF onGraceExpired, Returns
  <2>2. "DIRECT" \in Policies
    BY DEF Policies
  <2>3. execute(ph, open) = applyTrafficPolicy(ph, "DIRECT")
    BY Executed
  <2> HIDE DEF over, r
  <2>4. f.network = over.network /\ ~f.graceRunning /\ f.status = "UNPROTECTED"
    BY <1>1 DEF EngineState
  <2> HIDE DEF open, f
  <2>5. executeAll(ph, <<open>>) = execute(ph, open)
    BY OneAction
  <2>6. LET Q == executeAll(ph, r.actions) IN
        /\ Q \in PhoneState /\ Q.armed = ph.armed /\ Q.starts = ph.starts
        /\ Q.asking = ph.asking /\ Q.waiting = ph.waiting
    BY <2>1, <2>2, <2>3, <2>5, PolicyApplied
  <2> QED
    BY <1>1, <2>1, <2>4, <2>6 DEF Left, Guarded, Unserved, r
<1> QED
  BY <1>2, <1>3

\* onStable only remembers an MTU.
LEMMA StableLeaves ==
    ASSUME NEW e, Sound(e), NEW ph \in PhoneState
    PROVE  /\ Left(e, ph, onStable(e)) /\ Guarded(e, ph, onStable(e))
           /\ onStable(e).engine.graceRunning = e.graceRunning
<1> DEFINE r == onStable(e)
<1>1. /\ r.actions = << >> /\ r.engine.network = e.network /\ r.engine.status = e.status
      /\ r.engine.wantsTunnel = e.wantsTunnel /\ r.engine.graceRunning = e.graceRunning
  BY DEF onStable, Returns, Sound, EngineState
<1>2. executeAll(ph, r.actions) = ph
  BY <1>1, NoAction
<1> HIDE DEF r
<1> QED
  BY <1>1, <1>2 DEF Left, Guarded, Unserved, r

-----------------------------------------------------------------------------
(***************************************************************************)
(* The invariant of the service                                            *)
(***************************************************************************)
ServiceTypeOK ==
    /\ running \in {"off", "on", "stopping"}
    /\ phone \in PhoneState /\ firing \subseteq Timers
    /\ cached \in Configs \cup {Nil}

ServiceInv == ServiceTypeOK /\ EngineInv /\ AlwaysUnderWay /\ GraceTimerRuns

\* The tun stays, unless the service goes down or in soft mode the user is told.
TunStays ==
    phone.tun /\ ~phone'.tun /\ engine.policy # "DIRECT" =>
        \/ running' # "on"
        \/ engine.killSwitchMode = "SOFT" /\ engine'.status \in {"UNPROTECTED", "FAILED"}

\* Somebody is under way exactly when the phone is busy.
LEMMA UnderWayMeansBusy ==
    ASSUME NEW ph \in PhoneState, NEW F
    PROVE  Busy(ph, F) <=> \/ Slots \ Free(ph) # {}
                           \/ ph.asking + ph.waiting > 0
                           \/ "retry" \in ph.armed \cup F
BY DEF Busy, Free

\* A dispatch that serves the tunnel keeps the invariant, whatever state the
\* engine and the phone are left in before it.
LEMMA ServedKeeps ==
    ASSUME NEW e, NEW ph \in PhoneState, NEW r, Sound(r.engine), dispatch(ph, r),
           Served(e, ph, r), e.graceRunning => "grace" \in ph.armed \cup firing',
           running' \in {"off", "on", "stopping"}, firing' \subseteq Timers,
           cached' \in Configs \cup {Nil}
    PROVE  ServiceInv'
<1>1. phone' = executeAll(ph, r.actions) /\ engine' = r.engine
  BY DEF dispatch
<1>2. phone' \in PhoneState
  BY <1>1 DEF Served
<1>3. EngineInv'
  BY <1>1, InvIsSoundness
<1>4. GraceTimerRuns'
  BY <1>1 DEF Served, GraceTimerRuns
<1>5. AlwaysUnderWay'
  <2>1. Unserved(engine') => Busy(phone', {})
    BY <1>1 DEF Served
  <2>2. Busy(phone', {}) => Busy(phone', firing')
    BY DEF Busy
  <2> QED
    BY <1>2, <2>1, <2>2, UnderWayMeansBusy DEF Unserved, AlwaysUnderWay, Wanted, Starting
<1> QED
  BY <1>2, <1>3, <1>4, <1>5 DEF ServiceInv, ServiceTypeOK

\* So does one that leaves timers, starts and refreshes alone.
LEMMA LeftKeeps ==
    ASSUME ServiceInv, NEW r, Sound(r.engine), dispatch(phone, r), Left(engine, phone, r),
           r.engine.graceRunning => "grace" \in phone.armed \cup firing',
           "retry" \in firing => "retry" \in firing',
           UNCHANGED <<running, cached>>, firing' \subseteq Timers
    PROVE  ServiceInv'
<1>1. phone' = executeAll(phone, r.actions) /\ engine' = r.engine
  BY DEF dispatch
<1>2. /\ phone' \in PhoneState /\ phone'.armed = phone.armed /\ phone'.starts = phone.starts
      /\ phone'.asking = phone.asking /\ phone'.waiting = phone.waiting
      /\ Unserved(engine') => Unserved(engine)
  BY <1>1 DEF Left
<1>3. EngineInv'
  BY <1>1, InvIsSoundness
<1>4. GraceTimerRuns'
  BY <1>1, <1>2 DEF GraceTimerRuns
<1>5. Starting' = Starting
  BY <1>2 DEF Starting, Free
<1>6. AlwaysUnderWay'
  BY <1>2, <1>5 DEF Unserved, ServiceInv, AlwaysUnderWay, Wanted
<1> QED
  BY <1>2, <1>3, <1>4, <1>6 DEF ServiceInv, ServiceTypeOK

\* A step that leaves the engine alone need only keep somebody busy.
LEMMA QuietKeeps ==
    ASSUME ServiceInv, phone' \in PhoneState, firing' \subseteq Timers,
           UNCHANGED <<engine, running, cached>>,
           Busy(phone, firing) => Busy(phone', firing'),
           "grace" \in phone.armed \cup firing => "grace" \in phone'.armed \cup firing',
           phone.tun => phone'.tun
    PROVE  ServiceInv' /\ TunStays
<1>1. AlwaysUnderWay'
  BY UnderWayMeansBusy DEF ServiceInv, ServiceTypeOK, AlwaysUnderWay, Wanted, Starting
<1>2. GraceTimerRuns'
  BY DEF ServiceInv, GraceTimerRuns
<1>3. EngineInv'
  BY InvIsSoundness DEF ServiceInv
<1> QED
  BY <1>1, <1>2, <1>3 DEF ServiceInv, ServiceTypeOK, TunStays

-----------------------------------------------------------------------------
(***************************************************************************)
(* The steps                                                               *)
(***************************************************************************)
\* No service, a quiet phone, and a config in the cache or none.
LEMMA InitServiceInv == ServiceInit => ServiceInv
<1> SUFFICES ASSUME ServiceInit PROVE ServiceInv
  OBVIOUS
<1> DEFINE e == NewEngine("SOFT", Nil)
<1>1. Sound(e)
  BY InitIsSound DEF KillSwitchMode
<1>2. ~e.wantsTunnel /\ ~e.graceRunning
  BY DEF NewEngine
<1>3. Quiet \in PhoneState
  BY DEF Quiet, PhoneState, NoStart, StartState
<1>4. EngineInv /\ ~engine.wantsTunnel /\ ~engine.graceRunning
  BY <1>1, <1>2, InvIsSoundness DEF ServiceInit
<1> QED
  BY <1>3, <1>4 DEF ServiceInit, ServiceInv, ServiceTypeOK, AlwaysUnderWay, Wanted, GraceTimerRuns

\* The end of the service or of the process, and what is left of it.
LEMMA EndKeeps ==
    ASSUME ServiceInv, End
    PROVE  ServiceInv' /\ TunStays
<1> DEFINE e == NewEngine("SOFT", Nil)
<1>1. Sound(e)
  BY InitIsSound DEF KillSwitchMode
<1>2. ~e.wantsTunnel /\ ~e.graceRunning
  BY DEF NewEngine
<1>3. Quiet \in PhoneState
  BY DEF Quiet, PhoneState, NoStart, StartState
<1>4. EngineInv' /\ ~engine'.wantsTunnel /\ ~engine'.graceRunning
  BY <1>1, <1>2, InvIsSoundness DEF End
<1> QED
  BY <1>3, <1>4
     DEF End, ServiceInv, ServiceTypeOK, AlwaysUnderWay, Wanted, GraceTimerRuns, TunStays

\* A handler's guard on the tun is the property, if it ran from the engine and
\* the tun there are.
LEMMA GuardedKeepsTun ==
    ASSUME NEW ph, NEW r, dispatch(ph, r), Guarded(engine, ph, r), ph.tun = phone.tun
    PROVE  TunStays
BY DEF dispatch, Guarded, TunStays

\* onCreate: a new engine wants no tunnel, so what is on the phone stays.
LEMMA CreateKeeps ==
    ASSUME ServiceInv, NEW mode \in KillSwitchMode, NEW n \in Networks \cup {Nil}, Create(mode, n)
    PROVE  ServiceInv' /\ TunStays
<1> DEFINE e == NewEngine(mode, cached)
           r == IF n = Nil THEN onNetworkLost(e) ELSE onNetworkAvailable(e, n)
<1>1. dispatch(phone, r) /\ running' = "on" /\ UNCHANGED <<firing, cached>>
  BY DEF Create
<1>2. Sound(e) /\ phone \in PhoneState
  BY InitIsSound DEF ServiceInv, ServiceTypeOK
<1>3. ~e.graceRunning /\ ~e.wantsTunnel
  BY DEF NewEngine
<1> HIDE DEF e
<1>4. CASE n = Nil
  <2>1. r = onNetworkLost(e)
    BY <1>4
  <2>2. Sound(r.engine)
    BY <1>2, <2>1, NetworkLostIsSafe DEF Safe
  <2>3. Served(e, phone, r) /\ executeAll(phone, r.actions).tun = phone.tun
    BY <1>2, <2>1, LostHandled DEF Handled
  <2> HIDE DEF r
  <2>4. ServiceInv'
    BY <1>1, <1>2, <1>3, <2>2, <2>3, ServedKeeps DEF ServiceInv, ServiceTypeOK
  <2>5. TunStays
    BY <1>1, <2>3 DEF dispatch, TunStays
  <2> QED
    BY <2>4, <2>5
<1>5. CASE n # Nil
  <2>1. r = onNetworkAvailable(e, n) /\ n \in Networks
    BY <1>5
  <2>2. Sound(r.engine)
    BY <1>2, <2>1, NetworkAvailableIsSafe DEF Safe
  <2>3. Served(e, phone, r)
    BY <1>1, <1>2, <2>1, AvailableHandled DEF Handled, dispatch
  <2>4. executeAll(phone, r.actions) = phone
    BY <1>3, <2>1, NoAction DEF onNetworkAvailable, Returns
  <2> HIDE DEF r
  <2>5. ServiceInv'
    BY <1>1, <1>2, <1>3, <2>2, <2>3, ServedKeeps DEF ServiceInv, ServiceTypeOK
  <2>6. TunStays
    BY <1>1, <2>4 DEF dispatch, TunStays
  <2> QED
    BY <2>5, <2>6
<1> QED
  BY <1>4, <1>5

\* The callbacks of the user and the system.
LEMMA CallbackKeeps ==
    ASSUME ServiceInv,
           \/ Connect \/ Disconnect \/ NetworkLost
           \/ \E n \in Networks : NetworkAvailable(n)
    PROVE  ServiceInv' /\ TunStays
<1>1. Sound(engine) /\ phone \in PhoneState /\ (engine.graceRunning => "grace" \in phone.armed \cup firing)
  BY InvIsSoundness DEF ServiceInv, ServiceTypeOK, GraceTimerRuns
<1>2. ASSUME NEW r, Safe(engine, r), dispatch(phone, r), Handled(engine, phone, r),
             UNCHANGED <<running, firing, cached>>
      PROVE  ServiceInv' /\ TunStays
  <2>1. Sound(r.engine) /\ Served(engine, phone, r) /\ Guarded(engine, phone, r)
    BY <1>2 DEF Safe, Handled
  <2>2. ServiceInv'
    BY <1>1, <1>2, <2>1, ServedKeeps DEF ServiceInv, ServiceTypeOK
  <2>3. TunStays
    BY <1>2, <2>1, GuardedKeepsTun
  <2> QED
    BY <2>2, <2>3
<1>3. CASE Connect
  <2> DEFINE r == onConnectRequested(engine)
  <2>1. dispatch(phone, r) /\ UNCHANGED <<running, firing, cached>>
    BY <1>3 DEF Connect
  <2>2. Safe(engine, r) /\ Handled(engine, phone, r)
    BY <1>1, <2>1, ConnectIsSafe, ConnectHandled DEF dispatch
  <2> HIDE DEF r
  <2> QED
    BY <1>2, <2>1, <2>2
<1>4. CASE Disconnect
  <2> DEFINE r == onDisconnectRequested(engine)
  <2>1. dispatch(phone, r) /\ running' = "stopping" /\ UNCHANGED <<firing, cached>>
    BY <1>4 DEF Disconnect
  <2>2. Safe(engine, r) /\ Served(engine, phone, r)
    BY <1>1, DisconnectIsSafe, DisconnectServed
  <2> HIDE DEF r
  <2>3. ServiceInv'
    BY <1>1, <2>1, <2>2, ServedKeeps DEF Safe, ServiceInv, ServiceTypeOK
  <2>4. TunStays
    BY <2>1 DEF TunStays
  <2> QED
    BY <2>3, <2>4
<1>5. CASE NetworkLost
  <2> DEFINE r == onNetworkLost(engine)
  <2>1. dispatch(phone, r) /\ UNCHANGED <<running, firing, cached>>
    BY <1>5 DEF NetworkLost
  <2>2. Safe(engine, r) /\ Handled(engine, phone, r)
    BY <1>1, NetworkLostIsSafe, LostHandled
  <2> HIDE DEF r
  <2> QED
    BY <1>2, <2>1, <2>2
<1>6. ASSUME NEW n \in Networks, NetworkAvailable(n) PROVE ServiceInv' /\ TunStays
  <2> DEFINE r == onNetworkAvailable(engine, n)
  <2>1. dispatch(phone, r) /\ UNCHANGED <<running, firing, cached>>
    BY <1>6 DEF NetworkAvailable
  <2>2. Safe(engine, r) /\ Handled(engine, phone, r)
    BY <1>1, <2>1, NetworkAvailableIsSafe, AvailableHandled DEF dispatch
  <2> HIDE DEF r
  <2> QED
    BY <1>2, <2>1, <2>2
<1> QED
  BY <1>3, <1>4, <1>5, <1>6

\* A delay that ends moves its timer, and a timer that fires is used up.
LEMMA TimerKeeps ==
    ASSUME ServiceInv, NEW t \in Timers, DelayOver(t) \/ TimerFired(t)
    PROVE  ServiceInv' /\ TunStays
<1>1. /\ Sound(engine) /\ phone \in PhoneState /\ firing \subseteq Timers
      /\ engine.graceRunning => "grace" \in phone.armed \cup firing
  BY InvIsSoundness DEF ServiceInv, ServiceTypeOK, GraceTimerRuns
<1>2. CASE DelayOver(t)
  <2>1. /\ phone' \in PhoneState /\ phone'.armed = phone.armed \ {t} /\ firing' = firing \cup {t}
        /\ phone'.starts = phone.starts /\ phone'.tun = phone.tun
        /\ phone'.asking = phone.asking /\ phone'.waiting = phone.waiting
    BY <1>1, <1>2 DEF DelayOver, PhoneState
  <2>2. Busy(phone, firing) => Busy(phone', firing')
    BY <2>1 DEF Busy, Free
  <2> QED
    BY <1>1, <1>2, <2>1, <2>2, QuietKeeps DEF DelayOver
<1>3. CASE TimerFired(t)
  <2>1. firing' = firing \ {t} /\ UNCHANGED <<running, cached>>
    BY <1>3 DEF TimerFired
  <2>2. CASE t = "retry"
    <3> DEFINE r == onRetry(engine)
    <3>1. dispatch(phone, r)
      BY <1>3, <2>2 DEF TimerFired
    <3>2. Sound(r.engine) /\ Served(engine, phone, r) /\ Guarded(engine, phone, r)
      BY <1>1, <3>1, RetryIsSafe, RetryHandled DEF Safe, Handled, dispatch
    <3> HIDE DEF r
    <3>3. ServiceInv'
      BY <1>1, <2>1, <2>2, <3>1, <3>2, ServedKeeps DEF ServiceInv, ServiceTypeOK
    <3> QED
      BY <3>1, <3>2, <3>3, GuardedKeepsTun
  <2>3. CASE t = "grace"
    <3> DEFINE r == onGraceExpired(engine)
    <3>1. dispatch(phone, r)
      BY <1>3, <2>3 DEF TimerFired
    <3>2. /\ Sound(r.engine) /\ Left(engine, phone, r) /\ Guarded(engine, phone, r)
          /\ ~r.engine.graceRunning
      BY <1>1, GraceExpiredIsSafe, GraceExpiredLeaves DEF Safe
    <3> HIDE DEF r
    <3>3. ServiceInv'
      BY <1>1, <2>1, <2>3, <3>1, <3>2, LeftKeeps
    <3> QED
      BY <3>1, <3>2, <3>3, GuardedKeepsTun
  <2>4. CASE t = "stability"
    <3> DEFINE r == onStable(engine)
    <3>1. dispatch(phone, r)
      BY <1>3, <2>4 DEF TimerFired
    <3>2. /\ Sound(r.engine) /\ Left(engine, phone, r) /\ Guarded(engine, phone, r)
          /\ r.engine.graceRunning = engine.graceRunning
      BY <1>1, StableIsSafe, StableLeaves DEF Safe
    <3> HIDE DEF r
    <3>3. ServiceInv'
      BY <1>1, <2>1, <2>4, <3>1, <3>2, LeftKeeps
    <3> QED
      BY <3>1, <3>2, <3>3, GuardedKeepsTun
  <2> QED
    BY <2>2, <2>3, <2>4 DEF Timers
<1> QED
  BY <1>2, <1>3

\* A start moves on, to a place that is not the end.
LEMMA StartMoves ==
    ASSUME ServiceInv, NEW s \in Slots, NEW x \in StartState, x # NoStart,
           NEW tun \in BOOLEAN, NEW backend \in BOOLEAN, phone.tun => tun,
           phone' = [phone EXCEPT !.tun = tun, !.backend = backend, !.starts[s] = x],
           UNCHANGED <<engine, running, firing, cached>>
    PROVE  ServiceInv' /\ TunStays
<1>1. phone \in PhoneState /\ firing \subseteq Timers
  BY DEF ServiceInv, ServiceTypeOK
<1>2. /\ phone' \in PhoneState /\ phone'.starts[s] = x /\ phone'.tun = tun
      /\ phone'.armed = phone.armed
  BY <1>1 DEF PhoneState
<1>3. s \notin Free(phone')
  BY <1>2 DEF Free
<1>4. Busy(phone', firing')
  BY <1>3 DEF Busy
<1> QED
  BY <1>1, <1>2, <1>4, QuietKeeps

\* The coroutine of startTunnel, up to its dispatch.
LEMMA StartKeeps ==
    ASSUME ServiceInv, NEW s \in Slots, HaveTun(s) \/ BackendUp(s) \/ BackendRefuses(s)
    PROVE  ServiceInv' /\ TunStays
<1> DEFINE Moved(pc) == [phone.starts[s] EXCEPT !.pc = pc]
<1>1. phone \in PhoneState /\ phone.starts[s] \in StartState
  BY DEF ServiceInv, ServiceTypeOK, PhoneState
<1>2. ASSUME NEW pc \in {"ready", "ok", "failed", "rejected"}
      PROVE  Moved(pc) \in StartState /\ Moved(pc) # NoStart
  <2>1. Moved(pc) \in StartState /\ Moved(pc).pc = pc
    BY <1>1 DEF StartState
  <2> HIDE DEF Moved
  <2> QED
    BY <2>1 DEF NoStart
<1>3. ASSUME NEW pc \in {"ready", "ok", "failed", "rejected"}
      PROVE  /\ [phone EXCEPT !.starts[s].pc = pc]
                   = [phone EXCEPT !.tun = phone.tun, !.backend = phone.backend,
                                   !.starts[s] = Moved(pc)]
             /\ [phone EXCEPT !.tun = TRUE, !.starts[s].pc = pc]
                   = [phone EXCEPT !.tun = TRUE, !.backend = phone.backend,
                                   !.starts[s] = Moved(pc)]
             /\ [phone EXCEPT !.backend = TRUE, !.starts[s].pc = pc]
                   = [phone EXCEPT !.tun = phone.tun, !.backend = TRUE,
                                   !.starts[s] = Moved(pc)]
  BY <1>1 DEF PhoneState
<1>4. phone.tun \in BOOLEAN /\ phone.backend \in BOOLEAN
  BY <1>1 DEF PhoneState
<1>5. UNCHANGED <<engine, running, firing, cached>>
  BY DEF HaveTun, BackendUp, BackendRefuses
<1>6. \E pc \in {"ready", "ok", "failed", "rejected"}, tun \in BOOLEAN, backend \in BOOLEAN :
         /\ phone.tun => tun
         /\ phone' = [phone EXCEPT !.tun = tun, !.backend = backend, !.starts[s] = Moved(pc)]
  <2> HIDE DEF Moved
  <2>1. CASE HaveTun(s)
    <3>1. \/ phone' = [phone EXCEPT !.tun = TRUE, !.starts[s].pc = "ready"]
          \/ phone' = [phone EXCEPT !.starts[s].pc = "failed"]
      BY <2>1 DEF HaveTun
    <3> QED
      BY <1>3, <1>4, <3>1
  <2>2. CASE BackendUp(s)
    <3>1. phone' = [phone EXCEPT !.backend = TRUE, !.starts[s].pc = "ok"]
      BY <2>2 DEF BackendUp
    <3> QED
      BY <1>3, <1>4, <3>1
  <2>3. CASE BackendRefuses(s)
    <3>1. \/ phone' = [phone EXCEPT !.starts[s].pc = "failed"]
          \/ phone' = [phone EXCEPT !.starts[s].pc = "rejected"]
      BY <2>3 DEF BackendRefuses
    <3> QED
      BY <1>3, <1>4, <3>1
  <2> QED
    BY <2>1, <2>2, <2>3
<1> HIDE DEF Moved
<1> QED
  BY <1>2, <1>5, <1>6, StartMoves

\* A coroutine that ends gives its slot back and dispatches what came of it.
LEMMA StartEndsKeeps ==
    ASSUME ServiceInv, NEW s \in Slots, StartEnds(s)
    PROVE  ServiceInv' /\ TunStays
<1> DEFINE ph == [phone EXCEPT !.starts[s] = NoStart]
<1>1. /\ Sound(engine) /\ phone \in PhoneState /\ firing \subseteq Timers
      /\ engine.graceRunning => "grace" \in phone.armed \cup firing
  BY InvIsSoundness DEF ServiceInv, ServiceTypeOK, GraceTimerRuns
<1>2. NoStart \in StartState
  BY DEF NoStart, StartState
<1>3. ph \in PhoneState /\ ph.armed = phone.armed /\ ph.tun = phone.tun
  BY <1>1, <1>2 DEF PhoneState
<1>4. UNCHANGED <<running, firing, cached>>
  BY DEF StartEnds
<1>5. \E r : dispatch(ph, r) /\ Safe(engine, r) /\ Handled(engine, ph, r)
  <2>1. CASE At(s, "ok")
    <3>1. dispatch(ph, onEstablished(engine))
      BY <2>1 DEF StartEnds, At
    <3> HIDE DEF ph
    <3> QED
      BY <1>1, <1>3, <3>1, EstablishedIsSafe, EstablishedHandled
  <2>2. CASE At(s, "failed")
    <3>1. dispatch(ph, onAttemptFailed(engine, FALSE))
      BY <2>2 DEF StartEnds, At
    <3> HIDE DEF ph
    <3> QED
      BY <1>1, <1>3, <3>1, AttemptFailedIsSafe, AttemptFailedHandled
  <2>3. CASE At(s, "rejected")
    <3>1. dispatch(ph, onAttemptFailed(engine, TRUE))
      BY <2>3 DEF StartEnds, At
    <3> HIDE DEF ph
    <3> QED
      BY <1>1, <1>3, <3>1, AttemptFailedIsSafe, AttemptFailedHandled
  <2> QED
    BY <2>1, <2>2, <2>3 DEF StartEnds, At
<1> HIDE DEF ph
<1>6. PICK r : dispatch(ph, r) /\ Safe(engine, r) /\ Handled(engine, ph, r)
  BY <1>5
<1>7. Sound(r.engine) /\ Served(engine, ph, r) /\ Guarded(engine, ph, r)
  BY <1>6 DEF Safe, Handled
<1>8. ServiceInv'
  BY <1>1, <1>3, <1>4, <1>6, <1>7, ServedKeeps DEF ServiceInv, ServiceTypeOK
<1> QED
  BY <1>3, <1>6, <1>7, <1>8, GuardedKeepsTun

\* The answers to a refresh, and what they call for.
LEMMA RefreshKeeps ==
    ASSUME ServiceInv,
           \/ \E c \in Configs : ProvisionSuccess(c)
           \/ ProvisionUnavailable \/ ProvisionRefused \/ RefreshRetries
    PROVE  ServiceInv' /\ TunStays
<1>1. /\ Sound(engine) /\ phone \in PhoneState /\ firing \subseteq Timers
      /\ engine.graceRunning => "grace" \in phone.armed \cup firing
  BY InvIsSoundness DEF ServiceInv, ServiceTypeOK, GraceTimerRuns
<1>2. phone.asking \in Nat /\ phone.waiting \in Nat
  BY <1>1 DEF PhoneState
<1>3. ASSUME phone.asking > 0
      PROVE  LET P == [Answered EXCEPT !.waiting = @ + 1] IN
             /\ P \in PhoneState /\ P.armed = phone.armed /\ P.starts = phone.starts
             /\ P.tun = phone.tun /\ P.asking + P.waiting > 0
  <2> DEFINE x == phone.asking - 1
             y == phone.waiting + 1
             P == [Answered EXCEPT !.waiting = @ + 1]
  <2>1. x \in Nat /\ y \in Nat /\ x + y > 0
    BY <1>2, <1>3
  <2>2. P = [phone EXCEPT !.asking = x, !.waiting = y]
    BY <1>1 DEF Answered, PhoneState
  <2> HIDE DEF x, y, P
  <2>3. /\ P \in PhoneState /\ P.armed = phone.armed /\ P.starts = phone.starts
        /\ P.tun = phone.tun /\ P.asking = x /\ P.waiting = y
    BY <1>1, <2>1, <2>2 DEF PhoneState
  <2> QED
    BY <2>1, <2>3 DEF P
<1>4. ASSUME NEW c \in Configs, ProvisionSuccess(c)
      PROVE  ServiceInv' /\ TunStays
  <2>1. /\ phone' \in PhoneState /\ phone'.armed = phone.armed /\ phone'.starts = phone.starts
        /\ phone'.tun = phone.tun /\ phone'.asking + phone'.waiting > 0
    BY <1>3, <1>4 DEF ProvisionSuccess
  <2>2. Sound(engine') /\ engine'.graceRunning = engine.graceRunning
    BY <1>1, <1>4, UpdateConfigIsSafe DEF ProvisionSuccess, updateConfig, Sound, EngineState
  <2>3. EngineInv'
    BY <2>2, InvIsSoundness
  <2>4. UNCHANGED <<running, firing>> /\ cached' = c
    BY <1>4 DEF ProvisionSuccess
  <2> QED
    BY <2>1, <2>2, <2>3, <2>4, <1>4
       DEF ServiceInv, ServiceTypeOK, AlwaysUnderWay, GraceTimerRuns, TunStays
<1>5. CASE ProvisionUnavailable
  <2>1. /\ phone' \in PhoneState /\ phone'.armed = phone.armed /\ phone'.tun = phone.tun
        /\ phone'.asking + phone'.waiting > 0
    BY <1>3, <1>5 DEF ProvisionUnavailable
  <2>2. Busy(phone', firing')
    BY <2>1 DEF Busy
  <2> QED
    BY <1>1, <1>5, <2>1, <2>2, QuietKeeps DEF ProvisionUnavailable
<1>6. ASSUME NEW ph \in PhoneState, NEW r, ph.armed = phone.armed, ph.tun = phone.tun,
             dispatch(ph, r), Safe(engine, r), Handled(engine, ph, r),
             UNCHANGED <<running, firing, cached>>
      PROVE  ServiceInv' /\ TunStays
  <2>1. Sound(r.engine) /\ Served(engine, ph, r) /\ Guarded(engine, ph, r)
    BY <1>6 DEF Safe, Handled
  <2>2. ServiceInv'
    BY <1>1, <1>6, <2>1, ServedKeeps DEF ServiceInv, ServiceTypeOK
  <2> QED
    BY <1>6, <2>1, <2>2, GuardedKeepsTun
<1>7. CASE ProvisionRefused
  <2>1. phone.asking - 1 \in Nat
    BY <1>2, <1>7 DEF ProvisionRefused
  <2>2. Answered \in PhoneState /\ Answered.armed = phone.armed /\ Answered.tun = phone.tun
    BY <1>1, <2>1 DEF Answered, PhoneState
  <2>3. dispatch(Answered, onTerminal(engine)) /\ UNCHANGED <<running, firing, cached>>
    BY <1>7 DEF ProvisionRefused
  <2>4. Safe(engine, onTerminal(engine)) /\ Handled(engine, Answered, onTerminal(engine))
    BY <1>1, <2>2, TerminalIsSafe, TerminalHandled
  <2> QED
    BY <1>6, <2>2, <2>3, <2>4
<1>8. CASE RefreshRetries
  <2> DEFINE ph == [phone EXCEPT !.waiting = @ - 1]
  <2>1. phone.waiting - 1 \in Nat
    BY <1>2, <1>8 DEF RefreshRetries
  <2>2. ph \in PhoneState /\ ph.armed = phone.armed /\ ph.tun = phone.tun
    BY <1>1, <2>1 DEF PhoneState
  <2>3. dispatch(ph, onRetry(engine)) /\ UNCHANGED <<running, firing, cached>>
    BY <1>8 DEF RefreshRetries
  <2> HIDE DEF ph
  <2>4. Safe(engine, onRetry(engine)) /\ Handled(engine, ph, onRetry(engine))
    BY <1>1, <2>2, <2>3, RetryIsSafe, RetryHandled DEF dispatch
  <2> QED
    BY <1>6, <2>2, <2>3, <2>4
<1> QED
  BY <1>4, <1>5, <1>7, <1>8

\* Every step of the service keeps the invariant and guards the tun.
LEMMA ServiceStep ==
    ASSUME ServiceInv, [ServiceNext]_vars
    PROVE  ServiceInv' /\ TunStays
<1>1. CASE Destroy \/ Killed
  BY <1>1, EndKeeps DEF Destroy, Killed
<1>2. CASE UNCHANGED vars
  <2>1. Starting' = Starting
    BY <1>2 DEF vars, Starting, Free
  <2> QED
    BY <1>2, <2>1
       DEF vars, ServiceInv, ServiceTypeOK, EngineInv, EngineTypeOK, GraceHoldsTraffic,
           HonestStatus, AlwaysUnderWay, Wanted, GraceTimerRuns, TunStays
<1> QED
  BY <1>1, <1>2, CreateKeeps, CallbackKeeps, TimerKeeps, StartKeeps, StartEndsKeeps, RefreshKeeps
     DEF ServiceNext

-----------------------------------------------------------------------------
(***************************************************************************)
(* The theorems                                                            *)
(***************************************************************************)
\* Engine, phone and timers agree, with any number of starts and refreshes in
\* flight and late timers and answers among the events.
THEOREM ServiceCorrect == ServiceSpec => []ServiceInv
<1>1. ServiceInv /\ [ServiceNext]_vars => ServiceInv'
  BY ServiceStep
<1> QED
  BY <1>1, InitServiceInv, PTL DEF ServiceSpec

\* A wanted tunnel that is not up is never left to itself: every path through
\* the handlers that leaves it down starts it, asks for a config or arms the
\* retry, and no path gives that up without taking it over.
THEOREM NeverLeftAlone == ServiceSpec => []AlwaysUnderWay
<1>1. ServiceInv => AlwaysUnderWay
  BY DEF ServiceInv
<1> QED
  BY <1>1, ServiceCorrect, PTL

\* The grace window always has its timer: cancelTimers never runs without the
\* window being closed as well.
THEOREM GraceWindowEnds == ServiceSpec => []GraceTimerRuns
<1>1. ServiceInv => GraceTimerRuns
  BY DEF ServiceInv
<1> QED
  BY <1>1, ServiceCorrect, PTL

\* The tun of the phone stays up through drops, handoffs, refused starts and
\* late timers; it is closed as the service goes down, or in soft mode with a
\* status that says so.
THEOREM TunIsGuarded == ServiceSpec => TunOpensOnlyWhenTold
<1>1. ServiceInv /\ [ServiceNext]_vars => [TunStays]_vars
  BY ServiceStep
<1> QED
  BY <1>1, ServiceCorrect, PTL DEF ServiceSpec, TunOpensOnlyWhenTold, TunStays

\* The service runs the engine within its specification, so in the service, too,
\* a running window holds traffic, whatever the coroutines dispatch.
THEOREM ServiceHoldsTraffic == ServiceSpec => []GraceHoldsTraffic
<1>1. ServiceInv => GraceHoldsTraffic
  BY DEF ServiceInv, EngineInv
<1> QED
  BY <1>1, ServiceCorrect, PTL

\* And the status shown is true of the policy.
THEOREM ServiceStatusIsHonest == ServiceSpec => []HonestStatus
<1>1. ServiceInv => HonestStatus
  BY DEF ServiceInv, EngineInv
<1> QED
  BY <1>1, ServiceCorrect, PTL

\* While the service lives its engine is fed events, one at a time.
OnlyFed == [][running # "off" /\ running' # "off" => [EngineNext]_engine]_vars

\* A life of the service, from onCreate to its end, is a behaviour of EngineSpec,
\* so the action properties proved of the engine hold within each life.
THEOREM EngineIsOnlyFed == ServiceSpec => OnlyFed
<1> DEFINE Fed == running # "off" /\ running' # "off" => [EngineNext]_engine
<1>1. ASSUME [ServiceNext]_vars PROVE [Fed]_vars
  <2>1. CASE \E mode \in KillSwitchMode, n \in Networks \cup {Nil} : Create(mode, n)
    BY <2>1 DEF Create
  <2>2. CASE Destroy \/ Killed
    BY <2>2 DEF Destroy, Killed, End
  <2>3. CASE Connect \/ Disconnect \/ NetworkLost
    BY <2>3 DEF Connect, Disconnect, NetworkLost, dispatch, EngineNext, Becomes
  <2>4. CASE \E n \in Networks : NetworkAvailable(n)
    BY <2>4 DEF NetworkAvailable, dispatch, EngineNext, Becomes
  <2>5. ASSUME NEW t \in Timers, DelayOver(t) \/ TimerFired(t) PROVE Fed
    BY <2>5 DEF DelayOver, TimerFired, Timers, dispatch, EngineNext, Becomes
  <2>6. ASSUME NEW s \in Slots, HaveTun(s) \/ BackendUp(s) \/ BackendRefuses(s) PROVE Fed
    BY <2>6 DEF HaveTun, BackendUp, BackendRefuses
  <2>7. ASSUME NEW s \in Slots, StartEnds(s) PROVE Fed
    BY <2>7 DEF StartEnds, At, dispatch, EngineNext, Becomes
  <2>8. CASE \/ \E c \in Configs : ProvisionSuccess(c)
             \/ ProvisionUnavailable \/ ProvisionRefused \/ RefreshRetries
    BY <2>8 DEF ProvisionSuccess, ProvisionUnavailable, ProvisionRefused, RefreshRetries,
                dispatch, EngineNext, Becomes
  <2> QED
    BY <1>1, <2>1, <2>2, <2>3, <2>4, <2>5, <2>6, <2>7, <2>8 DEF ServiceNext
<1> QED
  BY <1>1, PTL DEF ServiceSpec, OnlyFed

=============================================================================
