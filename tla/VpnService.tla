----------------------------- MODULE VpnService -----------------------------
(***************************************************************************)
(* ProxifyVpnService around the engine: Android's callbacks, the timers,   *)
(* the coroutines that start a tunnel or ask for a config, and the tun     *)
(* interface and backend they work on.                                     *)
(*                                                                         *)
(* dispatch() is synchronized, so handling an event and executing its      *)
(* actions is one step.  The coroutines are not: what they do to the tun   *)
(* and the backend, and their own dispatch at the end, are separate steps. *)
(* A timer whose delay has passed dispatches even if its job is cancelled  *)
(* in the meantime.                                                        *)
(***************************************************************************)
EXTENDS ReliabilityEngine, FiniteSets

CONSTANTS
    Slots,          \* bound: one for each coroutine of startTunnel at one time
    MaxRefreshes    \* bound: coroutines of refreshConfig at one time

ASSUME BoundsAssumption == IsFiniteSet(Slots) /\ Slots # {} /\ MaxRefreshes \in Nat \ {0}

VARIABLES
    running,    \* the service: "off", "on", or "stopping" after stopSelf
    phone,      \* tun, backend, armed timers, starts, and refreshes: asking,
                \* or waiting to dispatch RetryTimerFired
    firing,     \* timers whose delay is over, about to dispatch
    cached      \* TunnelConfigCache, on disk

vars == <<engine, running, phone, firing, cached>>

Timers == {"retry", "grace", "stability"}
NoStart == [pc |-> "none", fallback |-> Nil]

Quiet == [tun |-> FALSE, backend |-> FALSE, armed |-> {}, asking |-> 0, waiting |-> 0,
          starts |-> [s \in Slots |-> NoStart]]

Free(ph) == {s \in Slots : ph.starts[s] = NoStart}
AnyFree(ph) == CHOOSE s \in Free(ph) : TRUE    \* they are alike
Starting == Slots \ Free(phone)

-----------------------------------------------------------------------------
(***************************************************************************)
(* execute                                                                 *)
(***************************************************************************)
startTunnel(ph, f) ==
    [ph EXCEPT !.starts[AnyFree(ph)] = [pc |-> "launched", fallback |-> f]]

\* Holding traffic takes the tun down with the backend.
Bug_applyTrafficPolicy(ph, p) ==
    CASE p = "TUNNEL" -> ph
      [] OTHER        -> [ph EXCEPT !.backend = FALSE, !.tun = FALSE]

applyTrafficPolicy(ph, p) ==
    CASE p = "TUNNEL" -> ph
      [] p = "BLOCK"  -> [ph EXCEPT !.backend = FALSE]
      [] p = "DIRECT" -> [ph EXCEPT !.backend = FALSE, !.tun = FALSE]

\* Refreshes beyond the bound are not told apart from the ones in flight.
refreshConfig(ph) ==
    [ph EXCEPT !.asking = IF @ + ph.waiting < MaxRefreshes THEN @ + 1 ELSE @]

execute(ph, a) ==
    CASE a.do = "StartTunnel"            -> startTunnel(ph, a.fallback)
      [] a.do = "StopTunnel"             -> [ph EXCEPT !.backend = FALSE]
      [] a.do = "SetTrafficPolicy"       -> applyTrafficPolicy(ph, a.policy)
      [] a.do = "ScheduleRetry"          -> [ph EXCEPT !.armed = @ \cup {"retry"}]
      [] a.do = "ScheduleGraceExpiry"    -> [ph EXCEPT !.armed = @ \cup {"grace"}]
      [] a.do = "ScheduleStabilityCheck" -> [ph EXCEPT !.armed = @ \cup {"stability"}]
      [] a.do = "CancelTimers"           -> [ph EXCEPT !.armed = {}]
      [] a.do = "RefreshConfig"          -> refreshConfig(ph)

WithinBound(ph, acts) ==
    (\E i \in DOMAIN acts : acts[i].do = "StartTunnel") => Free(ph) # {}

\* The phone after the first i of the actions, for each i.
AfterEach(ph, acts) ==
    LET after[i \in 0 .. Len(acts)] ==
            IF i = 0 THEN ph ELSE execute(after[i - 1], acts[i])
    IN  after

executeAll(ph, acts) == AfterEach(ph, acts)[Len(acts)]

\* dispatch, from the state ph that the caller leaves behind.
dispatch(ph, result) ==
    /\ WithinBound(ph, result.actions)
    /\ engine' = result.engine
    /\ phone' = executeAll(ph, result.actions)

-----------------------------------------------------------------------------
(***************************************************************************)
(* Callbacks of the system and the user                                    *)
(***************************************************************************)

\* onCreate; the monitor's start() reports the network there is, or none.
Create(mode, n) ==
    /\ running = "off"
    /\ running' = "on"
    /\ LET e == NewEngine(mode, cached) IN
       dispatch(phone, IF n = Nil THEN onNetworkLost(e) ELSE onNetworkAvailable(e, n))
    /\ UNCHANGED <<firing, cached>>

Connect ==
    /\ running = "on"
    /\ dispatch(phone, onConnectRequested(engine))
    /\ UNCHANGED <<running, firing, cached>>

\* ACTION_DISCONNECT, or consent revoked.
Disconnect ==
    /\ running = "on"
    /\ dispatch(phone, onDisconnectRequested(engine))
    /\ running' = "stopping"
    /\ UNCHANGED <<firing, cached>>

\* onDestroy after stopSelf, or the process is killed: jobs, tun and backend go.
End ==
    /\ running' = "off"
    /\ engine' = NewEngine("SOFT", Nil)
    /\ phone' = Quiet /\ firing' = {}
    /\ UNCHANGED cached

Destroy == running = "stopping" /\ End
Killed  == running = "on" /\ End

\* The monitor reports a network only when its identity changed.
NetworkAvailable(n) ==
    /\ running # "off" /\ engine.network # n
    /\ dispatch(phone, onNetworkAvailable(engine, n))
    /\ UNCHANGED <<running, firing, cached>>

NetworkLost ==
    /\ running # "off"
    /\ dispatch(phone, onNetworkLost(engine))
    /\ UNCHANGED <<running, firing, cached>>

-----------------------------------------------------------------------------
(***************************************************************************)
(* Timers                                                                  *)
(***************************************************************************)
DelayOver(t) ==
    /\ t \in phone.armed \ firing
    /\ phone' = [phone EXCEPT !.armed = @ \ {t}]
    /\ firing' = firing \cup {t}
    /\ UNCHANGED <<engine, running, cached>>

TimerFired(t) ==
    /\ t \in firing
    /\ firing' = firing \ {t}
    /\ dispatch(phone, CASE t = "retry"     -> onRetry(engine)
                         [] t = "grace"     -> onGraceExpired(engine)
                         [] t = "stability" -> onStable(engine))
    /\ UNCHANGED <<running, cached>>

-----------------------------------------------------------------------------
(***************************************************************************)
(* The coroutine of startTunnel                                            *)
(***************************************************************************)
At(s, pc) == phone.starts[s].pc = pc

\* The tun is there already, or it is established now, or that fails.
HaveTun(s) ==
    /\ At(s, "launched")
    /\ \/ phone' = [phone EXCEPT !.tun = TRUE, !.starts[s].pc = "ready"]
       \/ ~phone.tun /\ phone' = [phone EXCEPT !.starts[s].pc = "failed"]
    /\ UNCHANGED <<engine, running, firing, cached>>

\* WireGuardGoBackend.start: only UDP is there yet.  Its config may not parse
\* ("failed") or the library may refuse it ("rejected").
BackendUp(s) ==
    /\ At(s, "ready") /\ phone.starts[s].fallback.transport = "UDP"
    /\ phone' = [phone EXCEPT !.backend = TRUE, !.starts[s].pc = "ok"]
    /\ UNCHANGED <<engine, running, firing, cached>>

BackendRefuses(s) ==
    /\ At(s, "ready")
    /\ \/ phone' = [phone EXCEPT !.starts[s].pc = "failed"]
       \/ /\ phone.starts[s].fallback.transport = "UDP"
          /\ phone' = [phone EXCEPT !.starts[s].pc = "rejected"]
    /\ UNCHANGED <<engine, running, firing, cached>>

StartEnds(s) ==
    /\ phone.starts[s].pc \in {"ok", "failed", "rejected"}
    /\ dispatch([phone EXCEPT !.starts[s] = NoStart],
                CASE At(s, "ok")       -> onEstablished(engine)
                  [] At(s, "failed")   -> onAttemptFailed(engine, FALSE)
                  [] At(s, "rejected") -> onAttemptFailed(engine, TRUE))
    /\ UNCHANGED <<running, firing, cached>>

-----------------------------------------------------------------------------
(***************************************************************************)
(* The coroutine of refreshConfig: TunnelRepository.provision, then what   *)
(* its answer calls for                                                    *)
(***************************************************************************)
Answered == [phone EXCEPT !.asking = @ - 1]

ProvisionSuccess(c) ==
    /\ phone.asking > 0
    /\ cached' = c
    /\ updateConfig(c)
    /\ phone' = [Answered EXCEPT !.waiting = @ + 1]
    /\ UNCHANGED <<running, firing>>

ProvisionUnavailable ==
    /\ phone.asking > 0
    /\ phone' = [Answered EXCEPT !.waiting = @ + 1]
    /\ UNCHANGED <<engine, running, firing, cached>>

\* NotEntitled or Unauthorized
ProvisionRefused ==
    /\ phone.asking > 0
    /\ dispatch(Answered, onTerminal(engine))
    /\ UNCHANGED <<running, firing, cached>>

RefreshRetries ==
    /\ phone.waiting > 0
    /\ dispatch([phone EXCEPT !.waiting = @ - 1], onRetry(engine))
    /\ UNCHANGED <<running, firing, cached>>

-----------------------------------------------------------------------------
ServiceInit ==
    /\ engine = NewEngine("SOFT", Nil)
    /\ running = "off" /\ phone = Quiet /\ firing = {}
    /\ cached \in Configs \cup {Nil}

ServiceNext ==
    \/ \E mode \in KillSwitchMode, n \in Networks \cup {Nil} : Create(mode, n)
    \/ Connect \/ Disconnect \/ Destroy \/ Killed
    \/ \E n \in Networks : NetworkAvailable(n)
    \/ NetworkLost
    \/ \E t \in Timers : DelayOver(t) \/ TimerFired(t)
    \/ \E s \in Slots : HaveTun(s) \/ BackendUp(s) \/ BackendRefuses(s) \/ StartEnds(s)
    \/ \E c \in Configs : ProvisionSuccess(c)
    \/ ProvisionUnavailable \/ ProvisionRefused \/ RefreshRetries

ServiceSpec == ServiceInit /\ [][ServiceNext]_vars

-----------------------------------------------------------------------------
(***************************************************************************)
(* Properties                                                              *)
(***************************************************************************)
Wanted == running = "on" /\ engine.wantsTunnel /\ engine.network # Nil

\* A wanted tunnel that is not up on a phone that has a network is never left
\* to itself: a start or a refresh is in flight or a retry is scheduled.
AlwaysUnderWay ==
    Wanted /\ engine.status # "CONNECTED" =>
        Starting # {} \/ phone.asking + phone.waiting > 0 \/ "retry" \in phone.armed \cup firing

\* While the engine believes the grace window runs, its timer does: traffic is
\* not held with nobody left to end the hold.
GraceTimerRuns ==
    engine.graceRunning => "grace" \in phone.armed \cup firing

\* The kill switch of the phone itself: once traffic is held or tunnelled, the
\* tun is closed, and traffic let past it, only as the service goes down on the
\* user's word or the system's, or in soft mode together with a status that
\* says so.  In between it stays up through every drop, handoff, refused start
\* and late timer: "packets enter the tun and go nowhere.  Nothing leaks."
TunOpensOnlyWhenTold ==
    [][phone.tun /\ ~phone'.tun /\ engine.policy # "DIRECT" =>
          \/ running' # "on"
          \/ engine.killSwitchMode = "SOFT" /\ engine'.status \in {"UNPROTECTED", "FAILED"}]_vars

-----------------------------------------------------------------------------
(***************************************************************************)
(* Liveness.  Timers run out and coroutines get on; of infinitely many     *)
(* starts over a transport that the backend serves, some succeed.          *)
(***************************************************************************)
TunForUdp(s) ==
    HaveTun(s) /\ phone.starts[s].fallback.transport = "UDP" /\ phone'.tun

Coroutines ==
    /\ \A t \in Timers : WF_vars(DelayOver(t)) /\ WF_vars(TimerFired(t))
    /\ \A s \in Slots : /\ SF_vars(TunForUdp(s)) /\ SF_vars(BackendUp(s))
                        /\ WF_vars(HaveTun(s)) /\ WF_vars(BackendRefuses(s))
                        /\ WF_vars(StartEnds(s))
    /\ \A c \in Configs : SF_vars(ProvisionSuccess(c))
    /\ WF_vars(RefreshRetries)

FairServiceSpec == ServiceSpec /\ Coroutines

\* "Aggressive auto-reconnect": while a tunnel stays wanted on a phone with a
\* network, it is established again and again, whatever transport failed.
Reconnects ==
    <>[]Wanted => []<>(engine.status = "CONNECTED")

=============================================================================
