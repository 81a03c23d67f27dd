------------------------- MODULE ReliabilityEngine -------------------------
(***************************************************************************)
(* The client's reliability state machine (android/core: ReliabilityEngine,*)
(* TransportLadder, MtuPolicy): events go in, actions for the service come *)
(* out.  A handler is an operator from the engine's state to its result,   *)
(* the new state and the actions returned.  EngineNext feeds ANY event in  *)
(* ANY order; module VpnService brings in the service that produces them.  *)
(*                                                                         *)
(* Left out: attempt (it only sets the length of the delay), transport and *)
(* serverCode of the state shown to the user (copies of other fields).     *)
(***************************************************************************)
EXTENDS Integers, Sequences

CONSTANTS
    Networks,           \* signatures of the networks the phone meets
    Configs,            \* tunnel configs the control plane hands out
    Transports,         \* per config: the transports of its ladder, in order
    ConfigMtu,          \* per config: the MTU it asks for
    LADDER,             \* MtuPolicy.LADDER, descending
    SAFE_MTU,
    Nil

FAILURES_BEFORE_FALLBACK == 2

KillSwitchMode == {"SOFT", "STRICT"}
TransportNames == {"UDP", "TCP", "WS_TLS"}

MIN_MTU == LADDER[Len(LADDER)]
MAX_MTU == LADDER[1]

ASSUME LadderAssumption ==
    /\ LADDER \in Seq(Nat) /\ LADDER # << >>
    /\ \A i, j \in 1 .. Len(LADDER) : i < j => LADDER[i] > LADDER[j]
    /\ SAFE_MTU \in MIN_MTU .. MAX_MTU

ASSUME ConfigAssumption ==
    /\ ConfigMtu \in [Configs -> Nat]
    /\ \A c \in Configs : Transports[c] \in Seq(TransportNames) /\ Transports[c] # << >>

ASSUME NilAssumption == Nil \notin Networks \cup Configs

VARIABLE engine     \* ReliabilityEngine with its ladder and MTU policy

NewEngine(mode, c) ==
    [killSwitchMode |-> mode, status |-> "DISCONNECTED", policy |-> "DIRECT", mtu |-> SAFE_MTU, network |-> Nil,
     wantsTunnel |-> FALSE, config |-> c, currentFallback |-> Nil, graceRunning |-> FALSE,
     failures |-> 0,
     transportOn |-> [n \in Networks |-> Nil],  \* TransportLadder.memory
     mtuOn |-> [n \in Networks |-> Nil]]        \* MtuPolicy.memory

Returns(e, do) == [engine |-> e, actions |-> do]

SetTrafficPolicy(p) == [do |-> "SetTrafficPolicy", policy |-> p]
StartTunnel(f, m)   == [do |-> "StartTunnel", fallback |-> f, mtu |-> m]
Plain(name)         == [do |-> name]

-----------------------------------------------------------------------------
(***************************************************************************)
(* TransportLadder.  A fallback is a transport of one config's ladder.     *)
(***************************************************************************)
Rung(c, i) == [transport |-> Transports[c][i], config |-> c]

RungsWith(c, t) == {i \in 1 .. Len(Transports[c]) : Transports[c][i] = t}

First(I) == CHOOSE i \in I : \A j \in I : i <= j

preferred(e, n) ==
    LET c == e.config
        I == IF n = Nil THEN {} ELSE RungsWith(c, e.transportOn[n])
    IN IF I = {} THEN Rung(c, 1) ELSE Rung(c, First(I))

FallbackOr(e, n) == IF e.currentFallback = Nil THEN preferred(e, n) ELSE e.currentFallback

\* The last rung is for ever.
Bug_NextRung(c, f) ==
    LET I == RungsWith(c, f.transport) IN
    IF I = {} THEN Rung(c, 1)
    ELSE IF First(I) = Len(Transports[c]) THEN Rung(c, Len(Transports[c]))
    ELSE Rung(c, First(I) + 1)

NextRung(c, f) ==
    LET I == RungsWith(c, f.transport) IN
    IF I = {} \/ First(I) = Len(Transports[c]) THEN Rung(c, 1) ELSE Rung(c, First(I) + 1)

\* TransportLadder.onFailure
LadderFailed(e, f) ==
    IF e.failures + 1 < FAILURES_BEFORE_FALLBACK
    THEN [e EXCEPT !.failures = @ + 1, !.currentFallback = f]
    ELSE [e EXCEPT !.failures = 0, !.currentFallback = NextRung(e.config, f)]

\* TransportLadder.onSuccess
LadderWorked(e) ==
    IF e.currentFallback = Nil THEN e
    ELSE [e EXCEPT !.failures = 0,
                   !.transportOn = [n \in Networks |->
                        IF n = e.network THEN e.currentFallback.transport ELSE @[n]]]

-----------------------------------------------------------------------------
(***************************************************************************)
(* MtuPolicy                                                               *)
(***************************************************************************)
coerceIn(x, lo, hi) == IF x < lo THEN lo ELSE IF x > hi THEN hi ELSE x

mtuFor(e, n) ==
    IF e.mtuOn[n] # Nil THEN e.mtuOn[n] ELSE coerceIn(ConfigMtu[e.config], MIN_MTU, MAX_MTU)

RungsAtMost(m) == {i \in 1 .. Len(LADDER) : LADDER[i] <= m}

RungUp(m) ==
    IF RungsAtMost(m) = {} \/ First(RungsAtMost(m)) = 1 THEN MAX_MTU
    ELSE LADDER[First(RungsAtMost(m)) - 1]

\* One step further than the rung the MTU is on.
Bug_RungDown(m) ==
    IF RungsAtMost(m) = {} THEN SAFE_MTU
    ELSE IF First(RungsAtMost(m)) = Len(LADDER) THEN MIN_MTU - 1
    ELSE LADDER[First(RungsAtMost(m)) + 1]

RungDown(m) ==
    IF RungsAtMost(m) = {} THEN SAFE_MTU
    ELSE IF First(RungsAtMost(m)) = Len(LADDER) THEN MIN_MTU
    ELSE LADDER[First(RungsAtMost(m)) + 1]

Remembering(e, m) == [e.mtuOn EXCEPT ![e.network] = m]

-----------------------------------------------------------------------------
(***************************************************************************)
(* Helpers of the handlers                                                 *)
(***************************************************************************)
startTunnelActions(e, startGrace) ==
    Returns([e EXCEPT !.graceRunning = @ \/ startGrace],
            <<SetTrafficPolicy(e.policy), StartTunnel(e.currentFallback, e.mtu)>>
            \o IF startGrace /\ ~e.graceRunning THEN <<Plain("ScheduleGraceExpiry")>> ELSE << >>)

holdWithoutNetwork(e) ==
    Returns([e EXCEPT !.status = "NO_NETWORK", !.policy = "BLOCK"],
            <<SetTrafficPolicy("BLOCK")>>)

Refresh(e) == Returns(e, <<Plain("RefreshConfig")>>)

\* A fresh attempt on network n, traffic held.
Attempt(e, n, status) ==
    startTunnelActions([e EXCEPT !.status = status, !.policy = "BLOCK",
                                 !.currentFallback = preferred(e, n),
                                 !.mtu = mtuFor(e, n)], TRUE)

-----------------------------------------------------------------------------
(***************************************************************************)
(* Handlers                                                                *)
(***************************************************************************)
onConnectRequested(e) ==
    LET w == [e EXCEPT !.wantsTunnel = TRUE] IN
    IF e.config = Nil THEN Refresh([w EXCEPT !.status = "CONNECTING"])
    ELSE IF e.network = Nil THEN holdWithoutNetwork(w)
    ELSE Attempt(w, e.network, "CONNECTING")

onDisconnectRequested(e) ==
    Returns([e EXCEPT !.wantsTunnel = FALSE, !.graceRunning = FALSE,
                      !.currentFallback = Nil, !.status = "DISCONNECTED",
                      !.policy = "DIRECT", !.mtu = SAFE_MTU],
            <<Plain("CancelTimers"), Plain("StopTunnel"), SetTrafficPolicy("DIRECT")>>)

onNetworkAvailable(e, n) ==
    LET on      == [e EXCEPT !.network = n]
        handoff == e.network # Nil /\ e.network # n
    IN  IF ~e.wantsTunnel THEN Returns(on, << >>)
        ELSE IF e.config = Nil THEN Refresh(on)
        ELSE IF ~handoff /\ e.status = "CONNECTED" THEN Returns(on, << >>)
        ELSE Attempt([on EXCEPT !.failures = 0], n,
                     IF e.status = "NO_NETWORK" THEN "CONNECTING" ELSE "RECONNECTING")

\* The grace clock is stopped, but not forgotten.
Bug_onNetworkLost(e) ==
    Returns([e EXCEPT !.status = IF e.wantsTunnel THEN "NO_NETWORK" ELSE "DISCONNECTED",
                      !.policy = "BLOCK", !.network = Nil],
            <<Plain("CancelTimers"), Plain("StopTunnel")>>)

onNetworkLost(e) ==
    Returns([e EXCEPT !.status = IF e.wantsTunnel THEN "NO_NETWORK" ELSE "DISCONNECTED",
                      !.policy = "BLOCK", !.network = Nil, !.graceRunning = FALSE],
            <<Plain("CancelTimers"), Plain("StopTunnel")>>)

\* The grace window is not closed.
Bug_onEstablished(e) ==
    Returns([LadderWorked(e) EXCEPT !.status = "CONNECTED", !.policy = "TUNNEL"],
            <<Plain("CancelTimers"), SetTrafficPolicy("TUNNEL"), Plain("ScheduleStabilityCheck")>>)

onEstablished(e) ==
    Returns([LadderWorked(e) EXCEPT !.graceRunning = FALSE, !.status = "CONNECTED",
                                    !.policy = "TUNNEL"],
            <<Plain("CancelTimers"), SetTrafficPolicy("TUNNEL"), Plain("ScheduleStabilityCheck")>>)

\* The kill switch mode is not looked at.
Bug_onTerminal(e) ==
    LET p == "DIRECT" IN
    Returns([e EXCEPT !.wantsTunnel = FALSE, !.graceRunning = FALSE,
                      !.status = "FAILED", !.policy = p],
            <<Plain("CancelTimers"), Plain("StopTunnel"), SetTrafficPolicy(p),
              Plain("RefreshConfig")>>)

\* onFailed, SUBSCRIPTION_EXPIRED or CONFIG_INVALID
onTerminal(e) ==
    LET p == IF e.killSwitchMode = "STRICT" THEN "BLOCK" ELSE "DIRECT" IN
    Returns([e EXCEPT !.wantsTunnel = FALSE, !.graceRunning = FALSE,
                      !.status = "FAILED", !.policy = p],
            <<Plain("CancelTimers"), Plain("StopTunnel"), SetTrafficPolicy(p),
              Plain("RefreshConfig")>>)

\* No retry is scheduled while the user is told that nothing is protected.
Bug_onAttemptFailed(e, rejected) ==
    LET told  == e.status = "UNPROTECTED"
        hold  == ~e.graceRunning /\ ~told
        tried == LadderFailed(e, FallbackOr(e, e.network))
    IN  IF ~e.wantsTunnel THEN Returns(e, << >>)
        ELSE IF e.config = Nil THEN Refresh(e)
        ELSE Returns([tried EXCEPT !.status = IF told THEN @ ELSE "RECONNECTING",
                                   !.policy = IF hold THEN "BLOCK" ELSE @,
                                   !.graceRunning = @ \/ hold],
                     (IF hold THEN <<SetTrafficPolicy("BLOCK"), Plain("ScheduleGraceExpiry")>>
                      ELSE << >>)
                     \o (IF told THEN << >> ELSE <<Plain("ScheduleRetry")>>)
                     \o (IF rejected THEN <<Plain("RefreshConfig")>> ELSE << >>))

\* onFailed, any other reason
onAttemptFailed(e, rejected) ==
    LET told  == e.status = "UNPROTECTED"
        hold  == ~e.graceRunning /\ ~told
        tried == LadderFailed(e, FallbackOr(e, e.network))
    IN  IF ~e.wantsTunnel THEN Returns(e, << >>)
        ELSE IF e.config = Nil THEN Refresh(e)
        ELSE Returns([tried EXCEPT !.status = IF told THEN @ ELSE "RECONNECTING",
                                   !.policy = IF hold THEN "BLOCK" ELSE @,
                                   !.graceRunning = @ \/ hold],
                     (IF hold THEN <<SetTrafficPolicy("BLOCK"), Plain("ScheduleGraceExpiry")>>
                      ELSE << >>)
                     \o <<Plain("ScheduleRetry")>>
                     \o (IF rejected THEN <<Plain("RefreshConfig")>> ELSE << >>))

onRetry(e) ==
    IF ~e.wantsTunnel THEN Returns(e, << >>)
    ELSE IF e.config = Nil THEN Refresh(e)
    ELSE IF e.network = Nil THEN holdWithoutNetwork(e)
    ELSE startTunnelActions([e EXCEPT !.currentFallback = FallbackOr(e, e.network)], FALSE)

\* The status on display is left alone.
Bug_onGraceExpired(e) ==
    LET over == [e EXCEPT !.graceRunning = FALSE] IN
    IF ~e.wantsTunnel \/ e.status = "CONNECTED" THEN Returns(over, << >>)
    ELSE IF e.killSwitchMode = "SOFT"
    THEN Returns([over EXCEPT !.policy = "DIRECT"], <<SetTrafficPolicy("DIRECT")>>)
    ELSE Returns([over EXCEPT !.policy = "BLOCK"], << >>)

onGraceExpired(e) ==
    LET over == [e EXCEPT !.graceRunning = FALSE] IN
    IF ~e.wantsTunnel \/ e.status = "CONNECTED" THEN Returns(over, << >>)
    ELSE IF e.killSwitchMode = "SOFT"
    THEN Returns([over EXCEPT !.status = "UNPROTECTED", !.policy = "DIRECT"],
                 <<SetTrafficPolicy("DIRECT")>>)
    ELSE Returns([over EXCEPT !.policy = "BLOCK"], << >>)

\* The better MTU is used at once.
Bug_onStable(e) ==
    IF e.network = Nil THEN Returns(e, << >>)
    ELSE Returns([e EXCEPT !.mtuOn = Remembering(e, RungUp(e.mtu)), !.mtu = RungUp(e.mtu)], << >>)

\* Only remembered for the next connection on this network.
onStable(e) ==
    IF e.network = Nil THEN Returns(e, << >>)
    ELSE Returns([e EXCEPT !.mtuOn = Remembering(e, RungUp(e.mtu))], << >>)

onStalled(e) ==
    LET lower   == RungDown(e.mtu)
        learned == IF e.network = Nil THEN e ELSE [e EXCEPT !.mtuOn = Remembering(e, lower)]
        stepped == [learned EXCEPT !.status = "RECONNECTING", !.mtu = lower]
    IN  IF lower = e.mtu THEN Returns(learned, << >>)
        ELSE Returns(stepped, IF e.currentFallback = Nil THEN << >>
                              ELSE <<Plain("StopTunnel"), StartTunnel(e.currentFallback, lower)>>)

-----------------------------------------------------------------------------
(***************************************************************************)
(* The engine on its own: any event at any time.                           *)
(***************************************************************************)
EngineInit == engine \in {NewEngine(m, c) : m \in KillSwitchMode, c \in Configs \cup {Nil}}

Becomes(result) == engine' = result.engine

updateConfig(c) == engine' = [engine EXCEPT !.config = c]

EngineNext ==
    \/ Becomes(onConnectRequested(engine))
    \/ Becomes(onDisconnectRequested(engine))
    \/ \E n \in Networks : Becomes(onNetworkAvailable(engine, n))
    \/ Becomes(onNetworkLost(engine))
    \/ Becomes(onEstablished(engine))
    \/ Becomes(onTerminal(engine))
    \/ \E rejected \in BOOLEAN : Becomes(onAttemptFailed(engine, rejected))
    \/ Becomes(onRetry(engine))
    \/ Becomes(onGraceExpired(engine))
    \/ Becomes(onStable(engine))
    \/ Becomes(onStalled(engine))
    \/ \E c \in Configs : updateConfig(c)

EngineSpec == EngineInit /\ [][EngineNext]_engine

-----------------------------------------------------------------------------
(***************************************************************************)
(* Properties                                                              *)
(***************************************************************************)
Statuses == {"DISCONNECTED", "CONNECTING", "CONNECTED", "RECONNECTING", "UNPROTECTED",
             "NO_NETWORK", "FAILED"}

Policies == {"TUNNEL", "BLOCK", "DIRECT"}

Fallback == [transport : TransportNames, config : Configs]

Mtus == MIN_MTU .. MAX_MTU

\* The engine's fields are of their types, and every MTU in use or remembered
\* stays between the ends of the ladder, whatever the configs ask for.
EngineTypeOK ==
    engine \in [killSwitchMode : KillSwitchMode, status : Statuses, policy : Policies,
                mtu : Mtus, network : Networks \cup {Nil}, wantsTunnel : BOOLEAN,
                config : Configs \cup {Nil}, currentFallback : Fallback \cup {Nil},
                graceRunning : BOOLEAN, failures : 0 .. FAILURES_BEFORE_FALLBACK - 1,
                transportOn : [Networks -> TransportNames \cup {Nil}],
                mtuOn : [Networks -> Mtus \cup {Nil}]]

\* While the grace window runs a tunnel is wanted and traffic is held: "a
\* two-second blip never leaks", whatever order events come in.
GraceHoldsTraffic ==
    engine.graceRunning => engine.wantsTunnel /\ engine.policy = "BLOCK"

\* What the user is told is true of the traffic: "connected" only when it goes
\* through the tunnel, "unprotected" only when a wanted tunnel was given up
\* on in soft mode, and never "no network" while it goes out directly.
HonestStatus ==
    /\ engine.status = "CONNECTED" => engine.policy = "TUNNEL"
    /\ engine.status = "UNPROTECTED" =>
          engine.policy = "DIRECT" /\ engine.wantsTunnel /\ engine.killSwitchMode = "SOFT"
    /\ engine.status = "NO_NETWORK" => engine.policy = "BLOCK"

\* Traffic is released (the policy becomes DIRECT) only by the user's own
\* disconnect, or in soft mode with the user told: "strict mode governs
\* unexpected drops, not the user's own decision".
ReleasedOnlyWhenTold ==
    [][engine.policy # "DIRECT" /\ engine'.policy = "DIRECT" =>
          \/ engine'.status = "DISCONNECTED" /\ ~engine'.wantsTunnel
          \/ engine.killSwitchMode = "SOFT" /\ engine'.status \in {"UNPROTECTED", "FAILED"}]_engine

\* A tunnel that stays connected keeps its MTU: what is learned applies to the
\* next connection, "never by tearing down a working tunnel".
MtuKeptWhileConnected ==
    [][engine.status = "CONNECTED" /\ engine'.status = "CONNECTED" =>
          engine'.mtu = engine.mtu]_engine

=============================================================================
