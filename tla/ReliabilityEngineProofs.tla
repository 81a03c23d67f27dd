---------------------- MODULE ReliabilityEngineProofs ----------------------
(***************************************************************************)
(* Proofs about the reliability engine, for every set of networks and      *)
(* configs, every transport ladder and every descending MTU ladder, and    *)
(* for any order of events.                                                *)
(*                                                                         *)
(* Handlers are operators on the engine's record, so the work is done in   *)
(* lemmas about a record e: each handler keeps a record Sound and makes a  *)
(* Permitted step.  Soundness is the inductive invariant: the grace        *)
(* property alone is not inductive, because a failure that arrives while   *)
(* the user is told "unprotected" leaves policy and window as they are,    *)
(* and only the honesty of the status excludes a window then.              *)
(***************************************************************************)
EXTENDS ReliabilityEngine, TLAPS, WellFoundedInduction

EngineState ==
    [killSwitchMode : KillSwitchMode, status : Statuses, policy : Policies,
     mtu : Mtus, network : Networks \cup {Nil}, wantsTunnel : BOOLEAN,
     config : Configs \cup {Nil}, currentFallback : Fallback \cup {Nil},
     graceRunning : BOOLEAN, failures : 0 .. FAILURES_BEFORE_FALLBACK - 1,
     transportOn : [Networks -> TransportNames \cup {Nil}],
     mtuOn : [Networks -> Mtus \cup {Nil}]]

Honest(e) ==
    /\ e.graceRunning => e.wantsTunnel /\ e.policy = "BLOCK"
    /\ e.status = "CONNECTED" => e.policy = "TUNNEL"
    /\ e.status = "UNPROTECTED" =>
          e.policy = "DIRECT" /\ e.wantsTunnel /\ e.killSwitchMode = "SOFT"
    /\ e.status = "NO_NETWORK" => e.policy = "BLOCK"

Sound(e) == e \in EngineState /\ Honest(e)

Permitted(e, f) ==
    /\ e.policy # "DIRECT" /\ f.policy = "DIRECT" =>
          \/ f.status = "DISCONNECTED" /\ ~f.wantsTunnel
          \/ e.killSwitchMode = "SOFT" /\ f.status \in {"UNPROTECTED", "FAILED"}
    /\ e.status = "CONNECTED" /\ f.status = "CONNECTED" => f.mtu = e.mtu

-----------------------------------------------------------------------------
(***************************************************************************)
(* The ladders                                                             *)
(***************************************************************************)
Below == {p \in Nat \X Nat : p[1] < p[2]}

\* First finds an index whenever there is one to find (indexOfFirst).
LEMMA FirstIsLeast ==
    ASSUME NEW I \in SUBSET Nat, I # {}
    PROVE  First(I) \in I /\ \A j \in I : First(I) <= j
<1>1. IsWellFoundedOn(Below, Nat)
  BY NatLessThanWellFounded, Zenon DEF OpToRel, Below
<1>2. PICK i \in I : \A j \in I : <<j, i>> \notin Below
  BY <1>1, WFMin, Zenon
<1>3. \A j \in I : i <= j
  <2> SUFFICES ASSUME NEW j \in I, j < i PROVE FALSE
    OBVIOUS
  <2>1. <<j, i>> \in Below
    BY DEF Below
  <2> QED
    BY <1>2, <2>1
<1> QED
  BY <1>3 DEF First

\* The MTU ladder starts at its maximum and ends at its minimum.
LEMMA LadderBounds ==
    /\ Len(LADDER) \in Nat \ {0}
    /\ \A i \in 1 .. Len(LADDER) : LADDER[i] \in Mtus
    /\ MIN_MTU \in Nat /\ MAX_MTU \in Nat /\ MIN_MTU \in Mtus /\ MAX_MTU \in Mtus
    /\ SAFE_MTU \in Mtus
<1>1. Len(LADDER) \in Nat \ {0} /\ \A i \in 1 .. Len(LADDER) : LADDER[i] \in Nat
  BY LadderAssumption
<1>2. ASSUME NEW i \in 1 .. Len(LADDER)
      PROVE  LADDER[Len(LADDER)] <= LADDER[i] /\ LADDER[i] <= LADDER[1]
  BY <1>1, LadderAssumption
<1> QED
  BY <1>1, <1>2, LadderAssumption DEF MIN_MTU, MAX_MTU, Mtus

\* One rung up from any MTU in range, on a rung or not, is in range.
LEMMA RungUpInRange ==
    ASSUME NEW m \in Mtus PROVE RungUp(m) \in Mtus
<1>1. CASE RungsAtMost(m) = {} \/ First(RungsAtMost(m)) = 1
  BY <1>1, LadderBounds DEF RungUp
<1>2. CASE RungsAtMost(m) # {} /\ First(RungsAtMost(m)) # 1
  <2>1. First(RungsAtMost(m)) \in 1 .. Len(LADDER)
    BY <1>2, FirstIsLeast DEF RungsAtMost
  <2>2. First(RungsAtMost(m)) - 1 \in 1 .. Len(LADDER)
    BY <1>2, <2>1, LadderBounds
  <2> QED
    BY <1>2, <2>2, LadderBounds DEF RungUp
<1> QED
  BY <1>1, <1>2

\* So is one rung down.
LEMMA RungDownInRange ==
    ASSUME NEW m \in Mtus PROVE RungDown(m) \in Mtus
<1>1. CASE RungsAtMost(m) = {} \/ First(RungsAtMost(m)) = Len(LADDER)
  BY <1>1, LadderBounds DEF RungDown
<1>2. CASE RungsAtMost(m) # {} /\ First(RungsAtMost(m)) # Len(LADDER)
  <2>1. First(RungsAtMost(m)) \in 1 .. Len(LADDER)
    BY <1>2, FirstIsLeast DEF RungsAtMost
  <2>2. First(RungsAtMost(m)) + 1 \in 1 .. Len(LADDER)
    BY <1>2, <2>1, LadderBounds
  <2> QED
    BY <1>2, <2>2, LadderBounds DEF RungDown
<1> QED
  BY <1>1, <1>2

\* Whatever MTU a config asks for, the one used is in range.
LEMMA MtuForInRange ==
    ASSUME NEW e \in EngineState, NEW n \in Networks, e.config # Nil
    PROVE  mtuFor(e, n) \in Mtus
<1>1. e.config \in Configs /\ e.mtuOn[n] \in Mtus \cup {Nil}
  BY DEF EngineState
<1>2. ConfigMtu[e.config] \in Nat
  BY <1>1, ConfigAssumption
<1>3. coerceIn(ConfigMtu[e.config], MIN_MTU, MAX_MTU) \in Mtus
  BY <1>2, LadderBounds DEF coerceIn, Mtus
<1> QED
  BY <1>1, <1>3 DEF mtuFor

\* A rung of a config's ladder is a fallback.
LEMMA RungIsFallback ==
    ASSUME NEW c \in Configs, NEW i \in 1 .. Len(Transports[c])
    PROVE  Rung(c, i) \in Fallback
<1>1. Transports[c] \in Seq(TransportNames)
  BY ConfigAssumption
<1>2. Transports[c][i] \in TransportNames
  BY <1>1
<1> QED
  BY <1>2 DEF Rung, Fallback

\* A config's ladder is never empty, so it has a first rung.
LEMMA FirstRung ==
    ASSUME NEW c \in Configs PROVE Len(Transports[c]) \in Nat /\ 1 \in 1 .. Len(Transports[c])
BY ConfigAssumption

\* The preferred transport is a rung of the config in use.
LEMMA PreferredIsFallback ==
    ASSUME NEW e \in EngineState, NEW n, e.config # Nil
    PROVE  preferred(e, n) \in Fallback
<1> DEFINE c == e.config
           I == IF n = Nil THEN {} ELSE RungsWith(c, e.transportOn[n])
<1>1. c \in Configs
  BY DEF EngineState
<1>2. I \in SUBSET (1 .. Len(Transports[c]))
  BY DEF RungsWith
<1>3. CASE I = {}
  BY <1>1, <1>3, FirstRung, RungIsFallback DEF preferred
<1>4. CASE I # {}
  <2>1. I \in SUBSET Nat
    BY <1>1, <1>2, FirstRung
  <2>2. First(I) \in 1 .. Len(Transports[c])
    BY <1>2, <1>4, <2>1, FirstIsLeast
  <2>3. Rung(c, First(I)) \in Fallback
    BY <1>1, <2>2, RungIsFallback
  <2> QED
    BY <1>4, <2>3 DEF preferred
<1> QED
  BY <1>3, <1>4

\* The next rung, wrapping around, is a rung too.
LEMMA NextRungIsFallback ==
    ASSUME NEW c \in Configs, NEW f PROVE NextRung(c, f) \in Fallback
<1> DEFINE I == RungsWith(c, f.transport)
<1>1. CASE I = {} \/ First(I) = Len(Transports[c])
  BY <1>1, FirstRung, RungIsFallback DEF NextRung
<1>2. CASE I # {} /\ First(I) # Len(Transports[c])
  <2>1. I \in SUBSET Nat /\ I \in SUBSET (1 .. Len(Transports[c]))
    BY FirstRung DEF RungsWith
  <2>2. First(I) \in 1 .. Len(Transports[c])
    BY <1>2, <2>1, FirstIsLeast
  <2>3. First(I) + 1 \in 1 .. Len(Transports[c])
    BY <1>2, <2>2, FirstRung
  <2> QED
    BY <1>2, <2>3, RungIsFallback DEF NextRung
<1> QED
  BY <1>1, <1>2

-----------------------------------------------------------------------------
(***************************************************************************)
(* What the helpers do to a record                                         *)
(***************************************************************************)
Safe(e, result) == Sound(result.engine) /\ Permitted(e, result.engine)

\* A failure moves the failure count and the fallback, and nothing else.
LEMMA LadderFailedState ==
    ASSUME NEW e \in EngineState, e.config # Nil, NEW f \in Fallback
    PROVE  \E k \in 0 .. FAILURES_BEFORE_FALLBACK - 1, g \in Fallback :
              LadderFailed(e, f) = [e EXCEPT !.failures = k, !.currentFallback = g]
<1>1. e.config \in Configs /\ e.failures \in {0, 1}
  BY DEF EngineState, FAILURES_BEFORE_FALLBACK
<1>2. NextRung(e.config, f) \in Fallback
  BY <1>1, NextRungIsFallback
<1>3. CASE e.failures = 0
  <2>1. LadderFailed(e, f) = [e EXCEPT !.failures = 1, !.currentFallback = f]
    BY <1>3 DEF LadderFailed, FAILURES_BEFORE_FALLBACK, EngineState
  <2>2. 1 \in 0 .. FAILURES_BEFORE_FALLBACK - 1
    BY DEF FAILURES_BEFORE_FALLBACK
  <2> QED
    BY <2>1, <2>2, Zenon
<1>4. CASE e.failures = 1
  <2>1. LadderFailed(e, f) = [e EXCEPT !.failures = 0,
                                       !.currentFallback = NextRung(e.config, f)]
    BY <1>4 DEF LadderFailed, FAILURES_BEFORE_FALLBACK
  <2>2. 0 \in 0 .. FAILURES_BEFORE_FALLBACK - 1
    BY DEF FAILURES_BEFORE_FALLBACK
  <2> QED
    BY <1>2, <2>1, <2>2, Zenon
<1> QED
  BY <1>1, <1>3, <1>4

\* A success resets the failure count and teaches the memory, and nothing else.
LEMMA LadderWorkedState ==
    ASSUME NEW e \in EngineState
    PROVE  \E k \in 0 .. FAILURES_BEFORE_FALLBACK - 1,
              t \in [Networks -> TransportNames \cup {Nil}] :
              LadderWorked(e) = [e EXCEPT !.failures = k, !.transportOn = t]
<1>1. CASE e.currentFallback = Nil
  <2>1. LadderWorked(e) = [e EXCEPT !.failures = e.failures, !.transportOn = e.transportOn]
    BY <1>1 DEF LadderWorked, EngineState
  <2>2. /\ e.failures \in 0 .. FAILURES_BEFORE_FALLBACK - 1
        /\ e.transportOn \in [Networks -> TransportNames \cup {Nil}]
    BY DEF EngineState
  <2> QED
    BY <2>1, <2>2, Zenon
<1>2. CASE e.currentFallback # Nil
  <2> DEFINE t == [n \in Networks |->
                     IF n = e.network THEN e.currentFallback.transport ELSE e.transportOn[n]]
  <2>1. e.currentFallback.transport \in TransportNames
    BY <1>2 DEF EngineState, Fallback
  <2>2. t \in [Networks -> TransportNames \cup {Nil}]
    BY <2>1 DEF EngineState
  <2>3. LadderWorked(e) = [e EXCEPT !.failures = 0, !.transportOn = t]
    BY <1>2 DEF LadderWorked
  <2>4. 0 \in 0 .. FAILURES_BEFORE_FALLBACK - 1
    BY DEF FAILURES_BEFORE_FALLBACK
  <2> HIDE DEF t
  <2> QED
    BY <2>2, <2>3, <2>4, Zenon
<1> QED
  BY <1>1, <1>2

\* A fresh attempt on a network holds traffic, with the window running.
LEMMA AttemptIsSafe ==
    ASSUME NEW e, e \in EngineState, e.wantsTunnel, e.config # Nil,
           NEW n \in Networks, NEW status \in {"CONNECTING", "RECONNECTING"}
    PROVE  /\ Sound(Attempt(e, n, status).engine)
           /\ Attempt(e, n, status).engine.policy = "BLOCK"
           /\ Attempt(e, n, status).engine.status = status
<1>1. preferred(e, n) \in Fallback /\ mtuFor(e, n) \in Mtus
  BY PreferredIsFallback, MtuForInRange
<1> DEFINE f == [e EXCEPT !.status = status, !.policy = "BLOCK",
                          !.currentFallback = preferred(e, n), !.mtu = mtuFor(e, n)]
           g == [f EXCEPT !.graceRunning = @ \/ TRUE]
<1>2. Attempt(e, n, status).engine = g
  BY DEF Attempt, startTunnelActions, Returns
<1>3. f \in EngineState /\ f.status = status /\ f.policy = "BLOCK" /\ f.wantsTunnel
  BY <1>1 DEF EngineState, Statuses, Policies
<1> HIDE DEF f
<1>4. g \in EngineState /\ g.status = status /\ g.policy = "BLOCK" /\ g.wantsTunnel
  BY <1>3 DEF EngineState
<1> HIDE DEF g
<1> QED
  BY <1>2, <1>4 DEF Sound, Honest

\* Without a network, traffic is held.
LEMMA HoldIsSafe ==
    ASSUME NEW e, Sound(e)
    PROVE  Safe(e, holdWithoutNetwork(e))
<1> DEFINE f == [e EXCEPT !.status = "NO_NETWORK", !.policy = "BLOCK"]
<1>1. holdWithoutNetwork(e).engine = f
  BY DEF holdWithoutNetwork, Returns
<1>2. f \in EngineState
  BY DEF Sound, EngineState, Statuses, Policies
<1>3. f.status = "NO_NETWORK" /\ f.policy = "BLOCK" /\ f.wantsTunnel = e.wantsTunnel
      /\ f.graceRunning = e.graceRunning
  BY DEF Sound, EngineState
<1> HIDE DEF f
<1> QED
  BY <1>1, <1>2, <1>3 DEF Safe, Sound, Honest, Permitted

-----------------------------------------------------------------------------
(***************************************************************************)
(* The handlers                                                            *)
(***************************************************************************)

\* A record that stays as it is, is safe.
LEMMA SameIsSafe ==
    ASSUME NEW e, Sound(e), NEW do
    PROVE  Safe(e, Returns(e, do))
BY DEF Safe, Returns, Permitted

\* onConnectRequested: asks for a config, holds without a network, or attempts.
LEMMA ConnectIsSafe ==
    ASSUME NEW e, Sound(e) PROVE Safe(e, onConnectRequested(e))
<1> DEFINE w == [e EXCEPT !.wantsTunnel = TRUE]
<1>1. /\ Sound(w) /\ w.wantsTunnel /\ w.policy = e.policy /\ w.status = e.status
      /\ w.mtu = e.mtu /\ w.killSwitchMode = e.killSwitchMode
      /\ w.network = e.network /\ w.config = e.config
  BY DEF Sound, EngineState, Honest
<1>2. CASE e.config = Nil
  <2> DEFINE f == [w EXCEPT !.status = "CONNECTING"]
  <2>1. onConnectRequested(e).engine = f
    BY <1>2 DEF onConnectRequested, Refresh, Returns
  <2> HIDE DEF w
  <2>2. f \in EngineState /\ f.status = "CONNECTING" /\ f.policy = w.policy
        /\ f.wantsTunnel = w.wantsTunnel /\ f.graceRunning = w.graceRunning
    BY <1>1 DEF Sound, EngineState, Statuses
  <2> HIDE DEF f
  <2> QED
    BY <1>1, <2>1, <2>2 DEF Safe, Sound, Honest, Permitted
<1>3. CASE e.config # Nil /\ e.network = Nil
  <2>1. onConnectRequested(e) = holdWithoutNetwork(w)
    BY <1>3 DEF onConnectRequested
  <2> HIDE DEF w
  <2>2. Safe(w, holdWithoutNetwork(w))
    BY <1>1, HoldIsSafe
  <2> QED
    BY <1>1, <2>1, <2>2 DEF Safe, Permitted
<1>4. CASE e.config # Nil /\ e.network # Nil
  <2>1. onConnectRequested(e) = Attempt(w, e.network, "CONNECTING")
    BY <1>4 DEF onConnectRequested
  <2>2. e.network \in Networks
    BY <1>4 DEF Sound, EngineState
  <2> HIDE DEF w
  <2> QED
    BY <1>1, <1>4, <2>1, <2>2, AttemptIsSafe DEF Safe, Sound, Permitted
<1> QED
  BY <1>2, <1>3, <1>4

\* onDisconnectRequested: traffic is released because the user said so.
LEMMA DisconnectIsSafe ==
    ASSUME NEW e, Sound(e) PROVE Safe(e, onDisconnectRequested(e))
<1> DEFINE f == [e EXCEPT !.wantsTunnel = FALSE, !.graceRunning = FALSE,
                          !.currentFallback = Nil, !.status = "DISCONNECTED",
                          !.policy = "DIRECT", !.mtu = SAFE_MTU]
<1>1. onDisconnectRequested(e).engine = f
  BY DEF onDisconnectRequested, Returns
<1>2. f \in EngineState /\ f.status = "DISCONNECTED" /\ ~f.wantsTunnel /\ ~f.graceRunning
  BY LadderBounds DEF Sound, EngineState, Statuses, Policies
<1> HIDE DEF f
<1> QED
  BY <1>1, <1>2 DEF Safe, Sound, Honest, Permitted

\* onNetworkAvailable: only the network changes, or a fresh attempt is made.
LEMMA NetworkAvailableIsSafe ==
    ASSUME NEW e, Sound(e), NEW n \in Networks PROVE Safe(e, onNetworkAvailable(e, n))
<1> DEFINE on == [e EXCEPT !.network = n]
<1>1. /\ Sound(on) /\ Permitted(e, on) /\ on.wantsTunnel = e.wantsTunnel /\ on.config = e.config
  BY DEF Sound, EngineState, Honest, Permitted
<1>2. CASE onNetworkAvailable(e, n).engine = on
  BY <1>1, <1>2 DEF Safe
<1>3. CASE onNetworkAvailable(e, n).engine # on
  <2> DEFINE s == IF e.status = "NO_NETWORK" THEN "CONNECTING" ELSE "RECONNECTING"
             z == [on EXCEPT !.failures = 0]
  <2>1. e.wantsTunnel /\ e.config # Nil /\ onNetworkAvailable(e, n) = Attempt(z, n, s)
    BY <1>3 DEF onNetworkAvailable, Returns, Refresh
  <2>2. z \in EngineState /\ z.wantsTunnel /\ z.config # Nil
    <3> HIDE DEF on
    <3>1. 0 \in 0 .. FAILURES_BEFORE_FALLBACK - 1
      BY DEF FAILURES_BEFORE_FALLBACK
    <3>2. z \in EngineState /\ z.wantsTunnel = on.wantsTunnel /\ z.config = on.config
      BY <1>1, <3>1 DEF Sound, EngineState
    <3> QED
      BY <1>1, <2>1, <3>2
  <2>3. s \in {"CONNECTING", "RECONNECTING"}
    OBVIOUS
  <2> HIDE DEF z, s
  <2> QED
    BY <2>1, <2>2, <2>3, AttemptIsSafe DEF Safe, Permitted
<1> QED
  BY <1>2, <1>3

\* onNetworkLost: traffic is held, the window is closed.
LEMMA NetworkLostIsSafe ==
    ASSUME NEW e, Sound(e) PROVE Safe(e, onNetworkLost(e))
<1> DEFINE s == IF e.wantsTunnel THEN "NO_NETWORK" ELSE "DISCONNECTED"
           f == [e EXCEPT !.status = s, !.policy = "BLOCK", !.network = Nil,
                          !.graceRunning = FALSE]
<1>1. onNetworkLost(e).engine = f
  BY DEF onNetworkLost, Returns
<1>2. s \in {"NO_NETWORK", "DISCONNECTED"}
  OBVIOUS
<1> HIDE DEF s
<1>3. f \in EngineState /\ f.status = s /\ f.policy = "BLOCK" /\ ~f.graceRunning
  BY <1>2 DEF Sound, EngineState, Statuses, Policies
<1> HIDE DEF f
<1> QED
  BY <1>1, <1>2, <1>3 DEF Safe, Sound, Honest, Permitted

\* onEstablished: connected and tunnelled together, the window closed.
LEMMA EstablishedIsSafe ==
    ASSUME NEW e, Sound(e) PROVE Safe(e, onEstablished(e))
<1>1. PICK k \in 0 .. FAILURES_BEFORE_FALLBACK - 1, t \in [Networks -> TransportNames \cup {Nil}] :
         LadderWorked(e) = [e EXCEPT !.failures = k, !.transportOn = t]
  BY LadderWorkedState DEF Sound
<1> DEFINE w == [e EXCEPT !.failures = k, !.transportOn = t]
           f == [w EXCEPT !.graceRunning = FALSE, !.status = "CONNECTED", !.policy = "TUNNEL"]
<1>2. onEstablished(e).engine = f
  BY <1>1 DEF onEstablished, Returns
<1>3. w \in EngineState /\ w.mtu = e.mtu
  BY DEF Sound, EngineState
<1> HIDE DEF w
<1>4. f \in EngineState /\ f.status = "CONNECTED" /\ f.policy = "TUNNEL"
      /\ ~f.graceRunning /\ f.mtu = w.mtu
  BY <1>3 DEF EngineState, Statuses, Policies
<1> HIDE DEF f
<1> QED
  BY <1>2, <1>3, <1>4 DEF Safe, Sound, Honest, Permitted

\* onFailed, terminal: traffic is released in soft mode only, with status FAILED.
LEMMA TerminalIsSafe ==
    ASSUME NEW e, Sound(e) PROVE Safe(e, onTerminal(e))
<1> DEFINE p == IF e.killSwitchMode = "STRICT" THEN "BLOCK" ELSE "DIRECT"
           f == [e EXCEPT !.wantsTunnel = FALSE, !.graceRunning = FALSE,
                          !.status = "FAILED", !.policy = p]
<1>1. onTerminal(e).engine = f
  BY DEF onTerminal, Returns
<1>2. p \in Policies /\ (p = "DIRECT" => e.killSwitchMode = "SOFT")
  BY DEF Sound, EngineState, KillSwitchMode, Policies
<1> HIDE DEF p
<1>3. f \in EngineState /\ f.status = "FAILED" /\ f.policy = p /\ ~f.graceRunning
  BY <1>2 DEF Sound, EngineState, Statuses
<1> HIDE DEF f
<1> QED
  BY <1>1, <1>2, <1>3 DEF Safe, Sound, Honest, Permitted

\* onFailed, otherwise: told "unprotected" nothing moves; else traffic is held.
LEMMA AttemptFailedIsSafe ==
    ASSUME NEW e, Sound(e), NEW rejected \in BOOLEAN
    PROVE  Safe(e, onAttemptFailed(e, rejected))
<1> DEFINE told == e.status = "UNPROTECTED"
           hold == ~e.graceRunning /\ ~told
           prev == FallbackOr(e, e.network)
<1>1. CASE ~e.wantsTunnel \/ e.config = Nil
  BY <1>1, SameIsSafe DEF onAttemptFailed, Refresh
<1>2. CASE e.wantsTunnel /\ e.config # Nil
  <2>1. prev \in Fallback
    BY <1>2, PreferredIsFallback DEF Sound, FallbackOr, EngineState
  <2>2. PICK k \in 0 .. FAILURES_BEFORE_FALLBACK - 1, g \in Fallback :
           LadderFailed(e, prev) = [e EXCEPT !.failures = k, !.currentFallback = g]
    BY <1>2, <2>1, LadderFailedState DEF Sound
  <2> DEFINE w == [e EXCEPT !.failures = k, !.currentFallback = g]
             f == [w EXCEPT !.status = IF told THEN @ ELSE "RECONNECTING",
                            !.policy = IF hold THEN "BLOCK" ELSE @,
                            !.graceRunning = @ \/ hold]
  <2>3. onAttemptFailed(e, rejected).engine = f
    BY <1>2, <2>2 DEF onAttemptFailed, Returns
  <2>4. /\ w \in EngineState /\ w.mtu = e.mtu /\ w.status = e.status /\ w.policy = e.policy
        /\ w.graceRunning = e.graceRunning /\ w.wantsTunnel = e.wantsTunnel
        /\ w.killSwitchMode = e.killSwitchMode
    BY DEF Sound, EngineState
  <2> HIDE DEF w
  <2>5. CASE told
    <3>1. ~e.graceRunning /\ ~hold
      BY <2>5 DEF Sound, Honest
    <3>2. f = w
      BY <2>4, <2>5, <3>1 DEF EngineState
    <3> HIDE DEF f
    <3>3. Sound(w) /\ Permitted(e, w)
      BY <2>4 DEF Sound, Honest, Permitted
    <3> QED
      BY <2>3, <3>2, <3>3 DEF Safe
  <2>6. CASE ~told
    <3>1. hold \/ e.policy = "BLOCK"
      BY <2>6 DEF Sound, Honest
    <3>2. f = [w EXCEPT !.status = "RECONNECTING", !.policy = "BLOCK", !.graceRunning = TRUE]
      BY <2>4, <2>6, <3>1 DEF EngineState
    <3>3. f \in EngineState /\ f.status = "RECONNECTING" /\ f.policy = "BLOCK" /\ f.wantsTunnel
      BY <1>2, <2>4, <3>2 DEF EngineState, Statuses, Policies
    <3> HIDE DEF f
    <3> QED
      BY <2>3, <3>3 DEF Safe, Sound, Honest, Permitted
  <2> QED
    BY <2>5, <2>6
<1> QED
  BY <1>1, <1>2

\* onRetry: policy, status and window stay, or traffic is held without a network.
LEMMA RetryIsSafe ==
    ASSUME NEW e, Sound(e) PROVE Safe(e, onRetry(e))
<1>1. CASE ~e.wantsTunnel \/ e.config = Nil
  BY <1>1, SameIsSafe DEF onRetry, Refresh
<1>2. CASE e.wantsTunnel /\ e.config # Nil /\ e.network = Nil
  BY <1>2, HoldIsSafe DEF onRetry
<1>3. CASE e.wantsTunnel /\ e.config # Nil /\ e.network # Nil
  <2> DEFINE w == [e EXCEPT !.currentFallback = FallbackOr(e, e.network)]
             f == [w EXCEPT !.graceRunning = @ \/ FALSE]
  <2>1. onRetry(e).engine = f
    BY <1>3 DEF onRetry, startTunnelActions, Returns
  <2>2. FallbackOr(e, e.network) \in Fallback
    BY <1>3, PreferredIsFallback DEF Sound, FallbackOr, EngineState
  <2>3. Sound(w) /\ Permitted(e, w)
    BY <2>2 DEF Sound, EngineState, Honest, Permitted
  <2> HIDE DEF w
  <2>4. f = w
    BY <2>3 DEF Sound, EngineState
  <2> QED
    BY <2>1, <2>3, <2>4 DEF Safe
<1> QED
  BY <1>1, <1>2, <1>3

\* onGraceExpired: the window closes; soft mode releases and says so.
LEMMA GraceExpiredIsSafe ==
    ASSUME NEW e, Sound(e) PROVE Safe(e, onGraceExpired(e))
<1> DEFINE over == [e EXCEPT !.graceRunning = FALSE]
<1>1. /\ over \in EngineState /\ ~over.graceRunning /\ over.status = e.status
      /\ over.policy = e.policy /\ over.wantsTunnel = e.wantsTunnel
      /\ over.killSwitchMode = e.killSwitchMode /\ over.mtu = e.mtu
  BY DEF Sound, EngineState
<1>2. CASE ~e.wantsTunnel \/ e.status = "CONNECTED"
  <2>1. onGraceExpired(e).engine = over
    BY <1>2 DEF onGraceExpired, Returns
  <2> HIDE DEF over
  <2> QED
    BY <1>1, <2>1 DEF Safe, Sound, Honest, Permitted
<1>3. CASE e.wantsTunnel /\ e.status # "CONNECTED" /\ e.killSwitchMode = "SOFT"
  <2> DEFINE f == [over EXCEPT !.status = "UNPROTECTED", !.policy = "DIRECT"]
  <2>1. onGraceExpired(e).engine = f
    BY <1>3 DEF onGraceExpired, Returns
  <2> HIDE DEF over
  <2>2. /\ f \in EngineState /\ f.status = "UNPROTECTED" /\ f.policy = "DIRECT"
        /\ ~f.graceRunning /\ f.wantsTunnel = over.wantsTunnel
        /\ f.killSwitchMode = over.killSwitchMode
    BY <1>1 DEF EngineState, Statuses, Policies
  <2> HIDE DEF f
  <2> QED
    BY <1>1, <1>3, <2>1, <2>2 DEF Safe, Sound, Honest, Permitted
<1>4. CASE e.wantsTunnel /\ e.status # "CONNECTED" /\ e.killSwitchMode # "SOFT"
  <2> DEFINE f == [over EXCEPT !.policy = "BLOCK"]
  <2>1. onGraceExpired(e).engine = f
    BY <1>4 DEF onGraceExpired, Returns
  <2> HIDE DEF over
  <2>2. /\ f \in EngineState /\ f.status = over.status /\ f.policy = "BLOCK"
        /\ ~f.graceRunning
    BY <1>1 DEF EngineState, Policies
  <2> HIDE DEF f
  <2> QED
    BY <1>1, <1>4, <2>1, <2>2 DEF Safe, Sound, Honest, Permitted
<1> QED
  BY <1>2, <1>3, <1>4

\* Remembering an MTU in range keeps the memory's type, and nothing else moves.
LEMMA RememberingIsSound ==
    ASSUME NEW e, Sound(e), e.network # Nil, NEW m \in Mtus
    PROVE  LET f == [e EXCEPT !.mtuOn = Remembering(e, m)]
           IN  /\ Sound(f) /\ f.mtu = e.mtu /\ f.policy = e.policy /\ f.status = e.status
               /\ f.currentFallback = e.currentFallback
<1>1. Remembering(e, m) \in [Networks -> Mtus \cup {Nil}]
  BY DEF Remembering, Sound, EngineState
<1> QED
  BY <1>1 DEF Sound, EngineState, Honest

\* onStable: only the memory learns.
LEMMA StableIsSafe ==
    ASSUME NEW e, Sound(e) PROVE Safe(e, onStable(e))
<1>1. CASE e.network = Nil
  BY <1>1, SameIsSafe DEF onStable
<1>2. CASE e.network # Nil
  <2>1. RungUp(e.mtu) \in Mtus
    BY RungUpInRange DEF Sound, EngineState
  <2>2. onStable(e).engine = [e EXCEPT !.mtuOn = Remembering(e, RungUp(e.mtu))]
    BY <1>2 DEF onStable, Returns
  <2> QED
    BY <1>2, <2>1, <2>2, RememberingIsSound DEF Safe, Permitted
<1> QED
  BY <1>1, <1>2

\* onStalled: the memory learns, and a lower MTU means reconnecting.
LEMMA StalledIsSafe ==
    ASSUME NEW e, Sound(e) PROVE Safe(e, onStalled(e))
<1> DEFINE lower   == RungDown(e.mtu)
           learned == IF e.network = Nil THEN e ELSE [e EXCEPT !.mtuOn = Remembering(e, lower)]
           stepped == [learned EXCEPT !.status = "RECONNECTING", !.mtu = lower]
<1>1. lower \in Mtus
  BY RungDownInRange DEF Sound, EngineState
<1>2. onStalled(e).engine \in {learned, stepped}
  BY DEF onStalled, Returns
<1> HIDE DEF lower
<1>3. Sound(learned) /\ learned.mtu = e.mtu /\ learned.policy = e.policy /\ learned.status = e.status
  BY <1>1, RememberingIsSound
<1> HIDE DEF learned
<1>4. /\ stepped \in EngineState /\ stepped.status = "RECONNECTING"
      /\ stepped.policy = learned.policy /\ stepped.wantsTunnel = learned.wantsTunnel
      /\ stepped.graceRunning = learned.graceRunning
  BY <1>1, <1>3 DEF Sound, EngineState, Statuses
<1> HIDE DEF stepped
<1>5. Sound(stepped)
  BY <1>3, <1>4 DEF Sound, Honest
<1> QED
  BY <1>2, <1>3, <1>4, <1>5 DEF Safe, Permitted

-----------------------------------------------------------------------------
(***************************************************************************)
(* The engine fed any event                                                *)
(***************************************************************************)
EngineInv == EngineTypeOK /\ GraceHoldsTraffic /\ HonestStatus

\* The invariant, in terms of the variable, is soundness of its value.
LEMMA InvIsSoundness ==
    (EngineInv <=> Sound(engine)) /\ (EngineInv' <=> Sound(engine'))
BY DEF EngineInv, EngineTypeOK, GraceHoldsTraffic, HonestStatus, Sound, EngineState, Honest

\* A new engine, with or without a cached config, is sound.
LEMMA InitIsSound ==
    ASSUME NEW mode \in KillSwitchMode, NEW c \in Configs \cup {Nil}
    PROVE  Sound(NewEngine(mode, c))
<1>1. /\ SAFE_MTU \in Mtus /\ 0 \in 0 .. FAILURES_BEFORE_FALLBACK - 1
      /\ [n \in Networks |-> Nil] \in [Networks -> TransportNames \cup {Nil}]
      /\ [n \in Networks |-> Nil] \in [Networks -> Mtus \cup {Nil}]
  BY LadderBounds DEF FAILURES_BEFORE_FALLBACK
<1>2. NewEngine(mode, c) \in EngineState
  BY <1>1 DEF NewEngine, EngineState, Statuses, Policies
<1>3. Honest(NewEngine(mode, c))
  BY DEF NewEngine, Honest
<1> QED
  BY <1>2, <1>3 DEF Sound

\* A new config changes no field the properties speak of.
LEMMA UpdateConfigIsSafe ==
    ASSUME NEW e, Sound(e), NEW c \in Configs
    PROVE  LET f == [e EXCEPT !.config = c] IN Sound(f) /\ Permitted(e, f)
BY DEF Sound, EngineState, Honest, Permitted

\* Every event leaves the engine sound, by a permitted step.
LEMMA NextIsSafe ==
    ASSUME Sound(engine), EngineNext
    PROVE  Sound(engine') /\ Permitted(engine, engine')
<1>1. CASE Becomes(onConnectRequested(engine))
  BY <1>1, ConnectIsSafe DEF Becomes, Safe
<1>2. CASE Becomes(onDisconnectRequested(engine))
  BY <1>2, DisconnectIsSafe DEF Becomes, Safe
<1>3. CASE \E n \in Networks : Becomes(onNetworkAvailable(engine, n))
  BY <1>3, NetworkAvailableIsSafe DEF Becomes, Safe
<1>4. CASE Becomes(onNetworkLost(engine))
  BY <1>4, NetworkLostIsSafe DEF Becomes, Safe
<1>5. CASE Becomes(onEstablished(engine))
  BY <1>5, EstablishedIsSafe DEF Becomes, Safe
<1>6. CASE Becomes(onTerminal(engine))
  BY <1>6, TerminalIsSafe DEF Becomes, Safe
<1>7. CASE \E rejected \in BOOLEAN : Becomes(onAttemptFailed(engine, rejected))
  BY <1>7, AttemptFailedIsSafe DEF Becomes, Safe
<1>8. CASE Becomes(onRetry(engine))
  BY <1>8, RetryIsSafe DEF Becomes, Safe
<1>9. CASE Becomes(onGraceExpired(engine))
  BY <1>9, GraceExpiredIsSafe DEF Becomes, Safe
<1>10. CASE Becomes(onStable(engine))
  BY <1>10, StableIsSafe DEF Becomes, Safe
<1>11. CASE Becomes(onStalled(engine))
  BY <1>11, StalledIsSafe DEF Becomes, Safe
<1>12. CASE \E c \in Configs : updateConfig(c)
  BY <1>12, UpdateConfigIsSafe DEF updateConfig
<1> QED
  BY <1>1, <1>2, <1>3, <1>4, <1>5, <1>6, <1>7, <1>8, <1>9, <1>10, <1>11, <1>12 DEF EngineNext

\* The inductive invariant: types, the grace window and an honest status, all
\* together, in every state the engine reaches under any order of events.
THEOREM EngineCorrect == EngineSpec => []EngineInv
<1>1. EngineInit => EngineInv
  BY InitIsSound, InvIsSoundness DEF EngineInit
<1>2. EngineInv /\ [EngineNext]_engine => EngineInv'
  <2> SUFFICES ASSUME EngineInv, [EngineNext]_engine PROVE EngineInv'
    OBVIOUS
  <2>1. Sound(engine)
    BY InvIsSoundness
  <2>2. CASE EngineNext
    BY <2>1, <2>2, NextIsSafe, InvIsSoundness
  <2>3. CASE UNCHANGED engine
    BY <2>1, <2>3, InvIsSoundness
  <2> QED
    BY <2>2, <2>3
<1> QED
  BY <1>1, <1>2, PTL DEF EngineSpec

\* Every MTU the engine uses or remembers is between the ends of the ladder,
\* whatever MTUs the configs ask for, and its other fields are of their types.
THEOREM MtuStaysInRange == EngineSpec => []EngineTypeOK
<1>1. EngineInv => EngineTypeOK
  BY DEF EngineInv
<1> QED
  BY <1>1, EngineCorrect, PTL

\* While the grace window runs, a tunnel is wanted and traffic is held.
THEOREM GraceWindowHoldsTraffic == EngineSpec => []GraceHoldsTraffic
<1>1. EngineInv => GraceHoldsTraffic
  BY DEF EngineInv
<1> QED
  BY <1>1, EngineCorrect, PTL

\* The status shown to the user is true of the traffic policy.
THEOREM StatusIsHonest == EngineSpec => []HonestStatus
<1>1. EngineInv => HonestStatus
  BY DEF EngineInv
<1> QED
  BY <1>1, EngineCorrect, PTL

\* Traffic is released only by the user's own disconnect, or in soft mode with
\* the user told.
THEOREM ReleaseIsAnnounced == EngineSpec => ReleasedOnlyWhenTold
<1> DEFINE Told == engine.policy # "DIRECT" /\ engine'.policy = "DIRECT" =>
          \/ engine'.status = "DISCONNECTED" /\ ~engine'.wantsTunnel
          \/ engine.killSwitchMode = "SOFT" /\ engine'.status \in {"UNPROTECTED", "FAILED"}
<1>1. EngineInv /\ [EngineNext]_engine => [Told]_engine
  BY NextIsSafe, InvIsSoundness DEF Permitted
<1> QED
  BY <1>1, EngineCorrect, PTL DEF EngineSpec, ReleasedOnlyWhenTold

\* A tunnel that stays connected keeps its MTU.
THEOREM ConnectedMtuIsKept == EngineSpec => MtuKeptWhileConnected
<1> DEFINE Kept == engine.status = "CONNECTED" /\ engine'.status = "CONNECTED" =>
                      engine'.mtu = engine.mtu
<1>1. EngineInv /\ [EngineNext]_engine => [Kept]_engine
  BY NextIsSafe, InvIsSoundness DEF Permitted
<1> QED
  BY <1>1, EngineCorrect, PTL DEF EngineSpec, MtuKeptWhileConnected

=============================================================================
