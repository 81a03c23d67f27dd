----------------------------- MODULE EdgeAgent ------------------------------
(***************************************************************************)
(* The agent of an edge box (edge/internal/agent, edge/internal/wg), one   *)
(* wg command a step.  The handlers of concurrent requests take a mutex;   *)
(* the health check does not.  A command may fail, be killed by its        *)
(* timeout or by the caller hanging up, with or without having had its     *)
(* effect; the agent may die, and the box reboot or be reinstalled, between*)
(* any two commands.                                                       *)
(*                                                                         *)
(* A Bug_ operator is a faulty variant of the definition that follows it,  *)
(* and no behaviour uses it.                                               *)
(***************************************************************************)
EXTENDS EdgeCalls

VARIABLES
    box,        \* the running interface
    file,       \* its config file, written by wg-quick save
    handler,    \* per request served: where it is, and its local variables
    mu,         \* Agent.mu: the handler that holds it, or Nil
    before,     \* history: the interface when mu was taken
    promised    \* history: per key, what the ok answers say of it

vars == <<box, file, handler, mu, before, promised>>

\* The interface as the control plane may think of it: a handler that holds
\* the mutex has not done anything yet.
Visible == IF mu = Nil THEN box ELSE before

Atomic == INSTANCE AtomicAgent WITH box <- Visible,
                                    request <- [h \in Handlers |-> handler[h].call]

-----------------------------------------------------------------------------
Idle == [pc |-> "idle", call |-> NoCall, drop |-> {}, add |-> {}]

Pc(h) == handler[h].pc
CallOf(h) == handler[h].call
Goto(h, pc) == handler' = [handler EXCEPT ![h].pc = pc]

\* The deferred Unlock.
Answer(h) ==
    /\ handler' = [handler EXCEPT ![h] = Idle]
    /\ mu' = IF mu = h THEN Nil ELSE mu
    /\ before' = IF mu = h THEN Empty ELSE before

\* decode, and ValidateIP, come before the lock.
Receive(h, call) ==
    /\ Pc(h) = "idle"
    /\ handler' = [handler EXCEPT ![h] =
                     [Idle EXCEPT !.pc = IF call.bad = "ip" THEN "bad" ELSE "lock", !.call = call]]
    /\ UNCHANGED <<box, file, mu, before, promised>>

\* Where SetPeer, RemovePeer or Sync starts.  The first two look at the keys
\* before they run a command.
First(call) ==
    CASE call.op = "sync" -> "list"
      [] call.op # "sync" /\ call.bad = "key" -> "bad"
      [] call.op = "set" /\ call.bad # "key" ->
            IF call.replaces \in {Nil} \cup KeysOf(call.peers) THEN "set" ELSE "replace"
      [] call.op = "remove" /\ call.bad # "key" -> "remove"

\* No mutex.
Bug_Lock(h) ==
    /\ Pc(h) = "lock"
    /\ mu' = h /\ before' = box
    /\ Goto(h, First(CallOf(h)))
    /\ UNCHANGED <<box, file, promised>>

Lock(h) ==
    /\ Pc(h) = "lock" /\ mu = Nil
    /\ mu' = h /\ before' = box
    /\ Goto(h, First(CallOf(h)))
    /\ UNCHANGED <<box, file, promised>>

BadRequest(h) ==
    /\ Pc(h) = "bad"
    /\ Answer(h)
    /\ UNCHANGED <<box, file, promised>>

-----------------------------------------------------------------------------
(***************************************************************************)
(* The commands                                                            *)
(***************************************************************************)
\* Sync leaves alone every peer it finds, whatever address it has.
Bug_Missing(b, call) == {p \in Wanted(call.peers) : b[p.key] = Nil}

\* What Sync must set: the peers that are not there under their address.
Missing(b, call) == {p \in Wanted(call.peers) : b[p.key] # p.ip}

\* ListPeers without looking at the keys of the request.
Bug_List(h) ==
    /\ Pc(h) = "list"
    /\ handler' = [handler EXCEPT ![h] =
                     [@ EXCEPT !.pc = "sync", !.drop = Extra(box, CallOf(h).peers),
                               !.add = Wanted(CallOf(h).peers)]]
    /\ UNCHANGED <<box, file, mu, before, promised>>

\* ListPeers, and the keys of the request are looked at.
List(h) ==
    /\ Pc(h) = "list"
    /\ handler' = [handler EXCEPT ![h] =
                     [@ EXCEPT !.pc = IF CallOf(h).bad = "key" THEN "bad" ELSE "sync",
                               !.drop = Extra(box, CallOf(h).peers),
                               !.add = Missing(box, CallOf(h))]]
    /\ UNCHANGED <<box, file, mu, before, promised>>

SetCommand(h) ==
    /\ Pc(h) = "set"
    /\ box' = With(box, CallOf(h).peers)
    /\ Goto(h, "save")

\* The new key is set before the old one is removed.
Bug_ReplaceCommand(h) ==
    /\ Pc(h) = "replace"
    /\ box' = With(box, CallOf(h).peers)
    /\ Goto(h, "set")

ReplaceCommand(h) ==
    /\ Pc(h) = "replace"
    /\ box' = Without(box, {CallOf(h).replaces})
    /\ Goto(h, "set")

RemoveCommand(h) ==
    /\ Pc(h) = "remove"
    /\ box' = Without(box, KeysOf(CallOf(h).peers))
    /\ Goto(h, "save")

DropCommand(h) ==
    /\ Pc(h) = "sync"
    /\ \E k \in handler[h].drop :
          /\ box' = Without(box, {k})
          /\ handler' = [handler EXCEPT ![h].drop = @ \ {k}]

AddCommand(h) ==
    /\ Pc(h) = "sync" /\ handler[h].drop = {}
    /\ \E p \in handler[h].add :
          /\ box' = With(box, {p})
          /\ handler' = [handler EXCEPT ![h].add = @ \ {p}]

Command(h) ==
    /\ SetCommand(h) \/ ReplaceCommand(h) \/ RemoveCommand(h) \/ DropCommand(h) \/ AddCommand(h)
    /\ UNCHANGED <<file, mu, before, promised>>

Saving(h) ==
    \/ Pc(h) = "save"
    \/ Pc(h) = "sync" /\ handler[h].drop = {} /\ handler[h].add = {}

\* What the ok answer says.
Acknowledge(h) ==
    promised' = Kept(promised, CallOf(h), before, box)

\* save, when there was nothing to do, has nothing to write.
Bug_Save(h) ==
    /\ Saving(h)
    /\ file' = IF box = before THEN file ELSE box
    /\ Acknowledge(h)
    /\ Answer(h)
    /\ UNCHANGED box

\* wg-quick save, the last command of every handler, and the answer.
Save(h) ==
    /\ Saving(h)
    /\ file' = box
    /\ Acknowledge(h)
    /\ Answer(h)
    /\ UNCHANGED box

\* The interface after the command the handler is at.
After(h) ==
    CASE Pc(h) = "set"     -> {With(box, CallOf(h).peers)}
      [] Pc(h) = "replace" -> {Without(box, {CallOf(h).replaces})}
      [] Pc(h) = "remove"  -> {Without(box, KeysOf(CallOf(h).peers))}
      [] Pc(h) = "sync"    -> IF handler[h].drop # {}
                              THEN {Without(box, {k}) : k \in handler[h].drop}
                              ELSE {With(box, {p}) : p \in handler[h].add}
      [] OTHER -> {}

\* How a command that does not succeed may leave the interface and the file:
\* it may have had its effect all the same.
Cuts(h) ==
    {<<b, file>> : b \in {box} \cup After(h)} \cup (IF Saving(h) THEN {<<box, box>>} ELSE {})

Leave(c) == box' = c[1] /\ file' = c[2] /\ promised' = Broken(promised, before, c[1])

\* The error returns do not unlock.
Bug_CommandFails(h) ==
    /\ mu = h /\ Pc(h) # "bad"
    /\ \E c \in Cuts(h) : Leave(c)
    /\ handler' = [handler EXCEPT ![h] = Idle]
    /\ UNCHANGED <<mu, before>>

\* A command fails: 500.
CommandFails(h) ==
    /\ mu = h /\ Pc(h) # "bad"
    /\ \E c \in Cuts(h) : Leave(c)
    /\ Answer(h)

-----------------------------------------------------------------------------
AllGone == handler' = [h \in Handlers |-> Idle] /\ mu' = Nil /\ before' = Empty

\* The process is killed, or told to stop: main does not wait for its handlers.
Die ==
    /\ IF mu = Nil THEN UNCHANGED <<box, file, promised>> ELSE \E c \in Cuts(mu) : Leave(c)
    /\ AllGone

\* wg-quick up reads the file.
Reboot ==
    /\ IF mu = Nil THEN box' = file /\ UNCHANGED <<file, promised>>
       ELSE \E c \in Cuts(mu) :
               box' = c[2] /\ file' = c[2] /\ promised' = Broken(promised, before, c[1])
    /\ AllGone

\* bootstrap.sh on a new disk; loadOrCreateInstanceID finds no file.
Rebuild ==
    /\ box' = Empty /\ file' = Empty /\ promised' = Empty
    /\ AllGone

Init ==
    /\ box = Empty /\ file = Empty
    /\ handler = [h \in Handlers |-> Idle]
    /\ mu = Nil
    /\ before = Empty
    /\ promised = Empty

Step(h) == Lock(h) \/ BadRequest(h) \/ List(h) \/ Command(h) \/ Save(h) \/ CommandFails(h)

Next ==
    \/ \E h \in Handlers : (\E call \in Calls : Receive(h, call)) \/ Step(h)
    \/ Die \/ Reboot \/ Rebuild

Spec == Init /\ [][Next]_vars

-----------------------------------------------------------------------------
(***************************************************************************)
(* Properties                                                              *)
(***************************************************************************)
InCommands == {"list", "replace", "set", "remove", "sync", "save"}

HandlerState == [pc : {"idle", "bad", "lock"} \cup InCommands, call : Calls \cup {NoCall},
                 drop : SUBSET Keys, add : SUBSET Peer]

\* The state is of its type, a handler has a request unless it is idle, runs
\* commands only while it holds the mutex, and a request with a malformed
\* address never gets that far.
AgentTypeOK ==
    /\ box \in Interface /\ file \in Interface /\ before \in Interface
    /\ promised \in [Keys -> Addresses \cup {Nil, NoAddress, Unknown}]
    /\ handler \in [Handlers -> HandlerState]
    /\ mu \in Handlers \cup {Nil}
    /\ \A h \in Handlers :
          /\ Pc(h) = "idle" <=> CallOf(h) = NoCall
          /\ Pc(h) \in InCommands => mu = h
          /\ mu = h => Pc(h) \in InCommands \cup {"bad"}

\* "it persists every change so a reboot doesn't quietly disconnect everyone":
\* what the ok answers say of a key that no failed request has touched since
\* is so on the interface, and on disk too, crashes and reboots in between or
\* not.
AcknowledgedSurvives ==
    \A k \in Keys : promised[k] # Unknown =>
        Visible[k] = promised[k] /\ file[k] = promised[k]

\* The health check counts the peers without the mutex.  What it can see is no
\* more than a state the request under way might have ended in by failing.
HalfWayIsAllowed ==
    mu # Nil => box \in Failed(before, CallOf(mu))

\* "a rotation is never briefly both keys valid": a key is not added while the
\* key it replaces is still there.
NeverBothKeys ==
    mu # Nil /\ CallOf(mu).op = "set" => \A k \in KeysOf(CallOf(mu).peers) :
        LET r == CallOf(mu).replaces IN
        r \in Keys \ {k} /\ box[k] # before[k] => box[r] = Nil

\* Handlers under the mutex, crashes and failing commands notwithstanding, are
\* what the control plane takes them for: requests that happen at one instant.
AtomicSpec == Atomic!AtomicSpec

-----------------------------------------------------------------------------
\* A command ends within Client.Timeout; a mutex that is let go of again and
\* again is given to every handler that waits for it (sync.Mutex hands over to
\* a waiter it has kept waiting).
AgentFairness ==
    \A h \in Handlers :
        /\ SF_vars(Lock(h))
        /\ WF_vars(BadRequest(h) \/ List(h) \/ Command(h) \/ Save(h) \/ CommandFails(h))

FairSpec == Spec /\ AgentFairness

\* No request waits forever: the mutex is released on every way out.
EveryRequestIsAnswered == \A h \in Handlers : Pc(h) # "idle" ~> Pc(h) = "idle"

=============================================================================
