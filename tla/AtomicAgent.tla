---------------------------- MODULE AtomicAgent -----------------------------
(***************************************************************************)
(* What the agent of an edge box promises the control plane: every request *)
(* takes effect at one instant, completely or as far as it got, and one    *)
(* that is answered ok is on disk too.  Provisioning is written against    *)
(* this; EdgeAgent implements it.                                          *)
(***************************************************************************)
EXTENDS EdgeCalls

VARIABLES
    box,        \* the peers of the interface
    file,       \* the interface as it is on disk, and as a reboot restores it
    request,    \* per handler: the request it serves
    promised    \* history: per key, what the ok answers say of it

atomicVars == <<box, file, request, promised>>

-----------------------------------------------------------------------------
Busy(h) == request[h] # NoCall

\* How the interface and the file may be left by a call that stops short: some
\* of its commands ran, the last of which writes the file.  A malformed request
\* has done nothing.
Stops(call) ==
    IF call.bad # "none" THEN {<<box, file>>}
    ELSE {<<b, file>> : b \in Failed(box, call)}
         \cup {<<Handle(box, call).done, Handle(box, call).done>>}

\* ... or by whatever was under way, if anything was.
AllStops == {<<box, file>>} \cup UNION {Stops(request[h]) : h \in {x \in Handlers : Busy(x)}}

-----------------------------------------------------------------------------
AtomicInit ==
    /\ box = Empty /\ file = Empty
    /\ request = [h \in Handlers |-> NoCall]
    /\ promised = Empty

Receive(h, call) ==
    /\ ~Busy(h)
    /\ request' = [request EXCEPT ![h] = call]
    /\ UNCHANGED <<box, file, promised>>

Ok(h) ==
    /\ Busy(h) /\ request[h].bad = "none"
    /\ box' = Handle(box, request[h]).done
    /\ file' = Handle(box, request[h]).done
    /\ promised' = Kept(promised, request[h], box, Handle(box, request[h]).done)
    /\ request' = [request EXCEPT ![h] = NoCall]

Fails(h) ==
    /\ Busy(h)
    /\ \E s \in Stops(request[h]) :
          box' = s[1] /\ file' = s[2] /\ promised' = Broken(promised, box, s[1])
    /\ request' = [request EXCEPT ![h] = NoCall]

\* 400
Refuses(h) ==
    /\ Busy(h) /\ request[h].bad # "none"
    /\ request' = [request EXCEPT ![h] = NoCall]
    /\ UNCHANGED <<box, file, promised>>

\* The agent dies: no request is answered, the interface stays.
Dies ==
    /\ \E s \in AllStops :
          box' = s[1] /\ file' = s[2] /\ promised' = Broken(promised, box, s[1])
    /\ request' = [h \in Handlers |-> NoCall]

\* The box reboots: the interface is what the file says.
Reboots ==
    /\ \E s \in AllStops :
          box' = s[2] /\ file' = s[2] /\ promised' = Broken(promised, box, s[1])
    /\ request' = [h \in Handlers |-> NoCall]

\* The box is reinstalled: no peers, nothing promised.
Rebuilt ==
    /\ box' = Empty /\ file' = Empty /\ promised' = Empty
    /\ request' = [h \in Handlers |-> NoCall]

AtomicNext ==
    \/ \E h \in Handlers :
          (\E call \in Calls : Receive(h, call)) \/ Ok(h) \/ Fails(h) \/ Refuses(h)
    \/ Dies \/ Reboots \/ Rebuilt

AtomicSpec == AtomicInit /\ [][AtomicNext]_atomicVars

=============================================================================
