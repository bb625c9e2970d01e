---------------------------- MODULE Registration ----------------------------
(***************************************************************************)
(* The registration of nymphs with the coordinator: how a nymph process    *)
(* gets the id from which it numbers the RDMA resources of its containers, *)
(* and gives it back.                                                      *)
(*                                                                         *)
(* One nymph process at a time runs on a location, because it owns the     *)
(* nymph port (nymph.go:19).  It may be killed and started again.  Its     *)
(* calls are served one at a time by the coordinator's control loop        *)
(* (control.go:33), in an order the network and the scheduling of the      *)
(* coordinator's goroutines choose, and possibly after the caller is gone. *)
(*                                                                         *)
(* Bounds: MaxStarts nymph processes per location, MaxRestarts restarts of *)
(* the coordinator.                                                        *)
(***************************************************************************)
EXTENDS NymphSet

CONSTANTS
    MaxStarts,          \* bound: processes started per location
    MaxRestarts,        \* bound: restarts of the coordinator
    LateUnregister,     \* may UnregisterNymph be served after its connection broke?
    qpnpn, minqpn       \* rxe.qpnpn and rxe.minqpn of the configuration

ASSUME BoundsAssumption == MaxStarts \in Nat /\ MaxRestarts \in Nat
ASSUME LateUnregisterAssumption == LateUnregister \in BOOLEAN
ASSUME QpnAssumption == qpnpn \in Nat \ {0} /\ minqpn \in Nat

VARIABLES
    epoch,      \* how often the coordinator has restarted
    nymph,      \* per location: what the nymph process there is doing
    run,        \* per location: how many processes have been started
    conn,       \* per location: is the coordinatorClient of the process usable?
    calls,      \* calls in flight towards the coordinator
    reply,      \* per location: the id on its way back to the process
    Id,         \* per location: n.Id, 0 until registered
    idEpoch     \* per location: the epoch in which n.Id was obtained

procVars == <<nymph, run, conn, Id, idEpoch>>
vars == <<setVars, epoch, procVars, calls, reply>>

NoReply == -1
States == {"down", "registering", "serving", "closing"}
Call == [op : {"RegisterNymph", "UnregisterNymph"}, host : Location, run : Nat]

\* A call that l's current process made.
CallOf(op, l) == [op |-> op, host |-> l, run |-> run[l]]

\* What is left of the calls when l's connection breaks or its process dies.
\* RegisterNymph may always be served late; UnregisterNymph if the constant says so.
Surviving(l) ==
    {c \in calls : c.host = l /\ c.op = "UnregisterNymph" => LateUnregister}

Init ==
    /\ NymphSetInit
    /\ epoch = 0
    /\ nymph = [l \in Location |-> "down"]
    /\ run = [l \in Location |-> 0]
    /\ conn = [l \in Location |-> FALSE]
    /\ calls = {}
    /\ reply = [l \in Location |-> NoReply]
    /\ Id = [l \in Location |-> 0]
    /\ idEpoch = [l \in Location |-> 0]

(***************************************************************************)
(* The nymph process                                                       *)
(***************************************************************************)

\* Run, NewNymph and the first call of registerNymph.  NewNymph dials until
\* the coordinator answers, so the connection is up.
Start(l) ==
    /\ nymph[l] = "down"
    /\ run[l] < MaxStarts
    /\ nymph' = [nymph EXCEPT ![l] = "registering"]
    /\ run' = [run EXCEPT ![l] = @ + 1]
    /\ conn' = [conn EXCEPT ![l] = TRUE]
    /\ Id' = [Id EXCEPT ![l] = 0]
    /\ idEpoch' = [idEpoch EXCEPT ![l] = 0]
    /\ calls' = calls \cup {[op |-> "RegisterNymph", host |-> l, run |-> run[l] + 1]}
    /\ UNCHANGED <<setVars, epoch, reply>>

\* Mutant: ServerLoop starts before the registration is answered.
RegisteredEarly(l) ==
    /\ nymph[l] = "registering"
    /\ conn[l]
    /\ nymph' = [nymph EXCEPT ![l] = "serving"]
    /\ Id' = [Id EXCEPT ![l] = reply[l]]
    /\ idEpoch' = [idEpoch EXCEPT ![l] = epoch]
    /\ reply' = [reply EXCEPT ![l] = NoReply]
    /\ UNCHANGED <<setVars, epoch, run, conn, calls>>

\* registerNymphOnce returns: the process enters ServerLoop and accepts Run.
\* (Another call of registerNymph on a broken client fails at once, for ever:
\* the retry of registerNymph is a stuttering step.)
Registered(l) ==
    /\ nymph[l] = "registering"
    /\ conn[l]
    /\ reply[l] # NoReply
    /\ nymph' = [nymph EXCEPT ![l] = "serving"]
    /\ Id' = [Id EXCEPT ![l] = reply[l]]
    /\ idEpoch' = [idEpoch EXCEPT ![l] = epoch]
    /\ reply' = [reply EXCEPT ![l] = NoReply]
    /\ UNCHANGED <<setVars, epoch, run, conn, calls>>

\* A signal cancels the context and the crash handler runs _Close, which
\* calls UnregisterNymph whether or not the nymph is registered yet.  On a
\* broken client the call fails and the process exits.
Close(l) ==
    /\ nymph[l] \in {"registering", "serving"}
    /\ nymph' = [nymph EXCEPT ![l] = IF conn[l] THEN "closing" ELSE "down"]
    /\ calls' = IF conn[l] THEN calls \cup {CallOf("UnregisterNymph", l)} ELSE calls
    /\ reply' = [reply EXCEPT ![l] = NoReply]
    /\ UNCHANGED <<setVars, epoch, run, conn, Id, idEpoch>>

\* The process is killed: nothing of _Close runs.
Kill(l) ==
    /\ nymph[l] # "down"
    /\ nymph' = [nymph EXCEPT ![l] = "down"]
    /\ conn' = [conn EXCEPT ![l] = FALSE]
    /\ calls' = Surviving(l)
    /\ reply' = [reply EXCEPT ![l] = NoReply]
    /\ UNCHANGED <<setVars, epoch, run, Id, idEpoch>>

\* The connection to the coordinator breaks.  A process waiting in
\* UnregisterNymph gets an error and exits.
ConnectionLost(l) ==
    /\ conn[l]
    /\ nymph[l] # "down"
    /\ conn' = [conn EXCEPT ![l] = FALSE]
    /\ nymph' = [nymph EXCEPT ![l] = IF @ = "closing" THEN "down" ELSE @]
    /\ calls' = Surviving(l)
    /\ reply' = [reply EXCEPT ![l] = NoReply]
    /\ UNCHANGED <<setVars, epoch, run, Id, idEpoch>>

(***************************************************************************)
(* The coordinator                                                         *)
(***************************************************************************)

\* Mutant: an answer reaches whatever process is there now.
WaitingAny(c) == conn[c.host]

\* Is the process that made call c still there, with its connection?
Waiting(c) == conn[c.host] /\ run[c.host] = c.run

\* The id travels back only to the process that asked for it.
HandleRegister(c) ==
    /\ c.op = "RegisterNymph"
    /\ Add(c.host)
    /\ calls' = calls \ {c}
    /\ reply' = IF Waiting(c) /\ nymph[c.host] = "registering"
                THEN [reply EXCEPT ![c.host] = NextId]
                ELSE reply
    /\ UNCHANGED <<epoch, procVars>>

\* An error of Del is returned and only logged: the process exits either way.
HandleUnregister(c) ==
    /\ c.op = "UnregisterNymph"
    /\ Del(c.host)
    /\ calls' = calls \ {c}
    /\ nymph' = IF Waiting(c) THEN [nymph EXCEPT ![c.host] = "down"] ELSE nymph
    /\ UNCHANGED <<epoch, run, conn, reply, Id, idEpoch>>

\* The coordinator keeps its tables in memory only, and nobody reconnects.
RestartCoordinator ==
    /\ epoch < MaxRestarts
    /\ epoch' = epoch + 1
    /\ activeIds' = {}
    /\ length' = 0
    /\ set' = [l \in {} |-> 0]
    /\ calls' = {}
    /\ reply' = [l \in Location |-> NoReply]
    /\ conn' = [l \in Location |-> FALSE]
    /\ nymph' = [l \in Location |-> IF nymph[l] = "closing" THEN "down" ELSE nymph[l]]
    /\ UNCHANGED <<run, Id, idEpoch>>

Next ==
    \/ \E l \in Location :
          Start(l) \/ Registered(l) \/ Close(l) \/ Kill(l) \/ ConnectionLost(l)
    \/ \E c \in calls : HandleRegister(c) \/ HandleUnregister(c)
    \/ RestartCoordinator

\* The control loop serves every request, and a reply is always delivered to
\* a process that still waits for it.
Fairness ==
    /\ WF_vars(\E c \in calls : HandleRegister(c) \/ HandleUnregister(c))
    /\ \A l \in Location : WF_vars(Registered(l))

Spec == Init /\ [][Next]_vars
FairSpec == Spec /\ Fairness
-----------------------------------------------------------------------------
(***************************************************************************)
(* Properties                                                              *)
(***************************************************************************)

\* The queue pair numbers a nymph with this id hands to its containers:
\* qpnStart of rxe.go:109 and the qpnpn numbers from there.
QpnRange(id) == (id * qpnpn + minqpn) .. (id * qpnpn + minqpn + qpnpn - 1)

\* Does l's nymph label containers with an id of the present coordinator?
Current(l) == nymph[l] = "serving" /\ idEpoch[l] = epoch

TypeOK ==
    /\ activeIds \in SUBSET Nat /\ IsFiniteSet(activeIds)
    /\ length \in Nat
    /\ DOMAIN set \subseteq Location
    /\ \A l \in DOMAIN set : set[l] \in Nat
    /\ epoch \in Nat
    /\ nymph \in [Location -> States]
    /\ run \in [Location -> Nat]
    /\ conn \in [Location -> BOOLEAN]
    /\ calls \in SUBSET Call
    /\ reply \in [Location -> Nat \cup {NoReply}]
    /\ Id \in [Location -> Nat]
    /\ idEpoch \in [Location -> Nat]

\* Two nymphs that serve containers under the same coordinator number their
\* queue pairs from disjoint ranges, whatever has been killed, restarted,
\* disconnected or served late: a container keeps its numbers when it migrates,
\* so an overlap would make two containers collide (server.go:255, rxe.go:109).
QpnRangesDisjoint ==
    \A l, m \in Location :
        l # m /\ Current(l) /\ Current(m) => QpnRange(Id[l]) \cap QpnRange(Id[m]) = {}

\* The id of a serving nymph stays marked in the bitset until that very nymph
\* closes, even when the map holds another id for its location or none
\* (nymph_set.go:31-32): a new nymph can never be given it.
ServingIdsAreActive == \A l \in Location : Current(l) => Id[l] \in activeIds

\* The fallback on Count() (nymph_set.go:27-29) gives an id that is free: when
\* no bit below the length is clear, all of them are set.
NextIdIsFree == NextId \notin activeIds

\* The coordinator implements IdLease: the id that a process gets, from the
\* answer on its way until the process or the coordinator ends, is nobody
\* else's, and no later answer, to a call of its own or of an earlier process,
\* replaces it (server.go:298-321, control.go:178-198, nymph_set.go:22-47).
Lease == INSTANCE IdLease WITH
            Holder <- Location, None <- NoReply,
            lease <- [l \in Location |-> IF Current(l) THEN Id[l] ELSE reply[l]]
LendsIds == Lease!Spec

\* registerNymph tries "once again" until it is registered (server.go:311-321):
\* a nymph does not stay in registration for ever.
RegistrationCompletes ==
    \A l \in Location : nymph[l] = "registering" ~> nymph[l] # "registering"
=============================================================================
