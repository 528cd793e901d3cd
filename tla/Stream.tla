-------------------------------- MODULE Stream --------------------------------
(* What the front end shows of a task: websocket/*.py.                        *)
(*                                                                           *)
(* A client opens a WebSocket on one instance: it gets a snapshot, read from  *)
(* the database before the connection is accepted, and then every event that  *)
(* its instance broadcasts. Whoever changes the task commits, refreshes the   *)
(* row, sends it to the clients of its own instance and publishes it on Redis; *)
(* each instance relays what others published. Redis keeps nothing for an      *)
(* instance that does not listen, and nothing is sent twice by it.             *)
(* Abstracted: the task is one row, and its version stands for its content;    *)
(* instances have different ids (config.py draws one); workers are instances   *)
(* without clients; who may connect (router.py, 36) is left out.               *)
EXTENDS Naturals, Sequences, FiniteSets, SequencesExt

CONSTANTS
    Instances, Clients,
    Home,          \* Home[c]: the instance client c connects to
    Writes,        \* numbers: bound on the changes of the task
    MaxFaults      \* bound on what fails or breaks

\* Assumed of the constants (Console).
StreamAssumption ==
    /\ Home \in [Clients -> Instances] /\ MaxFaults \in Nat
    /\ Writes \subseteq Nat /\ IsFiniteSet(Writes)

VARIABLES
    version,       \* the committed row
    writer,        \* writer[w]: how far the w-th change has come
    listening,     \* instances whose relay is subscribed
    inbox,         \* inbox[i]: published events that instance i has yet to handle
    client,        \* client[c]: its connection and what it was told
    doubt,         \* history: clients that an event missed, or overtook another
    faults         \* how much has failed

svars == <<version, writer, listening, inbox, client, doubt, faults>>

Versions == 1 .. Cardinality(Writes) + 1
Events   == [id : Writes, row : Versions, origin : Instances]
Off      == [at |-> "off"]

Init ==
    /\ version = 1
    /\ writer = [w \in Writes |-> [at |-> "none"]]
    /\ listening = {}
    /\ inbox = [i \in Instances |-> <<>>]
    /\ client = [c \in Clients |-> Off]
    /\ doubt = {} /\ faults = 0
-----------------------------------------------------------------------------
Linked(c) == client[c].at # "off"
Hearers(i) == {c \in Clients : Home[c] = i /\ client[c].at = "open"}

\* The handler of instance i skips what i itself published.
Own(i, e) == e.origin = i

\* Rows that were read and may still reach the clients of instance i.
Pending(i) ==
    {writer[w].row : w \in {x \in Writes : \/ writer[x].at = "read"
                                           \/ writer[x].at = "told" /\ writer[x].on # i}}
    \cup {e.row : e \in {x \in ToSet(inbox[i]) : ~Own(i, x)}}

\* Instance i sends e to its clients; who is connecting does not get it.
Send(i, e) ==
    /\ client' = [c \in Clients |->
          IF c \in Hearers(i)
          THEN [client[c] EXCEPT !.view = e.row, !.heard = Append(@, e.id)]
          ELSE client[c]]
    /\ doubt' = doubt \cup {c \in Clients : Home[c] = i /\ client[c].at = "loading"}

MissedAt(is) == doubt' = doubt \cup {c \in Clients : Linked(c) /\ Home[c] \in is}

Fault == faults < MaxFaults /\ faults' = faults + 1
-----------------------------------------------------------------------------
(* Changes of the task.                                                       *)

\* What others read before may arrive after this change.
Commit(w, i) ==
    /\ writer[w].at = "none"
    /\ \A x \in Writes : x < w => writer[x].at # "none"
    /\ version' = version + 1
    /\ writer' = [writer EXCEPT ![w] = [at |-> "committed", on |-> i]]
    /\ doubt' = doubt \cup {c \in Clients : Linked(c) /\ Pending(Home[c]) # {}}
    /\ UNCHANGED <<listening, inbox, client, faults>>

Refresh(w) ==
    /\ writer[w].at = "committed"
    /\ writer' = [writer EXCEPT ![w] = [at |-> "read", on |-> @.on, row |-> version]]
    /\ UNCHANGED <<version, listening, inbox, client, doubt, faults>>

EventOf(w) == [id |-> w, row |-> writer[w].row, origin |-> writer[w].on]

Step(w, at) == writer' = [writer EXCEPT ![w].at = at]

\* Mutant: an instance without clients has nothing to broadcast, nor to publish.
BroadcastIfHeard(w) ==
    /\ writer[w].at = "read"
    /\ Send(writer[w].on, EventOf(w))
    /\ Step(w, IF Hearers(writer[w].on) = {} THEN "done" ELSE "told")
    /\ UNCHANGED <<version, listening, inbox, faults>>
Broadcast(w) ==
    /\ writer[w].at = "read"
    /\ Send(writer[w].on, EventOf(w))
    /\ Step(w, "told")
    /\ UNCHANGED <<version, listening, inbox, faults>>

Publish(w) ==
    /\ writer[w].at = "told"
    /\ inbox' = [i \in Instances |->
          IF i \in listening THEN Append(inbox[i], EventOf(w)) ELSE inbox[i]]
    /\ MissedAt(Instances \ (listening \cup {writer[w].on}))
    /\ Step(w, "done")
    /\ UNCHANGED <<version, listening, client, faults>>

\* publish_workspace_event logs the error and returns; or the process ends.
PublishFails(w) ==
    /\ Fault /\ writer[w].at = "told"
    /\ MissedAt(Instances \ {writer[w].on})
    /\ Step(w, "done")
    /\ UNCHANGED <<version, listening, inbox, client>>

\* The process ends between commit and broadcast: there is no outbox.
Abandon(w) ==
    /\ Fault /\ writer[w].at \in {"committed", "read"}
    /\ MissedAt(Instances)
    /\ Step(w, "done")
    /\ UNCHANGED <<version, listening, inbox, client>>
-----------------------------------------------------------------------------
(* The relay of an instance.                                                  *)

Listen(i) ==
    /\ i \notin listening
    /\ listening' = listening \cup {i}
    /\ UNCHANGED <<version, writer, inbox, client, doubt, faults>>

\* The connection to Redis breaks, with what it had yet to hand over.
Break(i) ==
    /\ Fault /\ i \in listening
    /\ listening' = listening \ {i}
    /\ inbox' = [inbox EXCEPT ![i] = <<>>]
    /\ MissedAt(IF \E e \in ToSet(inbox[i]) : ~Own(i, e) THEN {i} ELSE {})
    /\ UNCHANGED <<version, writer, client>>

Relay(i) ==
    /\ i \in listening /\ inbox[i] # <<>>
    /\ inbox' = [inbox EXCEPT ![i] = Tail(@)]
    /\ IF Own(i, Head(inbox[i]))
       THEN UNCHANGED <<client, doubt>>
       ELSE Send(i, Head(inbox[i]))
    /\ UNCHANGED <<version, writer, listening, faults>>
-----------------------------------------------------------------------------
(* A client.                                                                  *)

Overtaken(c) == \E row \in Pending(Home[c]) : row < version

Load(c) ==
    /\ ~Linked(c)
    /\ client' = [client EXCEPT ![c] = [at |-> "loading", view |-> version, heard |-> <<>>]]
    /\ doubt' = IF Overtaken(c) THEN doubt \cup {c} ELSE doubt \ {c}
    /\ UNCHANGED <<version, writer, listening, inbox, faults>>

\* The snapshot cannot be built: the client is connected without one.
LoadFails(c) ==
    /\ Fault /\ ~Linked(c)
    /\ client' = [client EXCEPT ![c] = [at |-> "loading", view |-> 1, heard |-> <<>>]]
    /\ doubt' = doubt \cup {c}
    /\ UNCHANGED <<version, writer, listening, inbox>>

\* Accepted, entered into the manager and sent the snapshot: nothing is awaited
\* between the last two.
Connect(c) ==
    /\ client[c].at = "loading"
    /\ client' = [client EXCEPT ![c].at = "open"]
    /\ UNCHANGED <<version, writer, listening, inbox, doubt, faults>>

\* It goes, or a send to it fails.
Disconnect(c) ==
    /\ Linked(c)
    /\ client' = [client EXCEPT ![c] = Off]
    /\ doubt' = doubt \ {c}
    /\ UNCHANGED <<version, writer, listening, inbox, faults>>
-----------------------------------------------------------------------------
Next ==
    \/ \E w \in Writes : \/ \E i \in Instances : Commit(w, i)
                         \/ Refresh(w) \/ Broadcast(w) \/ Publish(w)
                         \/ PublishFails(w) \/ Abandon(w)
    \/ \E i \in Instances : Listen(i) \/ Break(i) \/ Relay(i)
    \/ \E c \in Clients : Load(c) \/ LoadFails(c) \/ Connect(c) \/ Disconnect(c)

Spec == Init /\ [][Next]_svars
-----------------------------------------------------------------------------
TypeOK ==
    /\ version \in Versions /\ listening \subseteq Instances /\ doubt \subseteq Clients
    /\ \A w \in Writes : \/ writer[w].at \in {"none", "committed", "done"}
                         \/ writer[w].at \in {"read", "told"} /\ EventOf(w) \in Events
    /\ \A i \in Instances : ToSet(inbox[i]) \subseteq Events
    /\ \A c \in Clients :
          Linked(c) => client[c].view \in Versions /\ ToSet(client[c].heard) \subseteq Writes
    /\ faults \in 0 .. MaxFaults

\* Nothing is on its way to client c.
Settled(c) == Pending(Home[c]) = {} /\ \A w \in Writes : writer[w].at # "committed"

\* Whatever instances the changes come from, a client that no event missed and no
\* two changes crossed shows the committed task once all is delivered: what a
\* change loses, the next connection repairs (router.py, relay.py, manager.py).
ClientIsCurrent ==
    \A c \in Clients :
        client[c].at = "open" /\ Settled(c) /\ c \notin doubt => client[c].view = version

\* A connection is told of a change at most once: by its own instance, or by the
\* relay of another's (distributed.py, 87; relay.py, 63).
ToldOnce == \A c \in Clients : Linked(c) => IsInjective(client[c].heard)

\* Both: a client follows the task.
ClientsFollow == ClientIsCurrent /\ ToldOnce
=============================================================================
