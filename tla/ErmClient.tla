----------------------------- MODULE ErmClient -----------------------------
(***************************************************************************)
(* The client library of the Essos resource manager                        *)
(* (essos-resmgr-uds.cpp): the table of an application's requests, the     *)
(* calls that wait for the server's answers, the thread that reads them,   *)
(* and the threads that call the application back.  Requests are for       *)
(* resources of one type.                                                  *)
(*                                                                         *)
(* The server is modelled as this client sees it, by the messages it       *)
(* sends; how it decides is ErmServer's matter.  Priority, usage, state    *)
(* and black list calls send a message about a listed request and change   *)
(* nothing here; they are left out.                                        *)
(***************************************************************************)
EXTENDS Naturals, Sequences, FiniteSets, SequencesExt

CONSTANTS
    Callers,      \* threads of the application that make calls
    Ids,          \* the resources this client may be granted
    Zero,         \* the resource of index 0, which a new request's entry names
    None,         \* no resource
    MaxRequests   \* bound on the requests made

ASSUME ClientAssumption ==
    /\ MaxRequests \in Nat
    /\ None \notin Ids \cup {Zero} \cup (1 .. MaxRequests)

Reqs == 1 .. MaxRequests

VARIABLES
    info,       \* the EssRMgrRequestInfo of each request
    requests,   \* rm->requests
    caller,     \* where each calling thread is
    conn,       \* where the thread that reads the socket is
    notes,      \* the notification threads that have yet to call back
    lib,        \* how far EssRMgrDestroy has come
    up, down,   \* messages to and from the server
    server,     \* whether the server runs
    owner,      \* the server's view: the request that owns a resource
    waiting,    \* the server's view: the requests in a pending list
    asked,      \* the resources the server has asked to be released
    told,       \* the resource the application was told that a request has
    over,       \* requests released or cancelled by the application
    givenUp,    \* requests whose call timed out, or that were cancelled
    unconfirmed \* requests whose answer the reading thread did not see taken

tableVars == <<info, requests>>
serverVars == <<server, owner, waiting, asked>>
appVars == <<told, over, givenUp>>
vars == <<tableVars, caller, conn, notes, lib, up, down, serverVars, appVars, unconfirmed>>

-----------------------------------------------------------------------------

Unmade == [kind |-> "none"]

(* An entry as calloc leaves it, assignedId included. *)
NewInfo(kind, async) ==
    [kind |-> kind, async |-> async, assigned |-> Zero, complete |-> 0,
     confirm |-> FALSE, needConfirm |-> kind = "resource"]

Entries ==
    [kind : {"resource", "value"}, async : BOOLEAN, assigned : Ids \cup {Zero, None},
     complete : Nat, confirm : BOOLEAN, needConfirm : BOOLEAN]

Infos == {Unmade} \cup Entries

(* Both directions of the socket: 'R' and 'T' are asked and answered. *)
Messages == [kind : {"R", "T", "L", "C", "V"}, req : Reqs, id : Ids \cup {None}]

CallerStates == [at : {"idle"}] \cup [at : {"listed", "waits", "answered", "reads"}, req : Reqs]

Idle == [at |-> "idle"]

Made == {q \in Reqs : info[q] # Unmade}

TypeOK ==
    /\ info \in [Reqs -> Infos]
    /\ requests \in Seq(Reqs) /\ IsInjective(requests)
    /\ caller \in [Callers -> CallerStates]
    /\ conn \in [at : {"reads", "gone"}] \cup [at : {"confirms"}, req : Reqs]
    /\ notes \subseteq [event : {"granted", "revoked"}, req : Reqs, id : Ids \cup {Zero, None}]
    /\ lib \in {"up", "joining", "notifying", "gone"}
    /\ up \in Seq(Messages) /\ down \in Seq(Messages)
    /\ server \in BOOLEAN
    /\ owner \in [Ids -> Reqs \cup {None}]
    /\ waiting \subseteq Reqs /\ asked \subseteq Ids
    /\ told \in [Reqs -> Ids \cup {None}]
    /\ {over, givenUp, unconfirmed} \subseteq SUBSET Reqs

Init ==
    /\ info = [q \in Reqs |-> Unmade]
    /\ requests = <<>>
    /\ caller = [c \in Callers |-> Idle]
    /\ conn = [at |-> "reads"]
    /\ notes = {}
    /\ lib = "up"
    /\ up = <<>> /\ down = <<>>
    /\ server = TRUE
    /\ owner = [r \in Ids |-> None]
    /\ waiting = {} /\ asked = {}
    /\ told = [q \in Reqs |-> None]
    /\ over = {} /\ givenUp = {} /\ unconfirmed = {}

-----------------------------------------------------------------------------
(***************************************************************************)
(* The table of requests.                                                  *)
(***************************************************************************)

Listed(q) == q \in ToSet(requests)

(* The first entry for a resource; 0 when there is none. *)
FindRequestByResource(id) ==
    LET n == SelectInSeq(requests, LAMBDA q : info[q].assigned = id)
    IN IF n = 0 THEN 0 ELSE requests[n]

Without(q) == RemoveFirst(requests, q)

(* A socket send: it succeeds while the server's end is open. *)
Send(msg) == up' = IF server THEN Append(up, msg) ELSE up

Message(kind, q, id) == [kind |-> kind, req |-> q, id |-> id]

NextReq == Cardinality(Made) + 1

-----------------------------------------------------------------------------
(***************************************************************************)
(* Calls that wait.                                                        *)
(***************************************************************************)

(* EssRMgrRequestResource lists the request, sends it, and waits. *)
Request(c, async) ==
    /\ lib = "up" /\ caller[c] = Idle /\ NextReq \in Reqs
    /\ info' = [info EXCEPT ![NextReq] = NewInfo("resource", async)]
    /\ requests' = Append(requests, NextReq)
    /\ caller' = [caller EXCEPT ![c] = [at |-> "listed", req |-> NextReq]]
    /\ UNCHANGED <<conn, notes, lib, up, down, serverVars, appVars, unconfirmed>>

SendRequest(c) ==
    LET q == caller[c].req
    IN /\ caller[c].at = "listed"
       /\ Send(Message("R", q, None))
       /\ IF server
          THEN /\ caller' = [caller EXCEPT ![c].at = "waits"]
               /\ UNCHANGED <<requests, givenUp>>
          ELSE /\ caller' = [caller EXCEPT ![c] = Idle]
               /\ requests' = Without(q)
               /\ givenUp' = givenUp \cup {q}
       /\ UNCHANGED <<info, conn, notes, lib, down, serverVars, told, over, unconfirmed>>

(* The call's wait ends with the answer, *)
TakeAnswer(c) ==
    LET q == caller[c].req
    IN /\ caller[c].at = "waits"
       /\ info[q].complete > 0
       /\ info' = [info EXCEPT ![q].complete = @ - 1]
       /\ caller' = [caller EXCEPT ![c].at = "answered"]
       /\ UNCHANGED <<requests, conn, notes, lib, up, down, serverVars, appVars, unconfirmed>>

\* Mutant: an answered request is taken off the list.
ReturnAnswerForgets(c) ==
    LET q == caller[c].req
    IN /\ caller[c].at = "answered"
       /\ told' = IF Listed(q) /\ info[q].assigned \in Ids
                  THEN [told EXCEPT ![q] = info[q].assigned] ELSE told
       /\ info' = [info EXCEPT ![q].needConfirm = FALSE, ![q].confirm = TRUE]
       /\ requests' = Without(q)
       /\ caller' = [caller EXCEPT ![c] = Idle]
       /\ UNCHANGED <<conn, notes, lib, up, down, serverVars, over, givenUp, unconfirmed>>

(* which it copies to the application before it lets the reading thread go on, *)
ReturnAnswer(c) ==
    LET q == caller[c].req
    IN /\ caller[c].at = "answered"
       /\ told' = IF Listed(q) /\ info[q].assigned \in Ids
                  THEN [told EXCEPT ![q] = info[q].assigned] ELSE told
       /\ info' = [info EXCEPT ![q].needConfirm = FALSE, ![q].confirm = TRUE]
       /\ caller' = [caller EXCEPT ![c] = Idle]
       /\ UNCHANGED <<requests, conn, notes, lib, up, down, serverVars, over, givenUp,
                      unconfirmed>>

(* or with the timeout: the call fails and leaves its entry listed. *)
GiveUp(c) ==
    LET q == caller[c].req
    IN /\ caller[c].at = "waits"
       /\ info[q].complete = 0
       /\ caller' = [caller EXCEPT ![c] = Idle]
       /\ givenUp' = givenUp \cup {q}
       /\ UNCHANGED <<tableVars, conn, notes, lib, up, down, serverVars, told, over, unconfirmed>>

(* The calls that read a value list an entry as well and wait without a timeout. *)
GetValue(c) ==
    /\ lib = "up" /\ caller[c] = Idle /\ NextReq \in Reqs
    /\ server
    /\ info' = [info EXCEPT ![NextReq] = NewInfo("value", FALSE)]
    /\ requests' = Append(requests, NextReq)
    /\ Send(Message("T", NextReq, None))
    /\ caller' = [caller EXCEPT ![c] = [at |-> "reads", req |-> NextReq]]
    /\ UNCHANGED <<conn, notes, lib, down, serverVars, appVars, unconfirmed>>

ReturnValue(c) ==
    LET q == caller[c].req
    IN /\ caller[c].at = "reads"
       /\ info[q].complete > 0
       /\ info' = [info EXCEPT ![q].complete = @ - 1]
       /\ caller' = [caller EXCEPT ![c] = Idle]
       /\ UNCHANGED <<requests, conn, notes, lib, up, down, serverVars, appVars, unconfirmed>>

-----------------------------------------------------------------------------
(***************************************************************************)
(* Calls that only send.                                                   *)
(***************************************************************************)

(* The application releases a resource it was told it has.  The entry found for *)
(* it goes, whichever request that was for.                                     *)
ReleaseResource(id) ==
    LET q == FindRequestByResource(id)
    IN /\ lib = "up"
       /\ \E r \in Reqs \ over : told[r] = id
       /\ over' = over \cup {r \in Reqs : told[r] = id}
       /\ IF q = 0 THEN UNCHANGED <<requests, up>>
          ELSE requests' = Without(q) /\ Send(Message("L", q, id))
       /\ UNCHANGED <<info, caller, conn, notes, lib, down, serverVars, told, givenUp,
                      unconfirmed>>

(* It cancels a request it was told nothing of yet: the entry stays. *)
RequestCancel(q) ==
    /\ lib = "up"
    /\ Listed(q) /\ info[q].async /\ ~info[q].needConfirm
    /\ told[q] = None /\ q \notin over
    /\ Send(Message("C", q, None))
    /\ over' = over \cup {q}
    /\ givenUp' = givenUp \cup {q}
    /\ UNCHANGED <<tableVars, caller, conn, notes, lib, down, serverVars, told, unconfirmed>>

-----------------------------------------------------------------------------
(***************************************************************************)
(* The thread that reads the socket.                                       *)
(***************************************************************************)

Reads(kind) == conn.at = "reads" /\ down # <<>> /\ Head(down).kind = kind /\ down' = Tail(down)

Note(event, q) == [event |-> event, req |-> q, id |-> info'[q].assigned]

\* Mutant: only an answer that is waited for is notified.
FirstGrantOnly(q, id) ==
    IF id # None /\ info[q].async /\ info[q].needConfirm THEN {Note("granted", q)} ELSE {}

(* An asynchronous request is told of its grant by a callback, even if its call is too. *)
GrantNotes(q, id) == IF id # None /\ info[q].async THEN {Note("granted", q)} ELSE {}

\* Mutant: the next message is read while the call has yet to take its answer.
ReadOn(q) == UNCHANGED conn

(* After an answer the thread waits for the call to have taken it. *)
AwaitConfirm(q) ==
    conn' = IF info[q].needConfirm THEN [at |-> "confirms", req |-> q] ELSE conn

(* The answer to a request, or the later grant of one that was pending. *)
ReadAnswer ==
    LET q == Head(down).req
        id == Head(down).id
    IN /\ Reads("R")
       /\ IF Listed(q)
          THEN /\ info' = [info EXCEPT ![q].assigned = id, ![q].complete = @ + 1]
               /\ notes' = notes \cup GrantNotes(q, id)
               /\ AwaitConfirm(q)
          ELSE UNCHANGED <<info, notes, conn>>
       /\ UNCHANGED <<requests, caller, lib, up, serverVars, appVars, unconfirmed>>

Confirmed ==
    /\ conn.at = "confirms"
    /\ info[conn.req].confirm
    /\ info' = [info EXCEPT ![conn.req].confirm = FALSE]
    /\ conn' = [at |-> "reads"]
    /\ UNCHANGED <<requests, caller, notes, lib, up, down, serverVars, appVars, unconfirmed>>

(* The wait ends with its timeout too, or because the entry was freed meanwhile. *)
ConfirmTimeout ==
    /\ conn.at = "confirms"
    /\ conn' = [at |-> "reads"]
    /\ unconfirmed' = unconfirmed \cup {conn.req}
    /\ UNCHANGED <<tableVars, caller, notes, lib, up, down, serverVars, appVars>>

ReadRevoke ==
    LET q == FindRequestByResource(Head(down).id)
    IN /\ Reads("V")
       /\ info' = info
       /\ notes' = IF q = 0 THEN notes ELSE notes \cup {Note("revoked", q)}
       /\ UNCHANGED <<requests, caller, conn, lib, up, serverVars, appVars, unconfirmed>>

ReadValue ==
    LET q == Head(down).req
    IN /\ Reads("T")
       /\ IF Listed(q)
          THEN /\ requests' = Without(q)
               /\ info' = [info EXCEPT ![q].complete = @ + 1]
          ELSE UNCHANGED tableVars
       /\ UNCHANGED <<caller, conn, notes, lib, up, serverVars, appVars, unconfirmed>>

(* The thread ends when the server has closed its end or destruction shuts ours. *)
ConnectionEnds ==
    /\ conn.at = "reads"
    /\ (~server /\ down = <<>>) \/ lib = "joining"
    /\ conn' = [at |-> "gone"]
    /\ UNCHANGED <<tableVars, caller, notes, lib, up, down, serverVars, appVars, unconfirmed>>

(* A notification thread calls the application back. *)
Notify(n) ==
    /\ n \in notes
    /\ notes' = notes \ {n}
    /\ told' = IF n.id \in Ids THEN [told EXCEPT ![n.req] = n.id] ELSE told
    /\ UNCHANGED <<tableVars, caller, conn, lib, up, down, serverVars, over, givenUp, unconfirmed>>

-----------------------------------------------------------------------------
(***************************************************************************)
(* EssRMgrDestroy, called when no request is being made: it joins the      *)
(* reading thread, lets go the calls that wait without a timeout, and      *)
(* waits for the notification threads.                                     *)
(***************************************************************************)

Destroy ==
    /\ lib = "up"
    /\ \A c \in Callers : caller[c].at \in {"idle", "reads"}
    /\ lib' = "joining"
    /\ UNCHANGED <<tableVars, caller, conn, notes, up, down, serverVars, appVars, unconfirmed>>

\* Mutant: the waiting calls are left alone.
LetGoNone == info

LetGo ==
    [q \in Reqs |-> IF Listed(q) /\ info[q].kind = "value"
                    THEN [info[q] EXCEPT !.complete = @ + 1] ELSE info[q]]

Joined ==
    /\ lib = "joining" /\ conn.at = "gone"
    /\ lib' = "notifying"
    /\ info' = LetGo
    /\ requests' = <<>>
    /\ UNCHANGED <<caller, conn, notes, up, down, serverVars, appVars, unconfirmed>>

Destroyed ==
    /\ lib = "notifying" /\ notes = {}
    /\ lib' = "gone"
    /\ UNCHANGED <<tableVars, caller, conn, notes, up, down, serverVars, appVars, unconfirmed>>

-----------------------------------------------------------------------------
(***************************************************************************)
(* The server, as the client sees it.                                      *)
(***************************************************************************)

Serves(kind) == server /\ up # <<>> /\ Head(up).kind = kind /\ up' = Tail(up)

(* An answer grants a free resource, or none; then an asynchronous request may be *)
(* pending.                                                                       *)
ServeRequest(id) ==
    LET q == Head(up).req
    IN /\ Serves("R")
       /\ IF id = None THEN owner' = owner
          ELSE owner[id] = None /\ owner' = [owner EXCEPT ![id] = q]
       /\ \/ waiting' = waiting
          \/ id = None /\ info[q].async /\ waiting' = waiting \cup {q}
       /\ down' = Append(down, Message("R", q, id))
       /\ UNCHANGED <<tableVars, caller, conn, notes, lib, server, asked, appVars, unconfirmed>>

GrantPending(q, id) ==
    /\ server /\ q \in waiting /\ owner[id] = None
    /\ owner' = [owner EXCEPT ![id] = q]
    /\ waiting' = waiting \ {q}
    /\ down' = Append(down, Message("R", q, id))
    /\ UNCHANGED <<tableVars, caller, conn, notes, lib, up, server, asked, appVars, unconfirmed>>

AskBack(id) ==
    /\ server /\ owner[id] # None /\ id \notin asked
    /\ asked' = asked \cup {id}
    /\ down' = Append(down, Message("V", owner[id], id))
    /\ UNCHANGED <<tableVars, caller, conn, notes, lib, up, server, owner, waiting, appVars,
                   unconfirmed>>

ServeRelease ==
    /\ Serves("L")
    /\ owner' = [owner EXCEPT ![Head(up).id] = None]
    /\ asked' = asked \ {Head(up).id}
    /\ UNCHANGED <<tableVars, caller, conn, notes, lib, down, server, waiting, appVars, unconfirmed>>

ServeCancel ==
    LET q == Head(up).req
    IN /\ Serves("C")
       /\ owner' = [r \in Ids |-> IF owner[r] = q THEN None ELSE owner[r]]
       /\ asked' = {r \in asked : owner[r] # q}
       /\ waiting' = waiting \ {q}
       /\ UNCHANGED <<tableVars, caller, conn, notes, lib, down, server, appVars, unconfirmed>>

ServeGetValue ==
    /\ Serves("T")
    /\ down' = Append(down, Message("T", Head(up).req, None))
    /\ UNCHANGED <<tableVars, caller, conn, notes, lib, server, owner, waiting, asked, appVars,
                   unconfirmed>>

ServerDies ==
    /\ server
    /\ server' = FALSE
    /\ up' = <<>>
    /\ UNCHANGED <<tableVars, caller, conn, notes, lib, down, owner, waiting, asked, appVars,
                   unconfirmed>>

-----------------------------------------------------------------------------

Calls(c) ==
    SendRequest(c) \/ TakeAnswer(c) \/ ReturnAnswer(c) \/ GiveUp(c) \/ ReturnValue(c)

Connection ==
    ReadAnswer \/ ReadRevoke \/ ReadValue \/ Confirmed \/ ConfirmTimeout \/ ConnectionEnds

Serve ==
    \/ \E id \in Ids \cup {None} : ServeRequest(id)
    \/ ServeRelease \/ ServeCancel \/ ServeGetValue

Next ==
    \/ \E c \in Callers :
        \/ Calls(c) \/ GetValue(c)
        \/ \E async \in BOOLEAN : Request(c, async)
    \/ \E id \in Ids : ReleaseResource(id) \/ AskBack(id)
    \/ \E q \in Reqs : RequestCancel(q) \/ \E id \in Ids : GrantPending(q, id)
    \/ Connection
    \/ \E n \in notes : Notify(n)
    \/ Destroy \/ Joined \/ Destroyed
    \/ Serve \/ ServerDies

(* Calls go on and their polling ends, the reading thread reads, a server that *)
(* runs serves what it gets, and destruction goes on.  Notifications, and what *)
(* the application does, may take any time.                                    *)
Spec ==
    /\ Init /\ [][Next]_vars
    /\ \A c \in Callers : WF_vars(Calls(c))
    /\ WF_vars(Connection) /\ WF_vars(Serve) /\ WF_vars(Joined)

-----------------------------------------------------------------------------
(***************************************************************************)
(* Properties.                                                             *)
(***************************************************************************)

(* A request is known by its id until the application releases its resource or *)
(* cancels it (essos-resmgr.h says so of requestId), whatever else it releases. *)
IdValid ==
    lib = "up" => \A q \in Made :
        info[q].kind = "resource" /\ q \notin over \cup givenUp => Listed(q)

(* A resource is not revoked from an application that has yet to be told it has *)
(* it: before the callback is started, the call that got it has taken its       *)
(* answer, unless that took longer than the timeout.                            *)
RevokedAfterAnswer ==
    \A n \in notes : n.event = "revoked" =>
        \A c \in Callers : caller[c].at \in {"listed", "waits", "answered"} /\ caller[c].req = n.req
                              => n.req \in unconfirmed

(* What the server believes this client owns, the application knows of or will  *)
(* be told, or its release is on its way, whatever crosses on the socket; only  *)
(* a request that timed out or was cancelled can be granted behind its back.    *)
OnItsWay(q, id) ==
    \/ \E c \in Callers : caller[c] # Idle /\ caller[c].req = q
    \/ \E n \in notes : n.req = q /\ n.id = id
    \/ \E k \in DOMAIN down : down[k] = Message("R", q, id)

NotForgotten ==
    server /\ lib = "up" =>
        \A id \in Ids : owner[id] # None =>
            LET q == owner[id]
            IN \/ told[q] = id /\ q \notin over
               \/ OnItsWay(q, id)
               \/ \E k \in DOMAIN up : up[k].kind = "L" /\ up[k].id = id
               \/ q \in givenUp

(* Every call returns: only reading a value from a server that has gone waits, *)
(* until the library is destroyed.                                              *)
CallsReturn ==
    \A c \in Callers :
        caller[c] # Idle ~> (caller[c] = Idle \/ (~server /\ lib = "up"))

=============================================================================
