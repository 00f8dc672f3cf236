--------------------------- MODULE SocketController ---------------------------
(***************************************************************************)
(* The socket thread of the backend (SocketController.cpp), its clients,   *)
(* and the part of the main thread that shares _watchSockets with it:      *)
(* SendAll, called from the event loop, and the destructor.                *)
(*                                                                         *)
(* _watchSockets is a plain vector that the socket thread changes while    *)
(* the main thread runs over it.  SendAll is therefore modelled in two     *)
(* steps for each position, the load of an element and the write to it;    *)
(* a load while push_back moves the vector may give a freed element.       *)
(* Positions count from 1, so SendAll starts at 2, the intern pipe.        *)
(***************************************************************************)
EXTENDS Integers, Sequences, FiniteSets, SequencesExt

CONSTANTS
  Clients,
  MaxFds,         (* length of _fds                                         *)
  PipeCapacity,   (* bound: messages the worker pipe holds                  *)
  MaxInbox,       (* bound: messages a client sends before they are read    *)
  SendBuffer      (* bound: broadcasts a client may leave unread            *)

ASSUME ClientsAssumption ==
  /\ Clients \cap {"listen", "pipe", "none", "freed", "worker"} = {}
  /\ {MaxFds, PipeCapacity, MaxInbox, SendBuffer} \subseteq Nat
  /\ MaxFds >= 2               (* the listening socket and the intern pipe *)
  /\ IsFiniteSet(Clients)

VARIABLES
  run, watchSockets, fds, backendPipe,      (* members                      *)
  pc, pos, newSocket, tellAt,               (* the thread in Loop           *)
  workerPipe, internPipe, backlog,          (* pipes, listen queue          *)
  peer, inbox, outbox, isOpen,              (* connections                  *)
  main, sendAt, target,                     (* the main thread              *)
  audience, told, disturbed                 (* history of one SendAll       *)

members == <<run, watchSockets, fds, backendPipe>>
loop    == <<pc, pos, newSocket, tellAt>>
wires   == <<peer, inbox, outbox, isOpen>>
send    == <<main, sendAt, target>>
history == <<audience, told, disturbed>>
vars    == <<members, loop, workerPipe, internPipe, backlog, wires, send, history>>

ClientMessages == {"die", "watch"}
WorkerMessages == {"die", "controller", "all"}
Peers == {"away", "open", "eof", "closed"}    (* eof: shut down for writing *)

(* Entry p of _fds as BuildFds leaves it; one entry more than the array     *)
(* holds is written over _backendPipe, which follows it.                    *)
Built(sockets) == [p \in DOMAIN sockets |-> [fd |-> sockets[p], revents |-> {}]]

BuildFds(sockets) ==
  /\ fds' = Built(sockets)
  /\ backendPipe' = IF Len(sockets) > MaxFds THEN sockets[MaxFds + 1] ELSE backendPipe

(* Start and the beginning of Loop. *)
Init ==
  /\ run = TRUE /\ watchSockets = <<"listen", "pipe">> /\ fds = Built(watchSockets)
  /\ backendPipe = "worker"
  /\ pc = "poll" /\ pos = 1 /\ newSocket = "none" /\ tellAt = 1
  /\ workerPipe = <<>> /\ internPipe = 0 /\ backlog = <<>>
  /\ peer = [c \in Clients |-> "away"] /\ isOpen = [c \in Clients |-> FALSE]
  /\ inbox = [c \in Clients |-> <<>>] /\ outbox = [c \in Clients |-> 0]
  /\ main = "event loop" /\ sendAt = 1 /\ target = "none"
  /\ audience = {} /\ told = [c \in Clients |-> 0] /\ disturbed = 0

-----------------------------------------------------------------------------
(* The clients; each stands for one connection. *)
Connect(c) ==
  /\ peer[c] = "away"
  /\ peer' = [peer EXCEPT ![c] = "open"] /\ backlog' = Append(backlog, c)
  /\ UNCHANGED <<members, loop, workerPipe, internPipe, inbox, outbox, isOpen, send, history>>

SendMessage(c, message) ==
  /\ peer[c] = "open" /\ Len(inbox[c]) < MaxInbox
  /\ inbox' = [inbox EXCEPT ![c] = Append(@, message)]
  /\ UNCHANGED <<members, loop, workerPipe, internPipe, backlog, peer, outbox, isOpen, send, history>>

ReadBroadcast(c) ==
  /\ peer[c] # "closed" /\ outbox[c] > 0
  /\ outbox' = [outbox EXCEPT ![c] = @ - 1]
  /\ UNCHANGED <<members, loop, workerPipe, internPipe, backlog, peer, inbox, isOpen, send, history>>

Leave(c) ==
  /\ \/ /\ peer[c] = "open"
        /\ peer' = [peer EXCEPT ![c] = "eof"] /\ UNCHANGED outbox
     \/ /\ peer[c] \in {"open", "eof"}
        /\ peer' = [peer EXCEPT ![c] = "closed"] /\ outbox' = [outbox EXCEPT ![c] = 0]
  /\ UNCHANGED <<members, loop, workerPipe, internPipe, backlog, inbox, isOpen, send, history>>

Client(c) ==
  \/ Connect(c) \/ ReadBroadcast(c) \/ Leave(c)
  \/ \E message \in ClientMessages : SendMessage(c, message)

-----------------------------------------------------------------------------
(* Loop *)

Ready(fd) ==
  CASE fd = "listen" -> IF backlog # <<>> THEN {"IN"} ELSE {}
    [] fd = "pipe"   -> IF internPipe > 0 THEN {"IN"} ELSE {}
    [] OTHER         -> (IF inbox[fd] # <<>> \/ peer[fd] # "open" THEN {"IN"} ELSE {})
                        \cup (IF peer[fd] = "closed" THEN {"HUP"} ELSE {})

Poll ==
  /\ pc = "poll" /\ \E p \in DOMAIN fds : Ready(fds[p].fd) # {}
  /\ fds' = [p \in DOMAIN fds |-> [fds[p] EXCEPT !.revents = Ready(fds[p].fd)]]
  /\ IF run THEN pc' = "scan" /\ pos' = 1
            ELSE pc' = "closing" /\ UNCHANGED pos
  /\ UNCHANGED <<run, watchSockets, backendPipe, newSocket, tellAt, workerPipe, internPipe,
                 backlog, wires, send, history>>

(* The entries of this round with an event.  The intern pipe is never read: *)
(* it is written after _run was cleared, and that ends the loop first.      *)
Pending == {p \in pos..Len(watchSockets) : fds[p].revents # {} /\ fds[p].fd # "pipe"}

Handles(fd) ==
  /\ pc = "scan"
  /\ pos' \in Pending /\ \A p \in Pending : pos' <= p
  /\ fd = fds[pos'].fd

(* The events that are left are overwritten by the next poll. *)
RoundEnds ==
  /\ pc = "scan" /\ Pending = {}
  /\ pc' = IF run THEN "poll" ELSE "closing"
  /\ pos' = 1 /\ fds' = [p \in DOMAIN fds |-> [fds[p] EXCEPT !.revents = {}]]
  /\ UNCHANGED <<run, watchSockets, backendPipe, newSocket, tellAt, workerPipe, internPipe, backlog, wires, send, history>>

Sending == main \in {"load", "write"}

(* History of a SendAll under way: how many clients it may miss.  One that  *)
(* leaves moves the elements behind it and costs at most one other; one     *)
(* that comes may cost all, as push_back frees the old array before it      *)
(* stores the new one, and several loads may fall in between.               *)
ClientLeaves == disturbed' = IF Sending /\ disturbed < Cardinality(Clients) THEN disturbed + 1 ELSE disturbed
ClientComes  == disturbed' = IF Sending THEN Cardinality(Clients) ELSE disturbed

(* HandleAccept, up to accept. *)
HandleAccept ==
  /\ Handles("listen")
  /\ newSocket' = Head(backlog) /\ backlog' = Tail(backlog)
  /\ isOpen' = [isOpen EXCEPT ![newSocket'] = TRUE]
  /\ pc' = "push"
  /\ ClientComes
  /\ UNCHANGED <<members, tellAt, workerPipe, internPipe, peer, inbox, outbox, send, audience, told>>

(* Mutant: the descriptor is pushed after it was forgotten. *)
PushForgotten ==
  /\ pc = "push"
  /\ newSocket' = "none" /\ watchSockets' = Append(watchSockets, newSocket') /\ BuildFds(watchSockets')
  /\ pos' = pos + 1 /\ pc' = "scan"
  /\ UNCHANGED <<run, tellAt, workerPipe, internPipe, backlog, wires, send, history>>

(* push_back and BuildFds, which clears the events of this round. *)
PushSocket ==
  /\ pc = "push"
  /\ watchSockets' = Append(watchSockets, newSocket) /\ BuildFds(watchSockets')
  /\ newSocket' = "none" /\ pos' = pos + 1 /\ pc' = "scan"
  /\ UNCHANGED <<run, tellAt, workerPipe, internPipe, backlog, wires, send, history>>

(* read takes all the bytes there are, so two messages that arrive together *)
(* are one text, and it parses as neither.                                  *)
Text(c) == IF Len(inbox[c]) = 1 THEN inbox[c][1] ELSE "unparseable"

WorkerPipeHasRoom == Len(workerPipe) < PipeCapacity

(* A worker message for the main thread is lost when the pipe is full, and  *)
(* goes to a client once _backendPipe was written over.                     *)
HandleReceived(c) ==
  LET message == IF Text(c) = "watch" THEN "controller" ELSE Text(c) IN
  /\ inbox' = [inbox EXCEPT ![c] = <<>>]
  /\ IF message \in WorkerMessages /\ WorkerPipeHasRoom /\ backendPipe = "worker"
     THEN workerPipe' = Append(workerPipe, message) ELSE UNCHANGED workerPipe
  /\ IF message = "die" /\ WorkerPipeHasRoom
     THEN pc' = "tell" /\ tellAt' = 2 ELSE pc' = "hup" /\ UNCHANGED tellAt

(* Mutant: a connection that hung up is closed without reading it. *)
ReceiveUnlessHup ==
  /\ \E c \in Clients :
       /\ Handles(c)
       /\ IF "HUP" \in fds[pos'].revents
          THEN pc' = "hup" /\ UNCHANGED <<inbox, workerPipe, tellAt>>
          ELSE HandleReceived(c)
  /\ UNCHANGED <<members, newSocket, internPipe, backlog, peer, outbox, isOpen, send, history>>

Receive ==
  /\ \E c \in Clients : Handles(c) /\ HandleReceived(c)
  /\ UNCHANGED <<members, newSocket, internPipe, backlog, peer, outbox, isOpen, send, history>>

(* write blocks while the client leaves its buffer full; it fails on a      *)
(* connection that either side closed and on the intern pipe.               *)
Writable(fd) == fd \in Clients => ~isOpen[fd] \/ peer[fd] = "closed" \/ outbox[fd] < SendBuffer

Reaches(fd) == fd \in Clients /\ isOpen[fd] /\ peer[fd] # "closed"

WriteTo(fd) ==
  outbox' = IF Reaches(fd) THEN [outbox EXCEPT ![fd] = @ + 1] ELSE outbox

(* SendAll("selbstmord") by the socket thread. *)
TellAll ==
  /\ pc = "tell"
  /\ IF tellAt <= Len(watchSockets)
     THEN /\ Writable(watchSockets[tellAt]) /\ WriteTo(watchSockets[tellAt])
          /\ tellAt' = tellAt + 1 /\ UNCHANGED pc
     ELSE pc' = "hup" /\ tellAt' = 1 /\ UNCHANGED outbox
  /\ UNCHANGED <<members, pos, newSocket, workerPipe, internPipe, backlog, peer, inbox, isOpen, send, history>>

(* The first entry that is the socket is erased, if there is one. *)
Erase(c) ==
  IF c \in Range(watchSockets)
  THEN \E p \in DOMAIN watchSockets :
         /\ watchSockets[p] = c /\ \A q \in 1..(p - 1) : watchSockets[q] # c
         /\ watchSockets' = RemoveAt(watchSockets, p)
  ELSE UNCHANGED watchSockets

(* Mutant: the socket is no longer watched but stays open. *)
HandleClosedNoClose(c) == Erase(c) /\ UNCHANGED isOpen

HandleClosed(c) == Erase(c) /\ isOpen' = [isOpen EXCEPT ![c] = FALSE]

(* Mutant: the array is not rebuilt after a close. *)
HupNoBuild ==
  /\ pc = "hup"
  /\ LET Entry == fds[pos] IN
     IF "HUP" \in Entry.revents
     THEN /\ HandleClosed(Entry.fd) /\ UNCHANGED <<fds, backendPipe>>
          /\ audience' = audience \ {Entry.fd} /\ told' = [told EXCEPT ![Entry.fd] = 0] /\ ClientLeaves
     ELSE UNCHANGED <<isOpen, watchSockets, fds, backendPipe, history>>
  /\ pos' = pos + 1 /\ pc' = "scan"
  /\ UNCHANGED <<run, newSocket, tellAt, workerPipe, internPipe, backlog, peer, inbox, outbox, send>>

Hup ==
  /\ pc = "hup"
  /\ LET Entry == fds[pos] IN
     IF "HUP" \in Entry.revents
     THEN /\ HandleClosed(Entry.fd) /\ BuildFds(watchSockets')
          /\ audience' = audience \ {Entry.fd} /\ told' = [told EXCEPT ![Entry.fd] = 0] /\ ClientLeaves
     ELSE UNCHANGED <<isOpen, watchSockets, fds, backendPipe, history>>
  /\ pos' = pos + 1 /\ pc' = "scan"
  /\ UNCHANGED <<run, newSocket, tellAt, workerPipe, internPipe, backlog, peer, inbox, outbox, send>>

CloseAll ==
  /\ pc = "closing"
  /\ isOpen' = [c \in Clients |-> isOpen[c] /\ c \notin Range(watchSockets)]
  /\ pc' = "ended"
  /\ UNCHANGED <<members, pos, newSocket, tellAt, workerPipe, internPipe, backlog, peer, inbox,
                 outbox, send, history>>

Loop ==
  \/ Poll \/ RoundEnds \/ HandleAccept \/ PushSocket \/ Receive \/ TellAll \/ Hup
  \/ CloseAll

-----------------------------------------------------------------------------
(* The main thread *)

(* The serial thread or udev posts a message for all clients, or udev one   *)
(* for the BackendController.                                               *)
PostMessage ==
  /\ WorkerPipeHasRoom /\ main # "joined"
  /\ \E message \in {"all", "controller"} : workerPipe' = Append(workerPipe, message)
  /\ UNCHANGED <<members, loop, internPipe, backlog, wires, send, history>>

(* Mutant: a message to die is taken and forgotten. *)
PipeReceiveNoExit ==
  /\ main = "event loop" /\ workerPipe # <<>>
  /\ workerPipe' = Tail(workerPipe)
  /\ IF Head(workerPipe) = "all"
     THEN /\ main' = "load" /\ sendAt' = 2
          /\ audience' = Range(watchSockets) \cap Clients
          /\ disturbed' = (IF pc = "push" THEN Cardinality(Clients) ELSE 0) /\ UNCHANGED told
     ELSE UNCHANGED <<main, sendAt, history>>
  /\ UNCHANGED <<members, loop, internPipe, backlog, wires, target>>

(* pipe_receive *)
PipeReceive ==
  /\ main = "event loop" /\ workerPipe # <<>>
  /\ workerPipe' = Tail(workerPipe)
  /\ CASE Head(workerPipe) = "all" ->
            /\ main' = "load" /\ sendAt' = 2
            /\ audience' = Range(watchSockets) \cap Clients
            /\ disturbed' = (IF pc = "push" THEN Cardinality(Clients) ELSE 0) /\ UNCHANGED told
       [] Head(workerPipe) = "die" -> main' = "leaving" /\ UNCHANGED <<sendAt, history>>
       [] OTHER -> UNCHANGED <<main, sendAt, history>>
  /\ UNCHANGED <<members, loop, internPipe, backlog, wires, target>>

(* A signal ends the event loop. *)
Signal ==
  /\ main = "event loop"
  /\ main' = "leaving"
  /\ UNCHANGED <<members, loop, workerPipe, internPipe, backlog, wires, sendAt, target, history>>

(* SendAll by the main thread: the load of one element, *)
SendAllLoad ==
  /\ main = "load"
  /\ IF sendAt <= Len(watchSockets)
     THEN /\ target' \in {watchSockets[sendAt]} \cup (IF pc = "push" THEN {"freed"} ELSE {})
          /\ main' = "write" /\ UNCHANGED <<sendAt, history>>
     ELSE /\ main' = "event loop" /\ target' = "none" /\ sendAt' = 1
          /\ audience' = {} /\ told' = [c \in Clients |-> 0] /\ disturbed' = 0
  /\ UNCHANGED <<members, loop, workerPipe, internPipe, backlog, wires>>

(* Mutant: the write does not advance past a client. *)
SendAllWriteTwice ==
  /\ main = "write" /\ Writable(target)
  /\ WriteTo(target)
  /\ told' = IF Reaches(target) THEN [told EXCEPT ![target] = @ + 1] ELSE told
  /\ sendAt' = sendAt + (IF Reaches(target) /\ told[target] = 0 THEN 0 ELSE 1)
  /\ target' = "none" /\ main' = "load"
  /\ UNCHANGED <<members, loop, workerPipe, internPipe, backlog, peer, inbox, isOpen, audience,
                 disturbed>>

(* and the write to it. *)
SendAllWrite ==
  /\ main = "write" /\ Writable(target)
  /\ WriteTo(target)
  /\ told' = IF Reaches(target) THEN [told EXCEPT ![target] = @ + 1] ELSE told
  /\ sendAt' = sendAt + 1 /\ target' = "none" /\ main' = "load"
  /\ UNCHANGED <<members, loop, workerPipe, internPipe, backlog, peer, inbox, isOpen, audience,
                 disturbed>>

(* Mutant: the destructor clears _run but does not wake the thread. *)
StopNoWake ==
  /\ main = "leaving"
  /\ run' = FALSE /\ main' = "join"
  /\ UNCHANGED <<watchSockets, fds, backendPipe, loop, workerPipe, internPipe, backlog, wires,
                 sendAt, target, history>>

(* ~SocketController: clear _run and wake the thread, *)
Stop ==
  /\ main = "leaving"
  /\ run' = FALSE /\ internPipe' = 1 /\ main' = "join"
  /\ UNCHANGED <<watchSockets, fds, backendPipe, loop, workerPipe, backlog, wires, sendAt, target,
                 history>>

(* then wait for it. *)
Join ==
  /\ main = "join" /\ pc = "ended"
  /\ main' = "joined"
  /\ UNCHANGED <<members, loop, workerPipe, internPipe, backlog, wires, sendAt, target, history>>

MainThread == PipeReceive \/ SendAllLoad \/ SendAllWrite \/ Stop \/ Join

Ended == main = "joined" /\ UNCHANGED vars

Next == (\E c \in Clients : Client(c)) \/ Loop \/ PostMessage \/ Signal \/ MainThread \/ Ended

Spec == Init /\ [][Next]_vars

-----------------------------------------------------------------------------
(* Properties *)

Descriptors == Clients \cup {"listen", "pipe"}

TypeOK ==
  /\ run \in BOOLEAN /\ watchSockets \in Seq(Descriptors)
  /\ fds \in Seq([fd : Descriptors, revents : SUBSET {"IN", "HUP"}])
  /\ backendPipe \in Clients \cup {"worker"}
  /\ pc \in {"poll", "scan", "push", "tell", "hup", "closing", "ended"}
  /\ pos \in Nat /\ newSocket \in Clients \cup {"none"} /\ tellAt \in Nat
  /\ workerPipe \in Seq(WorkerMessages) /\ Len(workerPipe) <= PipeCapacity
  /\ internPipe \in 0..1 /\ backlog \in Seq(Clients)
  /\ peer \in [Clients -> Peers] /\ isOpen \in [Clients -> BOOLEAN]
  /\ inbox \in [Clients -> Seq(ClientMessages)] /\ outbox \in [Clients -> 0..SendBuffer]
  /\ main \in {"event loop", "load", "write", "leaving", "join", "joined"}
  /\ sendAt \in Nat /\ target \in Descriptors \cup {"none", "freed"}
  /\ audience \subseteq Clients /\ told \in [Clients -> Nat] /\ disturbed \in Nat

(* An event found by poll is never applied to another descriptor than the   *)
(* one it was reported for, nor to one already closed, although accept and  *)
(* close rebuild _fds in the middle of a round.                             *)
EventsFitSockets ==
  /\ [p \in DOMAIN fds |-> fds[p].fd] = watchSockets
  /\ pc \in {"scan", "push", "tell", "hup"} => \A p \in DOMAIN fds :
       p > pos \/ (p = pos /\ pc = "scan") =>
         /\ fds[p].revents \subseteq Ready(fds[p].fd)
         /\ fds[p].fd \in Clients /\ fds[p].revents # {} => isOpen[fds[p].fd]

(* SendAll runs over _watchSockets while the socket thread changes it.  No  *)
(* client that stays gets a broadcast twice, and unless one came meanwhile  *)
(* at most one is missed for each that left.                                *)
Missed == {c \in audience : told[c] = 0 /\ peer[c] # "closed"}
BroadcastReaches ==
  /\ \A c \in audience : told[c] <= 1
  /\ main = "load" /\ sendAt > Len(watchSockets) => Cardinality(Missed) <= disturbed

(* As long as the socket thread serves, what a client sent before it hung   *)
(* up is read before its connection is closed (Loop, POLLIN before          *)
(* POLLHUP).  At its end the thread closes all connections, read or not.    *)
LastWordsRead ==
  [][\A c \in Clients : isOpen[c] /\ ~isOpen'[c] /\ pc # "closing" => inbox[c] = <<>>]_vars

(* SocketController.hpp:19, "Max clients Listen + 2": the array holds every *)
(* watched socket, so the pipe to the main thread behind it stays intact.   *)
WorkerPipeIntact == backendPipe = "worker"
=============================================================================
