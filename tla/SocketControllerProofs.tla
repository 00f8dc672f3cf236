------------------------ MODULE SocketControllerProofs ------------------------
(***************************************************************************)
(* Proofs about SocketController, for any number of clients: accept and    *)
(* close rebuild _fds in the middle of a round, and still no event is      *)
(* applied to a descriptor it was not reported for; and SendAll, run by    *)
(* the main thread meanwhile, misses no more clients than left.            *)
(***************************************************************************)
EXTENDS SocketController, SequenceTheorems, FiniteSetTheorems, TLAPS

Entries == [fd : Descriptors, revents : SUBSET {"IN", "HUP"}]

Distinct(s) == \A i, j \in 1..Len(s) : s[i] = s[j] => i = j

-----------------------------------------------------------------------------
(* The operators on _watchSockets. *)

LEMMA BuiltFits ==
  ASSUME NEW s \in Seq(Descriptors)
  PROVE  /\ Built(s) \in Seq(Entries) /\ Len(Built(s)) = Len(s)
         /\ \A p \in 1..Len(s) : Built(s)[p].fd = s[p] /\ Built(s)[p].revents = {}
<1>1. DOMAIN s = 1..Len(s) /\ Len(s) \in Nat /\ \A p \in 1..Len(s) : s[p] \in Descriptors
  BY LenProperties, ElementOfSeq
<1>2. Built(s) \in [1..Len(s) -> Entries]
  BY <1>1 DEF Built, Entries
<1>3. Built(s) \in Seq(Entries) /\ Len(Built(s)) = Len(s)
  BY <1>1, <1>2, LenProperties
<1> QED BY <1>1, <1>3 DEF Built

LEMMA AppendDistinct ==
  ASSUME NEW S, NEW s \in Seq(S), NEW e \in S, Distinct(s), \A i \in 1..Len(s) : s[i] # e
  PROVE  Distinct(Append(s, e))
<1>1. /\ Len(s) \in Nat /\ Len(Append(s, e)) = Len(s) + 1
      /\ \A i \in 1..Len(s) : Append(s, e)[i] = s[i]
      /\ Append(s, e)[Len(s) + 1] = e
  BY AppendProperties, LenProperties
<1> QED BY <1>1 DEF Distinct

LEMMA RemoveAtFacts ==
  ASSUME NEW S, NEW s \in Seq(S), NEW k \in 1..Len(s)
  PROVE  /\ RemoveAt(s, k) \in Seq(S) /\ Len(RemoveAt(s, k)) = Len(s) - 1
         /\ \A i \in 1..(Len(s) - 1) : RemoveAt(s, k)[i] = IF i < k THEN s[i] ELSE s[i + 1]
<1> DEFINE Before == SubSeq(s, 1, k - 1)
           After  == SubSeq(s, k + 1, Len(s))
<1>1. Len(s) \in Nat /\ \A i \in 1..Len(s) : s[i] \in S
  BY LenProperties, ElementOfSeq
<1>2. /\ Before \in Seq(S) /\ Len(Before) = k - 1
      /\ \A i \in 1..(k - 1) : Before[i] = s[i]
  <2>1. \A i \in 1..(k - 1) : s[i] \in S
    BY <1>1
  <2>2. 1 \in Int /\ k - 1 \in Int
    BY <1>1
  <2>3. /\ Before \in Seq(S) /\ Len(Before) = IF 1 <= k - 1 THEN k - 1 - 1 + 1 ELSE 0
        /\ \A i \in 1..(k - 1 - 1 + 1) : Before[i] = s[1 + i - 1]
    BY <2>1, <2>2, SubSeqProperties
  <2> HIDE DEF Before
  <2> QED BY <2>3, <1>1
<1>3. /\ After \in Seq(S) /\ Len(After) = Len(s) - k
      /\ \A i \in 1..(Len(s) - k) : After[i] = s[k + i]
  <2>1. \A i \in (k + 1)..Len(s) : s[i] \in S
    BY <1>1
  <2>2. k + 1 \in Int /\ Len(s) \in Int
    BY <1>1
  <2>3. /\ After \in Seq(S)
        /\ Len(After) = IF k + 1 <= Len(s) THEN Len(s) - (k + 1) + 1 ELSE 0
        /\ \A i \in 1..(Len(s) - (k + 1) + 1) : After[i] = s[k + 1 + i - 1]
    BY <2>1, <2>2, SubSeqProperties
  <2> HIDE DEF After
  <2> QED BY <2>3, <1>1
<1> HIDE DEF Before, After
<1>4. /\ Before \o After \in Seq(S) /\ Len(Before \o After) = Len(Before) + Len(After)
      /\ \A i \in 1..(Len(Before) + Len(After)) :
           (Before \o After)[i] = IF i <= Len(Before) THEN Before[i] ELSE After[i - Len(Before)]
  BY <1>2, <1>3, ConcatProperties
<1>5. RemoveAt(s, k) = Before \o After
  BY DEF RemoveAt, Before, After
<1>6. Len(Before) + Len(After) = Len(s) - 1
  BY <1>1, <1>2, <1>3
<1>7. ASSUME NEW i \in 1..(Len(s) - 1)
      PROVE  (Before \o After)[i] = IF i < k THEN s[i] ELSE s[i + 1]
  <2>1. CASE i < k
    BY <1>1, <1>2, <1>4, <1>6, <2>1
  <2>2. CASE ~(i < k)
    <3>1. i - (k - 1) \in 1..(Len(s) - k) /\ k + (i - (k - 1)) = i + 1
      BY <1>1, <2>2
    <3>2. (Before \o After)[i] = After[i - (k - 1)]
      BY <1>1, <1>2, <1>4, <1>6, <2>2
    <3> QED BY <3>1, <3>2, <1>3, <2>2
  <2> QED BY <2>1, <2>2
<1> QED BY <1>4, <1>5, <1>6, <1>7

LEMMA RemoveAtDistinct ==
  ASSUME NEW S, NEW s \in Seq(S), NEW k \in 1..Len(s), Distinct(s)
  PROVE  /\ Distinct(RemoveAt(s, k))
         /\ \A i \in 1..Len(RemoveAt(s, k)) : RemoveAt(s, k)[i] # s[k]
<1>1. /\ Len(s) \in Nat /\ Len(RemoveAt(s, k)) = Len(s) - 1
      /\ \A i \in 1..(Len(s) - 1) : RemoveAt(s, k)[i] = IF i < k THEN s[i] ELSE s[i + 1]
  BY RemoveAtFacts, LenProperties
<1>2. ASSUME NEW i \in 1..(Len(s) - 1), NEW j \in 1..(Len(s) - 1),
             RemoveAt(s, k)[i] = RemoveAt(s, k)[j]
      PROVE  i = j
  BY <1>1, <1>2 DEF Distinct
<1>3. ASSUME NEW i \in 1..(Len(s) - 1) PROVE RemoveAt(s, k)[i] # s[k]
  BY <1>1 DEF Distinct
<1> QED BY <1>1, <1>2, <1>3 DEF Distinct

-----------------------------------------------------------------------------
(* The inductive invariant.  A descriptor is in one place: watched, in the  *)
(* hands of HandleAccept, or waiting to be accepted.  So whatever a handler *)
(* does to its own descriptor leaves the events of the others as they are.  *)

Positions == 1..Len(watchSockets)

Watched ==
  /\ Distinct(watchSockets)
  /\ Len(watchSockets) >= 2 /\ watchSockets[1] = "listen" /\ watchSockets[2] = "pipe"
  /\ \A p \in Positions : watchSockets[p] \in Clients =>
       /\ peer[watchSockets[p]] # "away"
       /\ pc # "ended" => isOpen[watchSockets[p]]

Queued ==
  /\ Distinct(backlog)
  /\ \A i \in 1..Len(backlog) :
       /\ peer[backlog[i]] # "away"
       /\ \A p \in Positions : watchSockets[p] # backlog[i]

Accepted ==
  pc = "push" =>
    /\ newSocket \in Clients /\ peer[newSocket] # "away" /\ isOpen[newSocket]
    /\ \A p \in Positions : watchSockets[p] # newSocket
    /\ \A i \in 1..Len(backlog) : backlog[i] # newSocket

Matched == Len(fds) = Len(watchSockets) /\ \A p \in Positions : fds[p].fd = watchSockets[p]

Ahead(p) == p > pos \/ (p = pos /\ pc = "scan")

Fits ==
  pc \in {"scan", "push", "tell", "hup"} =>
    \A p \in Positions : Ahead(p) => fds[p].revents \subseteq Ready(watchSockets[p])

(* A connection that hung up has been read to its end when Hup is reached.  *)
Handling ==
  pc \in {"tell", "hup"} =>
    /\ pos \in Positions /\ watchSockets[pos] \in Clients
    /\ "HUP" \in fds[pos].revents =>
         peer[watchSockets[pos]] = "closed" /\ inbox[watchSockets[pos]] = <<>>

(* Everything but the types. *)
Shape == sendAt >= 1 /\ pos >= 1 /\ Watched /\ Queued /\ Accepted /\ Matched /\ Fits /\ Handling

SocketInv == TypeOK /\ Shape

LEMMA InitInv == Init => SocketInv
<1> SUFFICES ASSUME Init PROVE SocketInv
  OBVIOUS
<1>1. /\ watchSockets \in Seq(Descriptors) /\ Len(watchSockets) = 2
      /\ watchSockets[1] = "listen" /\ watchSockets[2] = "pipe"
  <2>1. watchSockets = <<"listen", "pipe">>
    BY DEF Init
  <2>2. "listen" \in Descriptors /\ "pipe" \in Descriptors
    BY DEF Descriptors
  <2> QED BY <2>1, <2>2
<1>2. fds = Built(watchSockets) /\ fds \in Seq(Entries) /\ Matched
  BY <1>1, BuiltFits DEF Init, Matched, Positions
<1>3. TypeOK
  <2>1. inbox \in [Clients -> Seq(ClientMessages)] /\ workerPipe = <<>> /\ backlog \in Seq(Clients)
    BY EmptySeq DEF Init
  <2>2. workerPipe \in Seq(WorkerMessages) /\ Len(workerPipe) = 0
    BY <2>1, EmptySeq
  <2>3. PipeCapacity \in Nat /\ SendBuffer \in Nat
    BY ClientsAssumption
  <2>4. outbox \in [Clients -> 0..SendBuffer]
    <3>1. outbox = [c \in Clients |-> 0]
      BY DEF Init
    <3>2. 0 \in 0..SendBuffer
      BY <2>3
    <3> QED BY <3>1, <3>2
  <2>5. Len(workerPipe) <= PipeCapacity
    BY <2>2, <2>3
  <2>6. peer \in [Clients -> Peers] /\ isOpen \in [Clients -> BOOLEAN] /\ told \in [Clients -> Nat]
    BY DEF Init, Peers
  <2>7. /\ run \in BOOLEAN /\ backendPipe \in Clients \cup {"worker"}
        /\ pc \in {"poll", "scan", "push", "tell", "hup", "closing", "ended"}
        /\ pos \in Nat /\ newSocket \in Clients \cup {"none"} /\ tellAt \in Nat
        /\ internPipe \in 0..1
        /\ main \in {"event loop", "load", "write", "leaving", "join", "joined"}
        /\ sendAt \in Nat /\ target \in Descriptors \cup {"none", "freed"}
        /\ audience \subseteq Clients /\ disturbed \in Nat
    <3>1. run \in BOOLEAN
      BY DEF Init
    <3>2. /\ backendPipe = "worker" /\ pc = "poll" /\ newSocket = "none"
          /\ main = "event loop" /\ target = "none" /\ audience = {}
      BY DEF Init
    <3>3. pos = 1 /\ tellAt = 1 /\ internPipe = 0 /\ sendAt = 1 /\ disturbed = 0
      BY DEF Init
    <3>4. pos \in Nat /\ tellAt \in Nat /\ internPipe \in 0..1 /\ sendAt \in Nat /\ disturbed \in Nat
      BY <3>3
    <3> QED BY <3>1, <3>2, <3>4
  <2>8. fds \in Seq([fd : Descriptors, revents : SUBSET {"IN", "HUP"}])
    BY <1>2 DEF Entries
  <2> QED BY <1>1, <2>1, <2>2, <2>4, <2>5, <2>6, <2>7, <2>8 DEF TypeOK
<1>4. Watched
  BY <1>1, ClientsAssumption DEF Watched, Distinct, Positions
<1>5. Queued
  <2>1. Len(backlog) = 0
    BY EmptySeq DEF Init
  <2> QED BY <2>1 DEF Queued, Distinct
<1>6. Accepted /\ Fits /\ Handling
  BY DEF Init, Accepted, Fits, Handling
<1>7. sendAt >= 1 /\ pos >= 1
  <2>1. sendAt = 1 /\ pos = 1
    BY DEF Init
  <2> QED BY <2>1
<1> QED BY <1>2, <1>3, <1>4, <1>5, <1>6, <1>7 DEF SocketInv, Shape

(* The first two entries are never clients: erasing one leaves them.        *)
LEMMA EraseFacts ==
  ASSUME SocketInv, NEW c \in Clients, Erase(c)
  PROVE  /\ watchSockets' \in Seq(Descriptors) /\ Distinct(watchSockets')
         /\ Len(watchSockets') >= 2 /\ watchSockets'[1] = "listen" /\ watchSockets'[2] = "pipe"
         /\ \A p \in 1..Len(watchSockets') :
              watchSockets'[p] # c /\ \E q \in Positions : watchSockets'[p] = watchSockets[q]
<1>1. /\ watchSockets \in Seq(Descriptors) /\ Len(watchSockets) \in Nat
      /\ DOMAIN watchSockets = Positions
  BY LenProperties DEF SocketInv, TypeOK, Positions
<1>2. Distinct(watchSockets) /\ Len(watchSockets) >= 2 /\ watchSockets[1] = "listen" /\ watchSockets[2] = "pipe"
  BY DEF SocketInv, Shape, Watched
<1>3. CASE c \in Range(watchSockets)
  <2>1. PICK k \in Positions : watchSockets[k] = c /\ watchSockets' = RemoveAt(watchSockets, k)
    BY <1>1, <1>3 DEF Erase
  <2>2. k # 1 /\ k # 2
    BY <1>2, <2>1, ClientsAssumption
  <2>3. /\ watchSockets' \in Seq(Descriptors) /\ Len(watchSockets') = Len(watchSockets) - 1
        /\ \A i \in 1..(Len(watchSockets) - 1) :
             watchSockets'[i] = IF i < k THEN watchSockets[i] ELSE watchSockets[i + 1]
    BY <1>1, <2>1, RemoveAtFacts DEF Positions
  <2>4. Distinct(watchSockets') /\ \A i \in 1..Len(watchSockets') : watchSockets'[i] # c
    BY <1>1, <1>2, <2>1, RemoveAtDistinct DEF Positions
  <2>5. k \in 3..Len(watchSockets)
    BY <1>1, <2>2 DEF Positions
  <2>6. \A i \in 1..Len(watchSockets') : \E q \in Positions : watchSockets'[i] = watchSockets[q]
    <3>1. SUFFICES ASSUME NEW i \in 1..Len(watchSockets')
                   PROVE  \E q \in Positions : watchSockets'[i] = watchSockets[q]
      OBVIOUS
    <3>2. i \in Positions /\ i + 1 \in Positions
      BY <1>1, <2>3 DEF Positions
    <3> QED BY <1>1, <2>3, <3>2
  <2> QED BY <1>1, <1>2, <2>3, <2>4, <2>5, <2>6
<1>4. CASE c \notin Range(watchSockets)
  BY <1>1, <1>2, <1>4 DEF Erase, Range, Positions
<1> QED BY <1>3, <1>4

(* BuildFds after a change of _watchSockets that keeps its first entries.   *)
LEMMA BuildFacts ==
  ASSUME SocketInv, BuildFds(watchSockets'), watchSockets' \in Seq(Descriptors),
         Distinct(watchSockets'), watchSockets'[1] = "listen", watchSockets'[2] = "pipe"
  PROVE  /\ fds' \in Seq(Entries) /\ Matched' /\ backendPipe' \in Clients \cup {"worker"}
         /\ \A p \in Positions' : fds'[p].revents = {}
<1>1. fds' \in Seq(Entries) /\ Matched' /\ \A p \in Positions' : fds'[p].revents = {}
  BY BuiltFits DEF BuildFds, Matched, Positions
<1>2. ASSUME Len(watchSockets') > MaxFds PROVE watchSockets'[MaxFds + 1] \in Clients
  <2>1. MaxFds + 1 \in 3..Len(watchSockets') /\ Len(watchSockets') \in Nat
    BY <1>2, ClientsAssumption, LenProperties
  <2>2. watchSockets'[MaxFds + 1] \in Descriptors
    BY <2>1, ElementOfSeq
  <2>3. watchSockets'[MaxFds + 1] # "listen" /\ watchSockets'[MaxFds + 1] # "pipe"
    BY <2>1 DEF Distinct
  <2> QED BY <2>2, <2>3 DEF Descriptors
<1>3. backendPipe' \in Clients \cup {"worker"}
  BY <1>2 DEF BuildFds, SocketInv, TypeOK
<1> QED BY <1>1, <1>3

-----------------------------------------------------------------------------
(* The types *)

LEMMA WriteTyped ==
  ASSUME TypeOK, NEW fd, Writable(fd), WriteTo(fd) PROVE outbox' \in [Clients -> 0..SendBuffer]
<1>1. outbox \in [Clients -> 0..SendBuffer] /\ SendBuffer \in Nat
  BY ClientsAssumption DEF TypeOK
<1>2. CASE Reaches(fd)
  <2>1. fd \in Clients /\ outbox[fd] + 1 \in 0..SendBuffer
    BY <1>1, <1>2 DEF Reaches, Writable
  <2> QED BY <1>1, <1>2, <2>1 DEF WriteTo
<1>3. CASE ~Reaches(fd)
  BY <1>1, <1>3 DEF WriteTo
<1> QED BY <1>2, <1>3

LEMMA ClientTypes ==
  ASSUME TypeOK, NEW c \in Clients, Client(c) PROVE TypeOK'
<1>a. /\ peer \in [Clients -> Peers] /\ backlog \in Seq(Clients)
      /\ inbox \in [Clients -> Seq(ClientMessages)]
      /\ outbox \in [Clients -> 0..SendBuffer] /\ SendBuffer \in Nat
  BY ClientsAssumption DEF TypeOK
<1>1. CASE Connect(c)
  <2>1. peer' \in [Clients -> Peers] /\ backlog' \in Seq(Clients)
    BY <1>1, <1>a, AppendProperties DEF Connect, Peers
  <2> QED BY <1>1, <2>1 DEF Connect, TypeOK, members, loop, send, history
<1>2. CASE \E message \in ClientMessages : SendMessage(c, message)
  <2>1. inbox' \in [Clients -> Seq(ClientMessages)]
    <3>1. PICK message \in ClientMessages : inbox' = [inbox EXCEPT ![c] = Append(@, message)]
      BY <1>2 DEF SendMessage
    <3>2. Append(inbox[c], message) \in Seq(ClientMessages)
      BY <1>a, AppendProperties
    <3> QED BY <1>a, <3>1, <3>2
  <2> QED BY <1>2, <2>1 DEF SendMessage, TypeOK, members, loop, send, history
<1>3. CASE ReadBroadcast(c)
  <2>1. outbox' \in [Clients -> 0..SendBuffer]
    <3>1. outbox' = [outbox EXCEPT ![c] = @ - 1] /\ outbox[c] - 1 \in 0..SendBuffer
      BY <1>3, <1>a DEF ReadBroadcast
    <3> QED BY <1>a, <3>1
  <2> QED BY <1>3, <2>1 DEF ReadBroadcast, TypeOK, members, loop, send, history
<1>4. CASE Leave(c)
  <2>1. outbox' \in [Clients -> 0..SendBuffer]
    <3>1. outbox' = outbox \/ outbox' = [outbox EXCEPT ![c] = 0]
      BY <1>4 DEF Leave
    <3>2. 0 \in 0..SendBuffer
      BY <1>a
    <3> QED BY <1>a, <3>1, <3>2
  <2>2. peer' \in [Clients -> Peers]
    BY <1>4, <1>a DEF Leave, Peers
  <2> QED BY <1>4, <2>1, <2>2 DEF Leave, TypeOK, members, loop, send, history
<1> QED BY <1>1, <1>2, <1>3, <1>4 DEF Client

(* Whatever is handled is an entry with an event. *)
LEMMA HandlesFacts ==
  ASSUME SocketInv, NEW fd, Handles(fd)
  PROVE  /\ pos' \in Positions /\ pos' \in Nat /\ pos' >= pos /\ watchSockets[pos'] = fd
         /\ fds[pos'].fd = fd /\ fds[pos'].revents # {}
         /\ fds[pos'].revents \subseteq Ready(fd) /\ pc = "scan"
<1>1. pos \in Nat /\ Len(watchSockets) \in Nat
  BY LenProperties DEF SocketInv, TypeOK
<1>2. /\ pc = "scan" /\ pos' \in pos..Len(watchSockets)
      /\ fds[pos'].revents # {} /\ fds[pos'].fd = fd
  BY DEF Handles, Pending
<1>3. pos' \in Positions
  BY <1>1, <1>2 DEF Positions, SocketInv, Shape
<1>4. Ahead(pos')
  BY <1>1, <1>2 DEF Ahead
<1>5. watchSockets[pos'] = fd /\ fds[pos'].revents \subseteq Ready(fd)
  BY <1>2, <1>3, <1>4 DEF SocketInv, Shape, Matched, Fits
<1> QED BY <1>1, <1>2, <1>3, <1>5

LEMMA LoopTypes ==
  ASSUME SocketInv, Loop PROVE TypeOK'
<1> TypeOK
  BY DEF SocketInv
<1>a. /\ fds \in Seq(Entries) /\ watchSockets \in Seq(Descriptors) /\ backlog \in Seq(Clients)
      /\ inbox \in [Clients -> Seq(ClientMessages)] /\ isOpen \in [Clients -> BOOLEAN]
      /\ told \in [Clients -> Nat] /\ workerPipe \in Seq(WorkerMessages)
  BY DEF TypeOK, Entries
<1>e. pos \in Nat /\ tellAt \in Nat /\ Len(workerPipe) <= PipeCapacity
  BY DEF TypeOK
<1>b. Len(fds) \in Nat /\ DOMAIN fds = 1..Len(fds) /\ \A p \in 1..Len(fds) : fds[p] \in Entries
  BY <1>a, LenProperties, ElementOfSeq
<1>c. ASSUME NEW g, g \in [1..Len(fds) -> Entries] PROVE g \in Seq(Entries)
  BY <1>b, <1>c
<1>d. disturbed \in Nat /\ (ClientLeaves \/ ClientComes => disturbed' \in Nat)
  <2>1. disturbed \in Nat /\ Cardinality(Clients) \in Nat
    BY ClientsAssumption, FS_CardinalityType DEF TypeOK
  <2> QED BY <2>1 DEF ClientLeaves, ClientComes
<1>1. CASE Poll
  <2>1. fds' \in Seq(Entries)
    <3>1. \A p \in 1..Len(fds) : Ready(fds[p].fd) \in SUBSET {"IN", "HUP"}
      BY DEF Ready
    <3>2. fds' \in [1..Len(fds) -> Entries]
      BY <1>1, <1>b, <3>1 DEF Poll, Entries
    <3> QED BY <1>c, <3>2
  <2>2. pos' \in Nat
    BY <1>1, <1>e DEF Poll
  <2> QED BY <1>1, <2>1, <2>2 DEF Poll, TypeOK, Entries, wires, send, history
<1>2. CASE RoundEnds
  <2>1. fds' \in Seq(Entries)
    <3>1. fds' \in [1..Len(fds) -> Entries]
      BY <1>2, <1>b DEF RoundEnds, Entries
    <3> QED BY <1>c, <3>1
  <2>2. pos' \in Nat
    BY <1>2 DEF RoundEnds
  <2> QED BY <1>2, <2>1, <2>2 DEF RoundEnds, TypeOK, Entries, wires, send, history
<1>3. CASE HandleAccept
  <2>1. backlog # <<>> /\ pos' \in Nat
    BY <1>3, HandlesFacts DEF HandleAccept, Ready
  <2>2. newSocket' \in Clients /\ backlog' \in Seq(Clients)
    BY <1>3, <1>a, <2>1, HeadTailProperties DEF HandleAccept
  <2>3. isOpen' \in [Clients -> BOOLEAN]
    BY <1>3, <1>a DEF HandleAccept
  <2>4. disturbed' \in Nat
    BY <1>3, <1>d DEF HandleAccept
  <2> QED BY <1>3, <2>1, <2>2, <2>3, <2>4 DEF HandleAccept, TypeOK, members, send
<1>4. CASE PushSocket
  <2>1. /\ newSocket \in Descriptors /\ \A p \in Positions : watchSockets[p] # newSocket
        /\ Distinct(watchSockets)
        /\ watchSockets[1] = "listen" /\ watchSockets[2] = "pipe" /\ Len(watchSockets) >= 2
    BY <1>4 DEF PushSocket, SocketInv, Shape, Accepted, Watched, Descriptors
  <2>2. watchSockets' = Append(watchSockets, newSocket) /\ BuildFds(watchSockets')
    BY <1>4 DEF PushSocket
  <2>3. watchSockets' \in Seq(Descriptors) /\ Distinct(watchSockets')
    BY <1>a, <2>1, <2>2, AppendProperties, AppendDistinct DEF Positions
  <2>4. watchSockets'[1] = "listen" /\ watchSockets'[2] = "pipe"
    BY <1>a, <2>1, <2>2, AppendProperties, LenProperties
  <2>5. fds' \in Seq(Entries) /\ backendPipe' \in Clients \cup {"worker"}
    BY <2>2, <2>3, <2>4, BuildFacts
  <2>6. pos' \in Nat
    BY <1>4, <1>e DEF PushSocket
  <2> QED BY <1>4, <2>3, <2>5, <2>6 DEF PushSocket, TypeOK, Entries, wires, send, history
<1>5. CASE Receive
  <2>1. PICK c \in Clients : Handles(c) /\ HandleReceived(c)
    BY <1>5 DEF Receive
  <2>2. pos' \in Nat
    BY <2>1, HandlesFacts
  <2>3. inbox' \in [Clients -> Seq(ClientMessages)]
    BY <1>a, <2>1, EmptySeq DEF HandleReceived
  <2>4. workerPipe' \in Seq(WorkerMessages) /\ Len(workerPipe') <= PipeCapacity
    <3>1. \/ workerPipe' = workerPipe
          \/ WorkerPipeHasRoom /\ \E m \in WorkerMessages : workerPipe' = Append(workerPipe, m)
      BY <2>1 DEF HandleReceived
    <3>2. Len(workerPipe) \in Nat /\ PipeCapacity \in Nat
      BY <1>a, LenProperties, ClientsAssumption
    <3>3. ASSUME WorkerPipeHasRoom, NEW m \in WorkerMessages, workerPipe' = Append(workerPipe, m)
          PROVE  workerPipe' \in Seq(WorkerMessages) /\ Len(workerPipe') <= PipeCapacity
      BY <1>a, <3>2, <3>3, AppendProperties DEF WorkerPipeHasRoom
    <3> QED BY <1>a, <1>e, <3>1, <3>3
  <2>5. pc' \in {"tell", "hup"} /\ tellAt' \in Nat
    BY <2>1, <1>e DEF HandleReceived
  <2> QED BY <1>5, <2>2, <2>3, <2>4, <2>5 DEF Receive, TypeOK, members, send, history
<1>6. CASE TellAll
  <2>1. outbox' \in [Clients -> 0..SendBuffer]
    BY <1>6, WriteTyped DEF TellAll, TypeOK
  <2>2. tellAt' \in Nat /\ pc' \in {"tell", "hup"}
    BY <1>6, <1>e DEF TellAll
  <2> QED BY <1>6, <2>1, <2>2 DEF TellAll, TypeOK, members, send, history
<1>7. CASE Hup
  <2> DEFINE c == fds[pos].fd
  <2>1. pos' \in Nat /\ pc' = "scan"
    BY <1>7, <1>e DEF Hup
  <2>2. CASE "HUP" \in fds[pos].revents
    <3>1. HandleClosed(c) /\ BuildFds(watchSockets') /\ told' = [told EXCEPT ![c] = 0]
          /\ audience' = audience \ {c} /\ ClientLeaves
      BY <1>7, <2>2 DEF Hup
    <3>2. c \in Clients
      BY <1>7 DEF Hup, SocketInv, Shape, Handling, Matched
    <3>3. /\ watchSockets' \in Seq(Descriptors) /\ Distinct(watchSockets')
          /\ watchSockets'[1] = "listen" /\ watchSockets'[2] = "pipe"
      BY <3>1, <3>2, EraseFacts DEF HandleClosed
    <3>4. fds' \in Seq(Entries) /\ backendPipe' \in Clients \cup {"worker"}
      BY <3>1, <3>3, BuildFacts
    <3>5. isOpen' \in [Clients -> BOOLEAN] /\ told' \in [Clients -> Nat]
      BY <1>a, <3>1 DEF HandleClosed
    <3>6. audience' \subseteq Clients /\ disturbed' \in Nat
      BY <1>d, <3>1 DEF TypeOK
    <3> QED BY <1>7, <2>1, <3>3, <3>4, <3>5, <3>6 DEF Hup, TypeOK, Entries, send
  <2>3. CASE "HUP" \notin fds[pos].revents
    BY <1>7, <2>1, <2>3 DEF Hup, TypeOK, send, history
  <2> QED BY <2>2, <2>3
<1>8. CASE CloseAll
  <2>1. isOpen' \in [Clients -> BOOLEAN]
    BY <1>8 DEF CloseAll
  <2> QED BY <1>8, <2>1 DEF CloseAll, TypeOK, members, send, history
<1> QED BY <1>1, <1>2, <1>3, <1>4, <1>5, <1>6, <1>7, <1>8 DEF Loop

LEMMA MainTypes ==
  ASSUME SocketInv, PostMessage \/ Signal \/ MainThread PROVE TypeOK'
<1> TypeOK
  BY DEF SocketInv
<1>a. /\ workerPipe \in Seq(WorkerMessages) /\ Len(workerPipe) \in Nat
      /\ Len(workerPipe) <= PipeCapacity /\ PipeCapacity \in Nat
      /\ told \in [Clients -> Nat] /\ sendAt \in Nat
  BY LenProperties, ClientsAssumption DEF TypeOK
<1>1. CASE PostMessage
  <2>1. workerPipe' \in Seq(WorkerMessages) /\ Len(workerPipe') <= PipeCapacity
    <3>1. PICK message \in WorkerMessages : workerPipe' = Append(workerPipe, message)
      BY <1>1 DEF PostMessage, WorkerMessages
    <3>2. Len(workerPipe) < PipeCapacity
      BY <1>1 DEF PostMessage, WorkerPipeHasRoom
    <3> QED BY <1>a, <3>1, <3>2, AppendProperties
  <2> QED BY <1>1, <2>1 DEF PostMessage, TypeOK, members, loop, wires, send, history
<1>2. CASE Signal
  BY <1>2 DEF Signal, TypeOK, members, loop, wires, history
<1>3. CASE PipeReceive
  <2>1. workerPipe' \in Seq(WorkerMessages) /\ Len(workerPipe') <= PipeCapacity
    <3>1. workerPipe # <<>> /\ workerPipe' = Tail(workerPipe)
      BY <1>3 DEF PipeReceive
    <3>2. Tail(workerPipe) \in Seq(WorkerMessages) /\ Len(Tail(workerPipe)) = Len(workerPipe) - 1
      BY <1>a, <3>1, HeadTailProperties
    <3> QED BY <1>a, <3>1, <3>2
  <2>2. /\ main' \in {"event loop", "load", "leaving"} /\ sendAt' \in Nat /\ audience' \subseteq Clients
        /\ disturbed' \in Nat /\ told' = told
    <3>1. CASE Head(workerPipe) = "all"
      <4>1. /\ main' = "load" /\ sendAt' = 2 /\ audience' = Range(watchSockets) \cap Clients
            /\ disturbed' = (IF pc = "push" THEN Cardinality(Clients) ELSE 0) /\ told' = told
        BY <1>3, <3>1 DEF PipeReceive
      <4>2. disturbed' \in Nat
        BY <4>1, ClientsAssumption, FS_CardinalityType
      <4> QED BY <4>1, <4>2
    <3>2. CASE Head(workerPipe) # "all"
      <4>1. audience \subseteq Clients /\ disturbed \in Nat
        BY DEF TypeOK
      <4> QED BY <1>3, <1>a, <3>2, <4>1 DEF PipeReceive, history
    <3> QED BY <3>1, <3>2
  <2> QED BY <1>3, <2>1, <2>2 DEF PipeReceive, TypeOK, members, loop, wires
<1>4. CASE SendAllLoad
  <2>1. CASE sendAt <= Len(watchSockets)
    <3>1. watchSockets[sendAt] \in Descriptors
      <4>1. watchSockets \in Seq(Descriptors) /\ Len(watchSockets) \in Nat /\ sendAt >= 1
        BY LenProperties DEF SocketInv, TypeOK, Shape
      <4> QED BY <1>a, <2>1, <4>1, ElementOfSeq
    <3>2. target' \in Descriptors \cup {"freed"} /\ main' = "write" /\ UNCHANGED <<sendAt, history>>
      BY <1>4, <2>1, <3>1 DEF SendAllLoad
    <3> QED BY <1>4, <3>2 DEF SendAllLoad, TypeOK, members, loop, wires, history
  <2>2. CASE ~(sendAt <= Len(watchSockets))
    <3>1. /\ main' = "event loop" /\ target' = "none" /\ sendAt' = 1
          /\ audience' = {} /\ told' = [c \in Clients |-> 0] /\ disturbed' = 0
      BY <1>4, <2>2 DEF SendAllLoad
    <3>2. told' \in [Clients -> Nat] /\ sendAt' \in Nat /\ disturbed' \in Nat
      BY <3>1
    <3> QED BY <1>4, <3>1, <3>2 DEF SendAllLoad, TypeOK, members, loop, wires
  <2> QED BY <2>1, <2>2
<1>5. CASE SendAllWrite
  <2>1. outbox' \in [Clients -> 0..SendBuffer]
    BY <1>5, WriteTyped DEF SendAllWrite
  <2>2. told' \in [Clients -> Nat]
    <3>1. CASE Reaches(target)
      <4>1. told' = [told EXCEPT ![target] = @ + 1] /\ target \in Clients
        BY <1>5, <3>1 DEF SendAllWrite, Reaches
      <4> QED BY <1>a, <4>1
    <3> QED BY <1>5, <1>a, <3>1 DEF SendAllWrite
  <2>3. sendAt' \in Nat
    BY <1>5, <1>a DEF SendAllWrite
  <2> QED BY <1>5, <2>1, <2>2, <2>3 DEF SendAllWrite, TypeOK, members, loop
<1>6. CASE Stop
  <2>1. run' \in BOOLEAN
    BY <1>6 DEF Stop
  <2>2. internPipe' \in 0..1
    <3>1. internPipe' = 1
      BY <1>6 DEF Stop
    <3> QED BY <3>1
  <2>3. /\ main' = "join"
        /\ UNCHANGED <<watchSockets, fds, backendPipe, loop, workerPipe, backlog, wires, sendAt,
                       target, history>>
    BY <1>6 DEF Stop
  <2> QED BY <2>1, <2>2, <2>3 DEF TypeOK, loop, wires, history
<1>7. CASE Join
  BY <1>7 DEF Join, TypeOK, members, loop, wires, history
<1> QED BY <1>1, <1>2, <1>3, <1>4, <1>5, <1>6, <1>7 DEF MainThread

-----------------------------------------------------------------------------
(* The shape *)

(* Steps that leave the descriptors and what poll looks at as they are.     *)
LEMMA Elsewhere ==
  ASSUME SocketInv,
         UNCHANGED <<watchSockets, fds, backlog, newSocket, peer, inbox, isOpen, pos>>,
         internPipe' \in {internPipe, 1}, pc' = pc \/ (pc = "tell" /\ pc' = "hup"), sendAt' >= 1
  PROVE  Shape'
<1> USE DEF SocketInv, Shape
<1>1. Watched' /\ Queued' /\ Matched'
  BY DEF Watched, Queued, Matched, Positions
<1>2. Accepted' /\ Handling'
  BY DEF Accepted, Handling, Positions
<1>3. Fits'
  <2>1. SUFFICES ASSUME pc' \in {"scan", "push", "tell", "hup"}, NEW p \in Positions, Ahead(p)'
                 PROVE  fds[p].revents \subseteq Ready(watchSockets[p])'
    BY DEF Fits, Positions
  <2>2. fds[p].revents \subseteq Ready(watchSockets[p])
    BY <2>1 DEF Fits, Ahead
  <2>3. Ready(watchSockets[p]) \subseteq Ready(watchSockets[p])'
    <3>1. internPipe > 0 => internPipe' > 0
      <4>1. internPipe \in 0..1
        BY DEF TypeOK
      <4> QED BY <4>1
    <3> QED BY <3>1 DEF Ready
  <2> QED BY <2>2, <2>3
<1> QED BY <1>1, <1>2, <1>3

LEMMA ClientShape ==
  ASSUME SocketInv, NEW c \in Clients, Client(c) PROVE Shape'
<1>a. /\ peer \in [Clients -> Peers] /\ inbox \in [Clients -> Seq(ClientMessages)]
      /\ backlog \in Seq(Clients) /\ watchSockets \in Seq(Descriptors)
  BY DEF SocketInv, TypeOK
<1>b. /\ Len(backlog) \in Nat /\ \A i \in 1..Len(backlog) : backlog[i] \in Clients
      /\ Len(watchSockets) \in Nat /\ \A p \in Positions : watchSockets[p] \in Descriptors
  BY <1>a, LenProperties, ElementOfSeq DEF Positions
<1> USE DEF SocketInv, Shape
<1>1. CASE Connect(c)
  <2>1. /\ peer[c] = "away" /\ peer' = [peer EXCEPT ![c] = "open"] /\ backlog' = Append(backlog, c)
        /\ UNCHANGED <<watchSockets, fds, newSocket, inbox, isOpen, pos, pc, sendAt, internPipe>>
    BY <1>1 DEF Connect, members, loop, send
  <2>2. (\A p \in Positions : watchSockets[p] # c) /\ (\A i \in 1..Len(backlog) : backlog[i] # c)
    BY <2>1 DEF Watched, Queued
  <2>3. \A d \in Clients : d # c => peer'[d] = peer[d]
    BY <1>a, <2>1
  <2>4. peer'[c] # "away"
    BY <1>a, <2>1
  <2>5. /\ Distinct(backlog') /\ Len(backlog') = Len(backlog) + 1
        /\ \A i \in 1..Len(backlog) : backlog'[i] = backlog[i]
        /\ backlog'[Len(backlog) + 1] = c
    BY <1>a, <2>1, <2>2, AppendProperties, AppendDistinct DEF Queued
  <2>6. Watched' /\ Matched'
    BY <2>1, <2>2, <2>3 DEF Watched, Matched, Positions
  <2>7. Queued'
    <3>1. SUFFICES ASSUME NEW i \in 1..Len(backlog')
                   PROVE  peer'[backlog'[i]] # "away" /\ \A p \in Positions : watchSockets[p] # backlog'[i]
      BY <2>1, <2>5 DEF Queued, Positions
    <3>2. CASE i \in 1..Len(backlog)
      BY <1>b, <2>2, <2>3, <2>5, <3>2 DEF Queued
    <3>3. CASE i = Len(backlog) + 1
      BY <2>2, <2>4, <2>5, <3>3
    <3> QED BY <1>b, <2>5, <3>2, <3>3
  <2>8. Accepted'
    <3>1. SUFFICES ASSUME pc = "push"
                   PROVE  /\ newSocket \in Clients /\ peer'[newSocket] # "away" /\ isOpen[newSocket]
                          /\ \A p \in Positions : watchSockets[p] # newSocket
                          /\ \A i \in 1..Len(backlog') : backlog'[i] # newSocket
      BY <2>1 DEF Accepted, Positions
    <3>2. /\ newSocket \in Clients /\ peer[newSocket] # "away" /\ isOpen[newSocket]
          /\ \A p \in Positions : watchSockets[p] # newSocket
          /\ \A i \in 1..Len(backlog) : backlog[i] # newSocket
      BY <3>1 DEF Accepted
    <3>3. newSocket # c
      BY <2>1, <3>2
    <3>4. ASSUME NEW i \in 1..Len(backlog') PROVE backlog'[i] # newSocket
      BY <1>b, <2>5, <3>2, <3>3
    <3> QED BY <2>3, <3>2, <3>3, <3>4
  <2>9. Fits'
    <3>1. SUFFICES ASSUME pc \in {"scan", "push", "tell", "hup"}, NEW p \in Positions, Ahead(p)
                   PROVE  fds[p].revents \subseteq Ready(watchSockets[p])'
      BY <2>1 DEF Fits, Positions, Ahead
    <3>2. fds[p].revents \subseteq Ready(watchSockets[p])
      BY <3>1 DEF Fits
    <3>3. Ready(watchSockets[p]) \subseteq Ready(watchSockets[p])'
      <4>1. CASE watchSockets[p] = "listen"
        <5>1. backlog' # <<>>
          <6>1. backlog \in Seq(Clients) /\ backlog' = Append(backlog, c)
            BY <1>a, <2>1
          <6> HIDE DEF Shape, SocketInv
          <6>2. Append(backlog, c) # <<>>
            BY <6>1, AppendProperties
          <6> QED BY <6>1, <6>2
        <5>2. watchSockets'[p] = "listen"
          BY <4>1, <2>1
        <5>3. Ready(watchSockets[p])' = {"IN"}
          BY <5>1, <5>2 DEF Ready
        <5>4. Ready(watchSockets[p]) \subseteq {"IN"}
          BY <4>1 DEF Ready
        <5> QED BY <5>3, <5>4
      <4>2. CASE watchSockets[p] = "pipe"
        BY <4>2, <2>1 DEF Ready
      <4>3. CASE watchSockets[p] \in Clients
        BY <4>3, <2>1, <2>2, <2>3, ClientsAssumption DEF Ready
      <4> QED BY <1>b, <4>1, <4>2, <4>3 DEF Descriptors
    <3> QED BY <3>2, <3>3
  <2>10. Handling'
    BY <2>1, <2>2, <2>3 DEF Handling, Positions
  <2> QED BY <2>1, <2>6, <2>7, <2>8, <2>9, <2>10
<1>2. CASE \E message \in ClientMessages : SendMessage(c, message)
  <2>1. PICK message \in ClientMessages :
          /\ peer[c] = "open" /\ inbox' = [inbox EXCEPT ![c] = Append(@, message)]
          /\ UNCHANGED <<watchSockets, fds, newSocket, peer, isOpen, pos, pc, sendAt, internPipe, backlog>>
    BY <1>2 DEF SendMessage, members, loop, send
  <2>2. \A d \in Clients : d # c => inbox'[d] = inbox[d]
    BY <1>a, <2>1
  <2>3. inbox'[c] # <<>>
    <3>1. Append(inbox[c], message) # <<>>
      <4>1. inbox[c] \in Seq(ClientMessages)
        BY <1>a
      <4> QED BY <4>1, AppendProperties
    <3> QED BY <1>a, <2>1, <3>1
  <2>4. Watched' /\ Queued' /\ Accepted' /\ Matched'
    BY <2>1 DEF Watched, Queued, Accepted, Matched, Positions
  <2>5. Fits'
    <3>1. SUFFICES ASSUME pc \in {"scan", "push", "tell", "hup"}, NEW p \in Positions, Ahead(p)
                   PROVE  fds[p].revents \subseteq Ready(watchSockets[p])'
      BY <2>1 DEF Fits, Positions, Ahead
    <3>2. fds[p].revents \subseteq Ready(watchSockets[p])
      BY <3>1 DEF Fits
    <3>3. Ready(watchSockets[p]) \subseteq Ready(watchSockets[p])'
      BY <1>b, <2>1, <2>2, <2>3 DEF Ready, Descriptors
    <3> QED BY <3>2, <3>3
  <2>6. Handling'
    BY <2>1, <2>2 DEF Handling, Positions
  <2> QED BY <2>1, <2>4, <2>5, <2>6
<1>3. CASE ReadBroadcast(c)
  <2>1. UNCHANGED <<watchSockets, fds, newSocket, peer, inbox, isOpen, pos, pc, sendAt, internPipe, backlog>>
    BY <1>3 DEF ReadBroadcast, members, loop, send
  <2>2. sendAt >= 1
    OBVIOUS
  <2> QED BY <2>1, <2>2, Elsewhere
<1>4. CASE Leave(c)
  <2>1. /\ peer[c] \in {"open", "eof"} /\ peer' \in [Clients -> Peers]
        /\ peer'[c] \in {"eof", "closed"} /\ \A d \in Clients : d # c => peer'[d] = peer[d]
        /\ UNCHANGED <<watchSockets, fds, newSocket, inbox, isOpen, pos, pc, sendAt, internPipe, backlog>>
    BY <1>4, <1>a DEF Leave, members, loop, send, Peers
  <2>2. \A d \in Clients : peer[d] # "away" => peer'[d] # "away"
    BY <2>1
  <2>3. Watched' /\ Queued' /\ Matched'
    BY <1>b, <2>1, <2>2 DEF Watched, Queued, Matched, Positions
  <2>4. Accepted'
    BY <2>1, <2>2 DEF Accepted, Positions
  <2>5. Fits'
    <3>1. SUFFICES ASSUME pc \in {"scan", "push", "tell", "hup"}, NEW p \in Positions, Ahead(p)
                   PROVE  fds[p].revents \subseteq Ready(watchSockets[p])'
      BY <2>1 DEF Fits, Positions, Ahead
    <3>2. fds[p].revents \subseteq Ready(watchSockets[p])
      BY <3>1 DEF Fits
    <3>3. \A d \in Clients : (peer[d] # "open" => peer'[d] # "open") /\ (peer[d] = "closed" => peer'[d] = "closed")
      BY <2>1
    <3>4. Ready(watchSockets[p]) \subseteq Ready(watchSockets[p])'
      BY <1>b, <2>1, <3>3 DEF Ready, Descriptors
    <3> QED BY <3>2, <3>4
  <2>6. Handling'
    BY <2>1 DEF Handling, Positions
  <2> QED BY <2>1, <2>3, <2>4, <2>5, <2>6
<1> QED BY <1>1, <1>2, <1>3, <1>4 DEF Client

LEMMA MainShape ==
  ASSUME SocketInv, PostMessage \/ Signal \/ MainThread PROVE Shape'
<1>1. UNCHANGED <<watchSockets, fds, backlog, newSocket, peer, inbox, isOpen, pos, pc>>
  BY DEF PostMessage, Signal, MainThread, PipeReceive, SendAllLoad, SendAllWrite, Stop, Join,
         members, loop, wires
<1>2. internPipe' \in {internPipe, 1}
  BY DEF PostMessage, Signal, MainThread, PipeReceive, SendAllLoad, SendAllWrite, Stop, Join
<1>3. sendAt' \in {sendAt, 2, 1, sendAt + 1}
  BY DEF PostMessage, Signal, MainThread, PipeReceive, SendAllLoad, SendAllWrite, Stop, Join, send
<1>4. sendAt \in Nat /\ sendAt >= 1
  BY DEF SocketInv, TypeOK, Shape
<1>5. sendAt' >= 1
  BY <1>3, <1>4
<1> QED BY <1>1, <1>2, <1>5, Elsewhere

(* Inside a round. *)
LEMMA LoopShape ==
  ASSUME SocketInv, Loop PROVE Shape'
<1>a. /\ inbox \in [Clients -> Seq(ClientMessages)] /\ isOpen \in [Clients -> BOOLEAN]
      /\ backlog \in Seq(Clients) /\ watchSockets \in Seq(Descriptors)
      /\ pos \in Nat /\ pos >= 1
  BY DEF SocketInv, TypeOK, Shape
<1>b. /\ Len(backlog) \in Nat /\ \A i \in 1..Len(backlog) : backlog[i] \in Clients
      /\ Len(watchSockets) \in Nat /\ \A p \in Positions : watchSockets[p] \in Descriptors
  BY <1>a, LenProperties, ElementOfSeq DEF Positions
<1>c. /\ DOMAIN fds = Positions /\ Len(fds) = Len(watchSockets)
      /\ \A p \in Positions : fds[p].fd = watchSockets[p] /\ fds[p] \in Entries
  <2>1. fds \in Seq(Entries) /\ Matched
    BY DEF SocketInv, TypeOK, Shape, Entries
  <2>2. DOMAIN fds = 1..Len(fds) /\ \A p \in 1..Len(fds) : fds[p] \in Entries
    BY <2>1, LenProperties, ElementOfSeq
  <2> QED BY <2>1, <2>2 DEF Matched, Positions
<1>d. sendAt >= 1 /\ Watched /\ Queued /\ Accepted /\ Matched /\ Fits /\ Handling
  BY DEF SocketInv, Shape
<1>e. ASSUME NEW g, g \in [Positions -> Entries] PROVE Len(g) = Len(watchSockets)
  BY <1>b, <1>e, LenProperties DEF Positions
<1>1. CASE Poll
  <2>1. /\ fds' = [p \in DOMAIN fds |-> [fds[p] EXCEPT !.revents = Ready(fds[p].fd)]]
        /\ UNCHANGED <<watchSockets, newSocket, sendAt, internPipe, backlog, peer, inbox, isOpen>>
        /\ pc = "poll" /\ pc' \in {"scan", "closing"} /\ (pos' = 1 \/ pos' = pos)
    BY <1>1 DEF Poll, wires, send
  <2>2. fds' \in [Positions -> Entries]
        /\ \A p \in Positions : fds'[p].fd = watchSockets[p] /\ fds'[p].revents = Ready(watchSockets[p])
    <3>1. \A p \in Positions : Ready(fds[p].fd) \in SUBSET {"IN", "HUP"}
      BY DEF Ready
    <3> QED BY <1>c, <2>1, <3>1 DEF Entries
  <2>3. Matched'
    BY <1>e, <2>1, <2>2 DEF Matched, Positions
  <2>4. Watched' /\ Queued' /\ Accepted' /\ Handling'
    BY <1>d, <2>1 DEF Watched, Queued, Accepted, Handling, Positions
  <2>5. Fits'
    <3>1. \A p \in Positions : Ready(watchSockets[p])' = Ready(watchSockets[p])
      BY <2>1 DEF Ready
    <3> QED BY <2>1, <2>2, <3>1 DEF Fits, Positions
  <2>6. pos' >= 1 /\ sendAt' >= 1
    BY <1>a, <1>d, <2>1
  <2> QED BY <2>3, <2>4, <2>5, <2>6 DEF Shape
<1>2. CASE RoundEnds
  <2>1. /\ fds' = [p \in DOMAIN fds |-> [fds[p] EXCEPT !.revents = {}]]
        /\ UNCHANGED <<watchSockets, newSocket, sendAt, internPipe, backlog, peer, inbox, isOpen>>
        /\ pc = "scan" /\ pc' \in {"poll", "closing"} /\ pos' = 1
    BY <1>2 DEF RoundEnds, wires, send
  <2>2. fds' \in [Positions -> Entries] /\ \A p \in Positions : fds'[p].fd = watchSockets[p]
    BY <1>c, <2>1 DEF Entries
  <2>3. Matched'
    BY <1>e, <2>1, <2>2 DEF Matched, Positions
  <2>4. Watched' /\ Queued' /\ Accepted' /\ Handling' /\ Fits'
    BY <1>d, <2>1 DEF Watched, Queued, Accepted, Handling, Fits, Positions
  <2>5. pos' >= 1 /\ sendAt' >= 1
    BY <1>d, <2>1
  <2> QED BY <2>3, <2>4, <2>5 DEF Shape
<1>3. CASE HandleAccept
  <2>1. /\ Handles("listen") /\ newSocket' = Head(backlog) /\ backlog' = Tail(backlog)
        /\ isOpen' = [isOpen EXCEPT ![newSocket'] = TRUE] /\ pc' = "push"
        /\ UNCHANGED <<watchSockets, fds, sendAt, internPipe, peer, inbox>>
    BY <1>3 DEF HandleAccept, members, send
  <2>2. /\ pos' \in Positions /\ pos' \in Nat /\ pos' >= pos /\ watchSockets[pos'] = "listen"
        /\ fds[pos'].revents # {} /\ fds[pos'].revents \subseteq Ready("listen") /\ pc = "scan"
    BY <2>1, HandlesFacts
  <2>3. backlog # <<>>
    BY <2>2 DEF Ready
  <2>4. /\ newSocket' = backlog[1] /\ newSocket' \in Clients /\ Len(backlog') = Len(backlog) - 1
        /\ \A i \in 1..Len(backlog') : backlog'[i] = backlog[i + 1]
        /\ 1 \in 1..Len(backlog)
    <3>1. Len(backlog) \in Nat \ {0}
      BY <1>a, <2>3, EmptySeq
    <3>2. Head(backlog) = backlog[1]
      BY <1>a, <2>3
    <3> QED BY <1>a, <2>1, <2>3, <3>1, <3>2, HeadTailProperties
  <2>5. \A i \in 1..Len(backlog') : i + 1 \in 1..Len(backlog) /\ backlog'[i] # newSocket'
    BY <1>b, <1>d, <2>4 DEF Queued, Distinct
  <2>6. \A d \in Clients : isOpen[d] => isOpen'[d]
    BY <1>a, <2>1
  <2>7. isOpen'[newSocket']
    BY <1>a, <2>1, <2>4
  <2>8. Watched'
    BY <1>d, <2>1, <2>2, <2>6 DEF Watched, Positions
  <2>9. Queued'
    BY <1>b, <1>d, <2>1, <2>4, <2>5 DEF Queued, Distinct, Positions
  <2>10. Accepted'
    BY <1>d, <2>1, <2>4, <2>5, <2>7 DEF Accepted, Queued, Positions
  <2>11. Matched' /\ Handling'
    BY <1>d, <2>1 DEF Matched, Handling, Positions
  <2>12. Fits'
    <3>1. SUFFICES ASSUME NEW p \in Positions, p > pos' PROVE fds[p].revents \subseteq Ready(watchSockets[p])'
      BY <2>1 DEF Fits, Ahead, Positions
    <3>2. Ahead(p)
      BY <1>a, <2>2, <3>1 DEF Ahead, Positions
    <3>3. fds[p].revents \subseteq Ready(watchSockets[p])
      BY <1>d, <2>2, <3>2 DEF Fits
    <3>4. watchSockets[p] # "listen"
      BY <1>d, <2>2, <3>1 DEF Watched, Distinct, Positions
    <3> QED BY <2>1, <3>3, <3>4 DEF Ready
  <2>13. pos' >= 1 /\ sendAt' >= 1
    BY <1>a, <1>d, <2>1, <2>2
  <2> QED BY <2>8, <2>9, <2>10, <2>11, <2>12, <2>13 DEF Shape
<1>4. CASE PushSocket
  <2>1. /\ pc = "push" /\ watchSockets' = Append(watchSockets, newSocket) /\ BuildFds(watchSockets')
        /\ newSocket' = "none" /\ pos' = pos + 1 /\ pc' = "scan"
        /\ UNCHANGED <<sendAt, internPipe, backlog, peer, inbox, isOpen>>
    BY <1>4 DEF PushSocket, wires, send
  <2>2. /\ newSocket \in Clients /\ newSocket \in Descriptors /\ peer[newSocket] # "away" /\ isOpen[newSocket]
        /\ \A p \in Positions : watchSockets[p] # newSocket
        /\ \A i \in 1..Len(backlog) : backlog[i] # newSocket
    BY <1>d, <2>1 DEF Accepted, Descriptors
  <2>3. /\ watchSockets' \in Seq(Descriptors) /\ Distinct(watchSockets')
        /\ Len(watchSockets') = Len(watchSockets) + 1
        /\ \A p \in Positions : watchSockets'[p] = watchSockets[p]
        /\ watchSockets'[Len(watchSockets) + 1] = newSocket
    BY <1>a, <1>d, <2>1, <2>2, AppendProperties, AppendDistinct DEF Positions, Watched
  <2>4. \A p \in Positions' : p \in Positions \/ p = Len(watchSockets) + 1
    BY <1>b, <2>3 DEF Positions
  <2>5. watchSockets'[1] = "listen" /\ watchSockets'[2] = "pipe" /\ Len(watchSockets') >= 2
    BY <1>b, <1>d, <2>3 DEF Watched, Positions
  <2>6. Matched' /\ \A p \in Positions' : fds'[p].revents = {}
    BY <2>1, <2>3, <2>5, BuildFacts
  <2>7. Watched'
    BY <1>d, <2>1, <2>2, <2>3, <2>4, <2>5 DEF Watched
  <2>8. Queued'
    <3>1. SUFFICES ASSUME NEW i \in 1..Len(backlog), NEW p \in Positions'
                   PROVE  watchSockets'[p] # backlog[i]
      BY <1>d, <2>1 DEF Queued
    <3>2. CASE p \in Positions
      BY <1>d, <2>3, <3>2 DEF Queued
    <3>3. CASE p = Len(watchSockets) + 1
      BY <2>2, <2>3, <3>3
    <3> QED BY <2>4, <3>2, <3>3
  <2>9. Accepted' /\ Handling'
    BY <2>1 DEF Accepted, Handling
  <2>10. Fits'
    BY <2>6 DEF Fits
  <2>11. pos' >= 1 /\ sendAt' >= 1
    BY <1>a, <1>d, <2>1
  <2> QED BY <2>6, <2>7, <2>8, <2>9, <2>10, <2>11 DEF Shape
<1>5. CASE Receive
  <2>1. PICK c \in Clients : Handles(c) /\ HandleReceived(c)
    BY <1>5 DEF Receive
  <2>2. /\ pos' \in Positions /\ pos' \in Nat /\ pos' >= pos /\ watchSockets[pos'] = c
        /\ fds[pos'].revents \subseteq Ready(c) /\ pc = "scan"
    BY <2>1, HandlesFacts
  <2>3. /\ inbox' = [inbox EXCEPT ![c] = <<>>] /\ pc' \in {"tell", "hup"}
        /\ UNCHANGED <<watchSockets, fds, newSocket, sendAt, internPipe, backlog, peer, isOpen>>
    BY <1>5, <2>1 DEF Receive, HandleReceived, members, send
  <2>4. inbox'[c] = <<>> /\ \A d \in Clients : d # c => inbox'[d] = inbox[d]
    BY <1>a, <2>3
  <2>5. Watched' /\ Queued' /\ Matched'
    BY <1>d, <2>2, <2>3 DEF Watched, Queued, Matched, Positions
  <2>6. Accepted'
    BY <2>3 DEF Accepted
  <2>7. Handling'
    <3>1. "HUP" \in fds[pos'].revents => peer[c] = "closed"
      BY <2>2, ClientsAssumption DEF Ready
    <3> QED BY <2>2, <2>3, <2>4, <3>1 DEF Handling, Positions
  <2>8. Fits'
    <3>1. SUFFICES ASSUME NEW p \in Positions, p > pos' PROVE fds[p].revents \subseteq Ready(watchSockets[p])'
      BY <2>3 DEF Fits, Ahead, Positions
    <3>2. Ahead(p)
      BY <1>a, <2>2, <3>1 DEF Ahead, Positions
    <3>3. fds[p].revents \subseteq Ready(watchSockets[p])
      BY <1>d, <2>2, <3>2 DEF Fits
    <3>4. watchSockets[p] # c
      BY <1>d, <2>2, <3>1 DEF Watched, Distinct, Positions
    <3>5. Ready(watchSockets[p])' = Ready(watchSockets[p])
      BY <1>b, <2>3, <2>4, <3>4 DEF Ready, Descriptors
    <3> QED BY <3>3, <3>5
  <2>9. pos' >= 1 /\ sendAt' >= 1
    BY <1>a, <1>d, <2>2, <2>3
  <2> QED BY <2>5, <2>6, <2>7, <2>8, <2>9 DEF Shape
<1>6. CASE TellAll
  <2>1. /\ UNCHANGED <<watchSockets, fds, backlog, newSocket, peer, inbox, isOpen, pos, internPipe, sendAt>>
        /\ pc' = pc \/ (pc = "tell" /\ pc' = "hup")
    BY <1>6 DEF TellAll, members, send
  <2> QED BY <1>d, <2>1, Elsewhere
<1>7. CASE Hup
  <2> DEFINE c == fds[pos].fd
  <2>1. /\ pc = "hup" /\ pc' = "scan" /\ pos' = pos + 1
        /\ UNCHANGED <<newSocket, sendAt, internPipe, backlog, peer, inbox>>
    BY <1>7 DEF Hup, send
  <2>2. pos' >= 1 /\ sendAt' >= 1
    BY <1>a, <1>d, <2>1
  <2>3. Accepted' /\ Handling'
    BY <2>1 DEF Accepted, Handling
  <2>4. CASE "HUP" \in fds[pos].revents
    <3>1. HandleClosed(c) /\ BuildFds(watchSockets')
      BY <1>7, <2>4 DEF Hup
    <3>2. c \in Clients
      BY <1>c, <1>d, <2>1 DEF Handling
    <3>3. /\ watchSockets' \in Seq(Descriptors) /\ Distinct(watchSockets')
          /\ Len(watchSockets') >= 2 /\ watchSockets'[1] = "listen" /\ watchSockets'[2] = "pipe"
          /\ \A p \in Positions' :
               watchSockets'[p] # c /\ \E q \in Positions : watchSockets'[p] = watchSockets[q]
      BY <3>1, <3>2, EraseFacts DEF HandleClosed, Positions
    <3>4. Matched' /\ \A p \in Positions' : fds'[p].revents = {}
      BY <3>1, <3>3, BuildFacts
    <3>5. \A d \in Clients : d # c /\ isOpen[d] => isOpen'[d]
      BY <1>a, <3>1 DEF HandleClosed
    <3>6. Watched'
      BY <1>d, <2>1, <3>3, <3>5 DEF Watched
    <3>7. Queued'
      BY <1>d, <2>1, <3>3 DEF Queued
    <3>8. Fits'
      BY <3>4 DEF Fits
    <3> QED BY <2>2, <2>3, <3>4, <3>6, <3>7, <3>8 DEF Shape
  <2>5. CASE "HUP" \notin fds[pos].revents
    <3>1. UNCHANGED <<watchSockets, fds, isOpen>>
      BY <1>7, <2>5 DEF Hup
    <3>2. Watched' /\ Queued' /\ Matched'
      BY <1>d, <2>1, <3>1 DEF Watched, Queued, Matched, Positions
    <3>3. Fits'
      <4>1. SUFFICES ASSUME NEW p \in Positions, Ahead(p)'
                     PROVE  fds[p].revents \subseteq Ready(watchSockets[p])'
        BY <3>1 DEF Fits, Positions
      <4>2. Ahead(p)
        BY <1>a, <2>1, <4>1 DEF Ahead, Positions
      <4>3. fds[p].revents \subseteq Ready(watchSockets[p])
        BY <1>d, <2>1, <4>2 DEF Fits
      <4> QED BY <2>1, <3>1, <4>3 DEF Ready
    <3> QED BY <2>2, <2>3, <3>2, <3>3 DEF Shape
  <2> QED BY <2>4, <2>5
<1>8. CASE CloseAll
  <2>1. /\ pc' = "ended" /\ UNCHANGED <<watchSockets, fds, backlog, newSocket, peer, inbox, pos, internPipe, sendAt>>
    BY <1>8 DEF CloseAll, members, send
  <2>2. Watched' /\ Queued' /\ Matched' /\ Accepted' /\ Fits' /\ Handling'
    BY <1>d, <2>1 DEF Watched, Queued, Matched, Accepted, Fits, Handling, Positions
  <2>3. pos' >= 1 /\ sendAt' >= 1
    BY <1>a, <1>d, <2>1
  <2> QED BY <2>2, <2>3 DEF Shape
<1> QED BY <1>1, <1>2, <1>3, <1>4, <1>5, <1>6, <1>7, <1>8 DEF Loop

-----------------------------------------------------------------------------
LEMMA StepInv == SocketInv /\ [Next]_vars => SocketInv'
<1> SUFFICES ASSUME SocketInv, [Next]_vars PROVE SocketInv'
  OBVIOUS
<1>1. CASE \E c \in Clients : Client(c)
  BY <1>1, ClientTypes, ClientShape DEF SocketInv
<1>2. CASE Loop
  BY <1>2, LoopTypes, LoopShape DEF SocketInv
<1>3. CASE PostMessage \/ Signal \/ MainThread
  BY <1>3, MainTypes, MainShape DEF SocketInv
<1>4. CASE UNCHANGED vars
  <2>1. TypeOK'
    BY <1>4 DEF SocketInv, TypeOK, vars, members, loop, wires, send, history
  <2>2. Shape'
    <3>1. UNCHANGED <<watchSockets, fds, backlog, newSocket, peer, inbox, isOpen, pos, pc, internPipe, sendAt>>
      BY <1>4 DEF vars, members, loop, wires, send
    <3>2. sendAt >= 1
      BY DEF SocketInv, Shape
    <3> QED BY <3>1, <3>2, Elsewhere
  <2> QED BY <2>1, <2>2 DEF SocketInv
<1> QED BY <1>1, <1>2, <1>3, <1>4 DEF Next, Ended

LEMMA Inductive == Spec => []SocketInv
  BY InitInv, StepInv, PTL DEF Spec

(* Type correctness of the socket thread, its clients and the main thread.  *)
THEOREM TypeCorrect == Spec => []TypeOK
<1>1. SocketInv => TypeOK
  BY DEF SocketInv
<1> QED BY <1>1, Inductive, PTL

LEMMA EventsFit ==
  ASSUME SocketInv PROVE EventsFitSockets
<1>1. Matched /\ Fits /\ Watched /\ DOMAIN fds = Positions /\ DOMAIN watchSockets = Positions
  <2>1. DOMAIN fds = 1..Len(fds) /\ DOMAIN watchSockets = 1..Len(watchSockets)
    BY LenProperties DEF SocketInv, TypeOK
  <2> QED BY <2>1 DEF SocketInv, Shape, Matched, Positions
<1>2. [p \in DOMAIN fds |-> fds[p].fd] = watchSockets
  <2>1. watchSockets \in [Positions -> Descriptors]
    BY LenProperties DEF SocketInv, TypeOK, Positions
  <2> QED BY <1>1, <2>1 DEF Matched
<1>3. ASSUME pc \in {"scan", "push", "tell", "hup"}, NEW p \in DOMAIN fds,
             p > pos \/ (p = pos /\ pc = "scan")
      PROVE  /\ fds[p].revents \subseteq Ready(fds[p].fd)
             /\ fds[p].fd \in Clients /\ fds[p].revents # {} => isOpen[fds[p].fd]
  BY <1>1, <1>3 DEF Matched, Fits, Ahead, Watched
<1> QED BY <1>2, <1>3 DEF EventsFitSockets

(* For any number of clients: accept and close rebuild _fds in the middle   *)
(* of a round, and no event is ever applied to another descriptor than the  *)
(* one poll reported it for, nor to one that is already closed (Loop).      *)
THEOREM EventsSafe == Spec => []EventsFitSockets
<1>1. SocketInv => EventsFitSockets
  BY EventsFit
<1> QED BY <1>1, Inductive, PTL

LEMMA LastWordsStep ==
  ASSUME SocketInv, [Next]_vars
  PROVE  [\A c \in Clients : isOpen[c] /\ ~isOpen'[c] /\ pc # "closing" => inbox[c] = <<>>]_vars
<1>1. SUFFICES ASSUME Next, NEW c \in Clients, isOpen[c], ~isOpen'[c], pc # "closing"
               PROVE  inbox[c] = <<>>
  OBVIOUS
<1>2. isOpen \in [Clients -> BOOLEAN]
  BY DEF SocketInv, TypeOK
<1>3. CASE Hup
  <2>1. "HUP" \in fds[pos].revents /\ HandleClosed(fds[pos].fd)
    BY <1>1, <1>3 DEF Hup
  <2>2. c = fds[pos].fd
    BY <1>1, <1>2, <2>1 DEF HandleClosed
  <2>3. watchSockets[pos] = c /\ inbox[watchSockets[pos]] = <<>>
    BY <1>3, <2>1, <2>2 DEF Hup, SocketInv, Shape, Handling, Matched
  <2> QED BY <2>3
<1>4. CASE HandleAccept
  BY <1>1, <1>2, <1>4 DEF HandleAccept
<1>5. CASE Poll \/ RoundEnds \/ PushSocket \/ Receive \/ TellAll \/ CloseAll
  BY <1>1, <1>5 DEF Poll, RoundEnds, PushSocket, Receive, TellAll, CloseAll, wires
<1>6. CASE (\E d \in Clients : Client(d)) \/ PostMessage \/ Signal \/ MainThread \/ Ended
  BY <1>1, <1>6 DEF Client, Connect, SendMessage, ReadBroadcast, Leave, PostMessage, Signal, MainThread,
                    PipeReceive, SendAllLoad, SendAllWrite, Stop, Join, Ended, vars, wires
<1> QED BY <1>1, <1>3, <1>4, <1>5, <1>6 DEF Next, Loop

(* For any number of clients: what a client sent before it hung up is read  *)
(* before its connection is closed (Loop, POLLIN before POLLHUP), as long   *)
(* as the socket thread serves.                                             *)
THEOREM LastWordsSafe == Spec => LastWordsRead
<1>1. SocketInv /\ [Next]_vars =>
        [\A c \in Clients : isOpen[c] /\ ~isOpen'[c] /\ pc # "closing" => inbox[c] = <<>>]_vars
  BY LastWordsStep
<1> QED BY <1>1, Inductive, PTL DEF Spec, LastWordsRead

-----------------------------------------------------------------------------
(* SendAll of the main thread.  Passed positions are behind it, and the     *)
(* invariant counts the clients that got there without being told.          *)

Silent == ~Sending => audience = {} /\ \A c \in Clients : told[c] = 0

Running ==
  /\ run = FALSE => main \in {"join", "joined"}
  /\ pc \in {"closing", "ended"} => run = FALSE

AudienceWatched == \A c \in audience : \E p \in Positions : watchSockets[p] = c

ToldBefore ==
  Sending => \A p \in Positions : watchSockets[p] \in audience /\ told[watchSockets[p]] # 0 => p < sendAt

ToldOnce == \A c \in audience : told[c] <= 1

Writing ==
  main = "write" /\ target \in audience =>
    told[target] = 0 /\ \A p \in Positions : watchSockets[p] = target => p <= sendAt

Moved ==
  /\ disturbed <= Cardinality(Clients)
  /\ Sending /\ pc = "push" => disturbed = Cardinality(Clients)
  /\ main = "write" /\ target = "freed" => disturbed = Cardinality(Clients)

Passed(p) == p < sendAt \/ (p = sendAt /\ main = "write")

Lost == {c \in audience : /\ told[c] = 0 /\ peer[c] # "closed"
                          /\ ~(main = "write" /\ target = c)
                          /\ \E p \in Positions : watchSockets[p] = c /\ Passed(p)}

LostFew == Cardinality(Lost) <= disturbed

SendInv ==
  /\ Silent /\ Running /\ AudienceWatched /\ ToldBefore /\ ToldOnce /\ Writing /\ Moved /\ LostFew

LEMMA LostFinite ==
  ASSUME TypeOK
  PROVE  /\ Cardinality(Clients) \in Nat /\ IsFiniteSet(Lost) /\ Cardinality(Lost) \in Nat
         /\ Cardinality(Lost) <= Cardinality(Clients)
<1>1. Lost \subseteq Clients
  BY DEF Lost, TypeOK
<1> QED BY <1>1, ClientsAssumption, FS_Subset, FS_CardinalityType

(* The two ways to keep the count. *)
LEMMA NoneLost ==
  ASSUME TypeOK, TypeOK', LostFew, Lost' \subseteq Lost, disturbed' >= disturbed PROVE LostFew'
<1>1. Cardinality(Lost') <= Cardinality(Lost)
  BY LostFinite, FS_Subset
<1>2. Cardinality(Lost') \in Nat /\ Cardinality(Lost) \in Nat
  BY LostFinite, FS_Subset, FS_CardinalityType
<1>3. disturbed \in Nat /\ disturbed' \in Nat
  BY DEF TypeOK
<1> QED BY <1>1, <1>2, <1>3 DEF LostFew

LEMMA AllLost ==
  ASSUME TypeOK', disturbed' = Cardinality(Clients) PROVE LostFew'
<1>1. Lost' \subseteq Clients
  BY DEF Lost, TypeOK
<1>2. Cardinality(Lost') <= Cardinality(Clients)
  BY <1>1, ClientsAssumption, FS_Subset
<1> QED BY <1>2 DEF LostFew

LEMMA InitSend == Init => SendInv
<1> SUFFICES ASSUME Init PROVE SendInv
  OBVIOUS
<1>1. main = "event loop" /\ audience = {} /\ pc = "poll" /\ run = TRUE /\ disturbed = 0
      /\ \A c \in Clients : told[c] = 0
  BY DEF Init
<1>2. Lost = {} /\ Cardinality(Lost) = 0
  BY <1>1, FS_EmptySet DEF Lost
<1>3. Cardinality(Clients) \in Nat
  BY ClientsAssumption, FS_CardinalityType
<1>4. LostFew /\ disturbed <= Cardinality(Clients)
  <2>1. 0 <= Cardinality(Clients)
    BY <1>3
  <2>2. Cardinality(Lost) = 0 /\ disturbed = 0
    BY <1>1, <1>2
  <2>3. Cardinality(Lost) <= disturbed
    BY <2>2
  <2> QED BY <2>1, <2>2, <2>3 DEF LostFew
<1> QED BY <1>1, <1>4 DEF SendInv, Silent, Running, AudienceWatched, ToldBefore, ToldOnce, Writing, Moved, Sending

(* Steps that leave the vector and the main thread's SendAll as they are.   *)
LEMMA Aside ==
  ASSUME SocketInv, SocketInv', SendInv,
         UNCHANGED <<watchSockets, sendAt, audience, told, disturbed>>,
         run' = run \/ (run' = FALSE /\ main' = "join"),
         UNCHANGED <<main, target>> \/ ~(Sending \/ Sending'),
         main \in {"join", "joined"} => main' \in {"join", "joined"},
         pc' = "push" => pc = "push", pc' \in {"closing", "ended"} => run = FALSE,
         \A c \in audience : peer[c] = "closed" => peer'[c] = "closed"
  PROVE  SendInv'
<1> USE DEF SendInv
<1>1. Silent' /\ Running' /\ AudienceWatched' /\ ToldBefore' /\ ToldOnce'
  BY DEF Silent, Running, AudienceWatched, ToldBefore, ToldOnce, Positions, Sending
<1>2. Writing' /\ Moved'
  BY DEF Writing, Moved, Positions, Sending
<1>3. Lost' \subseteq Lost
  <2>1. CASE UNCHANGED <<main, target>>
    BY <2>1 DEF Lost, Passed, Positions
  <2>2. CASE ~(Sending \/ Sending')
    BY <2>2 DEF Silent, Lost
  <2> QED BY <2>1, <2>2
<1>4. disturbed' >= disturbed
  <2>1. disturbed \in Nat /\ disturbed' = disturbed
    BY DEF SocketInv, TypeOK
  <2> QED BY <2>1
<1>5. LostFew'
  BY <1>3, <1>4, NoneLost DEF SocketInv
<1> QED BY <1>1, <1>2, <1>5

LEMMA ClientSend ==
  ASSUME SocketInv, SocketInv', SendInv, NEW d \in Clients, Client(d) PROVE SendInv'
<1>1. /\ UNCHANGED <<run, watchSockets, sendAt, audience, told, disturbed, main, target, pc>>
  BY DEF Client, Connect, SendMessage, ReadBroadcast, Leave, members, loop, send, history
<1>2. ASSUME NEW c \in audience, peer[c] = "closed" PROVE peer'[c] = "closed"
  <2>1. c \in Clients /\ peer \in [Clients -> Peers]
    BY DEF SocketInv, TypeOK
  <2> QED BY <1>2, <2>1 DEF Client, Connect, SendMessage, ReadBroadcast, Leave
<1>3. pc' \in {"closing", "ended"} => run = FALSE
  BY <1>1 DEF SendInv, Running
<1> QED BY <1>1, <1>2, <1>3, Aside

LEMMA AcceptSend ==
  ASSUME SocketInv, SocketInv', SendInv, HandleAccept PROVE SendInv'
<1> USE DEF SendInv
<1>1. /\ UNCHANGED <<run, watchSockets, sendAt, audience, told, main, target, peer>>
      /\ pc' = "push" /\ disturbed' = IF Sending THEN Cardinality(Clients) ELSE disturbed
  BY DEF HandleAccept, ClientComes, members, send
<1>2. Silent' /\ Running' /\ AudienceWatched' /\ ToldBefore' /\ ToldOnce' /\ Writing'
  BY <1>1 DEF Silent, Running, AudienceWatched, ToldBefore, ToldOnce, Writing, Positions, Sending
<1>3. Cardinality(Clients) \in Nat /\ disturbed \in Nat
  BY LostFinite DEF SocketInv, TypeOK
<1>4. Moved'
  BY <1>1, <1>3 DEF Moved, Sending
<1>5. LostFew'
  <2>1. CASE Sending
    BY <1>1, <2>1, AllLost DEF SocketInv
  <2>2. CASE ~Sending
    <3>1. Lost' \subseteq Lost
      BY <1>1, <2>2 DEF Silent, Lost
    <3>2. disturbed' >= disturbed
      BY <1>1, <1>3, <2>2
    <3> QED BY <3>1, <3>2, NoneLost DEF SocketInv
  <2> QED BY <2>1, <2>2
<1> QED BY <1>2, <1>4, <1>5

LEMMA PushSend ==
  ASSUME SocketInv, SocketInv', SendInv, PushSocket PROVE SendInv'
<1> USE DEF SendInv
<1>1. /\ UNCHANGED <<run, sendAt, audience, told, disturbed, main, target, peer>>
      /\ pc = "push" /\ pc' = "scan" /\ watchSockets' = Append(watchSockets, newSocket)
  BY DEF PushSocket, wires, send, history
<1>2. /\ newSocket \in Descriptors /\ \A p \in Positions : watchSockets[p] # newSocket
      /\ watchSockets \in Seq(Descriptors) /\ Len(watchSockets) \in Nat
  BY <1>1, LenProperties DEF SocketInv, TypeOK, Shape, Accepted, Descriptors
<1>3. /\ Len(watchSockets') = Len(watchSockets) + 1
      /\ \A p \in Positions : watchSockets'[p] = watchSockets[p]
      /\ watchSockets'[Len(watchSockets) + 1] = newSocket
  BY <1>1, <1>2, AppendProperties DEF Positions
<1>4. Positions \subseteq Positions' /\ \A p \in Positions' : p \in Positions \/ watchSockets'[p] = newSocket
  BY <1>2, <1>3 DEF Positions
<1>5. newSocket \notin audience
  BY <1>2 DEF AudienceWatched
<1>6. Silent' /\ Running' /\ AudienceWatched' /\ ToldOnce'
  BY <1>1, <1>3, <1>4 DEF Silent, Running, AudienceWatched, ToldOnce, Sending
<1>7. ToldBefore' /\ Writing' /\ Moved'
  BY <1>1, <1>3, <1>4, <1>5 DEF ToldBefore, Writing, Moved, Sending
<1>8. LostFew'
  <2>1. CASE Sending
    BY <1>1, <2>1, AllLost DEF Moved, SocketInv
  <2>2. CASE ~Sending
    <3>1. Lost' \subseteq Lost
      BY <1>1, <2>2 DEF Silent, Lost
    <3>2. disturbed' >= disturbed
      <4>1. disturbed \in Nat
        BY DEF SocketInv, TypeOK
      <4> QED BY <1>1, <4>1
    <3> QED BY <3>1, <3>2, NoneLost DEF SocketInv
  <2> QED BY <2>1, <2>2
<1> QED BY <1>6, <1>7, <1>8

(* The last entry is behind all that is kept when one goes. *)
LEMMA HupSend ==
  ASSUME SocketInv, SocketInv', SendInv, Hup PROVE SendInv'
<1> DEFINE c == fds[pos].fd
<1>1. /\ UNCHANGED <<run, sendAt, main, target, peer>> /\ pc = "hup" /\ pc' = "scan"
  BY DEF Hup, send
<1>2. CASE "HUP" \notin fds[pos].revents
  <2>1. UNCHANGED <<watchSockets, audience, told, disturbed>>
    BY <1>2 DEF Hup, history
  <2> QED BY <1>1, <2>1, Aside
<1>3. CASE "HUP" \in fds[pos].revents
  <2>1. /\ Erase(c) /\ audience' = audience \ {c} /\ told' = [told EXCEPT ![c] = 0]
        /\ ClientLeaves
    BY <1>3 DEF Hup, HandleClosed
  <2>2. /\ pos \in Positions /\ watchSockets[pos] = c /\ c \in Clients
        /\ Distinct(watchSockets)
    BY <1>1 DEF SocketInv, Shape, Handling, Matched, Watched
  <2>3. /\ watchSockets \in Seq(Descriptors) /\ Len(watchSockets) \in Nat
        /\ DOMAIN watchSockets = Positions /\ sendAt \in Nat /\ disturbed \in Nat
        /\ told \in [Clients -> Nat] /\ audience \subseteq Clients
    BY LenProperties DEF SocketInv, TypeOK, Positions
  <2>4. watchSockets' = RemoveAt(watchSockets, pos)
    <3>1. c \in Range(watchSockets)
      BY <2>2, <2>3 DEF Range
    <3>2. PICK k \in Positions : watchSockets[k] = c /\ watchSockets' = RemoveAt(watchSockets, k)
      BY <2>1, <2>3, <3>1 DEF Erase
    <3>3. k = pos
      BY <2>2, <3>2 DEF Distinct, Positions
    <3> QED BY <3>2, <3>3
  <2>5. /\ Len(watchSockets') = Len(watchSockets) - 1
        /\ \A i \in 1..(Len(watchSockets) - 1) :
             watchSockets'[i] = IF i < pos THEN watchSockets[i] ELSE watchSockets[i + 1]
    BY <2>2, <2>3, <2>4, RemoveAtFacts DEF Positions
  <2> HIDE DEF c
  <2>6. ASSUME NEW i \in Positions'
        PROVE  \E q \in Positions : q \in {i, i + 1} /\ q # pos /\ watchSockets'[i] = watchSockets[q]
    <3>1. i \in 1..(Len(watchSockets) - 1) /\ i \in Nat /\ pos \in Nat
      BY <2>2, <2>3, <2>5, <2>6 DEF Positions
    <3>2. i \in Positions /\ i + 1 \in Positions
      BY <2>3, <3>1 DEF Positions
    <3>3. CASE i < pos
      BY <2>5, <3>1, <3>2, <3>3
    <3>4. CASE ~(i < pos)
      BY <2>5, <3>1, <3>2, <3>4
    <3> QED BY <3>3, <3>4
  <2>7. \A i \in Positions' : watchSockets'[i] # c
    BY <2>2, <2>6 DEF Distinct, Positions
  <2>8. ASSUME NEW q \in Positions, watchSockets[q] # c
        PROVE  \E i \in Positions' : watchSockets'[i] = watchSockets[q]
    <3>1. q # pos /\ q \in Nat /\ pos \in Nat /\ 1 <= q /\ q <= Len(watchSockets)
          /\ 1 <= pos /\ pos <= Len(watchSockets)
      BY <2>2, <2>3, <2>8 DEF Positions
    <3>2. CASE q < pos
      <4>1. q \in 1..(Len(watchSockets) - 1)
        BY <2>3, <3>1, <3>2
      <4> QED BY <2>5, <3>2, <4>1 DEF Positions
    <3>3. CASE ~(q < pos)
      <4>1. q - 1 \in 1..(Len(watchSockets) - 1) /\ ~(q - 1 < pos) /\ q - 1 + 1 = q
        BY <2>3, <3>1, <3>3
      <4>2. watchSockets'[q - 1] = watchSockets[q]
        BY <2>5, <4>1
      <4> QED BY <2>5, <4>1, <4>2 DEF Positions
    <3> QED BY <3>2, <3>3
  <2>9. \A d \in Clients : told'[d] = IF d = c THEN 0 ELSE told[d]
    BY <2>1, <2>3
  <2>10. Silent' /\ Running'
    BY <1>1, <2>1, <2>9 DEF SendInv, Silent, Running, Sending
  <2>11. AudienceWatched'
    BY <2>1, <2>8 DEF SendInv, AudienceWatched
  <2>12. ToldOnce'
    BY <2>1, <2>3, <2>9 DEF SendInv, ToldOnce
  <2>13. ToldBefore'
    <3>1. SUFFICES ASSUME Sending, NEW i \in Positions', watchSockets'[i] \in audience',
                          told'[watchSockets'[i]] # 0
                   PROVE  i < sendAt
      BY <1>1 DEF ToldBefore, Sending
    <3>2. PICK q \in Positions : q \in {i, i + 1} /\ watchSockets'[i] = watchSockets[q]
      BY <2>6
    <3>3. watchSockets[q] \in audience /\ told[watchSockets[q]] # 0
      BY <2>1, <2>3, <2>9, <3>1, <3>2
    <3>4. q < sendAt
      BY <3>1, <3>3 DEF SendInv, ToldBefore
    <3> QED BY <2>3, <3>2, <3>4 DEF Positions
  <2>14. Writing'
    <3>1. SUFFICES ASSUME main = "write", target \in audience'
                   PROVE  told'[target] = 0 /\ \A i \in Positions' : watchSockets'[i] = target => i <= sendAt
      BY <1>1 DEF Writing
    <3>2. target \in audience /\ told[target] = 0 /\ \A q \in Positions : watchSockets[q] = target => q <= sendAt
      BY <2>1, <3>1 DEF SendInv, Writing
    <3>3. ASSUME NEW i \in Positions', watchSockets'[i] = target PROVE i <= sendAt
      <4>1. PICK q \in Positions : q \in {i, i + 1} /\ watchSockets'[i] = watchSockets[q]
        BY <2>6
      <4>2. q <= sendAt
        BY <3>2, <3>3, <4>1
      <4> QED BY <2>3, <4>1, <4>2 DEF Positions
    <3> QED BY <2>3, <2>9, <3>2, <3>3
  <2>15. Cardinality(Clients) \in Nat /\ IsFiniteSet(Lost) /\ Cardinality(Lost) \in Nat
    BY LostFinite DEF SocketInv
  <2>16. Moved'
    BY <1>1, <2>1, <2>3, <2>15 DEF SendInv, Moved, ClientLeaves, Sending
  <2>17. LostFew'
    <3>1. CASE ~Sending
      <4>1. Lost' \subseteq Lost
        BY <2>1, <3>1 DEF SendInv, Silent, Lost
      <4>2. disturbed' >= disturbed
        BY <2>1, <2>3, <3>1 DEF ClientLeaves
      <4> QED BY <4>1, <4>2, NoneLost DEF SocketInv, SendInv
    <3>2. CASE Sending /\ ~(disturbed < Cardinality(Clients))
      <4>1. disturbed' = Cardinality(Clients)
        BY <2>1, <2>3, <2>15, <3>2 DEF ClientLeaves, SendInv, Moved
      <4> QED BY <4>1, AllLost DEF SocketInv
    <3>3. CASE Sending /\ disturbed < Cardinality(Clients)
      <4> DEFINE First == IF main = "write" THEN sendAt + 1 ELSE sendAt
      <4>1. disturbed' = disturbed + 1
        BY <2>1, <3>3 DEF ClientLeaves
      <4>2. Lost' \subseteq Lost \cup {watchSockets[First]}
        <5>1. SUFFICES ASSUME NEW d \in Lost', d # watchSockets[First] PROVE d \in Lost
          OBVIOUS
        <5>2. PICK i \in Positions' : watchSockets'[i] = d /\ Passed(i)'
          BY <5>1 DEF Lost
        <5>3. PICK q \in Positions : q \in {i, i + 1} /\ watchSockets'[i] = watchSockets[q]
          BY <2>6
        <5>4. q # First
          BY <5>1, <5>2, <5>3
        <5>5. Passed(q)
          <6>1. i < sendAt \/ (i = sendAt /\ main = "write")
            BY <1>1, <5>2 DEF Passed
          <6>2. q \in Nat /\ i \in Nat
            BY <2>3, <2>5 DEF Positions
          <6>3. CASE main = "write"
            BY <2>3, <5>3, <5>4, <6>1, <6>2, <6>3 DEF Passed
          <6>4. CASE main # "write"
            BY <2>3, <5>3, <5>4, <6>1, <6>2, <6>4 DEF Passed
          <6> QED BY <6>3, <6>4
        <5>6. d \in audience' /\ told'[d] = 0 /\ peer[d] # "closed" /\ ~(main = "write" /\ target = d)
          BY <1>1, <5>1 DEF Lost
        <5>7. d \in audience /\ told[d] = 0
          BY <2>1, <2>3, <2>9, <5>6
        <5> QED BY <5>2, <5>3, <5>5, <5>6, <5>7 DEF Lost
      <4>3. /\ IsFiniteSet(Lost \cup {watchSockets[First]})
            /\ Cardinality(Lost \cup {watchSockets[First]}) \in {Cardinality(Lost), Cardinality(Lost) + 1}
        BY <2>15, FS_AddElement
      <4>4. Cardinality(Lost') <= Cardinality(Lost \cup {watchSockets[First]}) /\ Cardinality(Lost') \in Nat
        BY <4>2, <4>3, FS_Subset, FS_CardinalityType
      <4>5. Cardinality(Lost) <= disturbed
        BY DEF SendInv, LostFew
      <4> HIDE DEF First
      <4> QED BY <2>3, <2>15, <4>1, <4>3, <4>4, <4>5 DEF LostFew
    <3> QED BY <3>1, <3>2, <3>3
  <2> QED BY <2>10, <2>11, <2>12, <2>13, <2>14, <2>16, <2>17 DEF SendInv
<1> QED BY <1>2, <1>3

LEMMA LoopSend ==
  ASSUME SocketInv, SocketInv', SendInv, Loop PROVE SendInv'
<1>1. CASE Poll \/ RoundEnds \/ Receive \/ TellAll \/ CloseAll
  <2>1. /\ UNCHANGED <<run, watchSockets, sendAt, audience, told, disturbed, main, target, peer>>
        /\ pc' # "push"
    BY <1>1 DEF Poll, RoundEnds, Receive, HandleReceived, TellAll, CloseAll, members, wires, send, history
  <2>2. pc' \in {"closing", "ended"} => run = FALSE
    BY <1>1 DEF Poll, RoundEnds, Receive, HandleReceived, TellAll, CloseAll, SendInv, Running, SocketInv, TypeOK
  <2> QED BY <2>1, <2>2, Aside
<1> QED BY <1>1, AcceptSend, PushSend, HupSend DEF Loop

LEMMA PipeSend ==
  ASSUME SocketInv, SocketInv', SendInv, PipeReceive PROVE SendInv'
<1>1. /\ main = "event loop" /\ UNCHANGED <<run, watchSockets, target, peer, pc, told>>
  BY DEF PipeReceive, members, loop, wires, history
<1>2. CASE Head(workerPipe) # "all"
  <2>1. /\ UNCHANGED <<sendAt, audience, told, disturbed>>
        /\ main' \in {"event loop", "leaving"}
    BY <1>1, <1>2 DEF PipeReceive, history
  <2>2. pc' \in {"closing", "ended"} => run = FALSE
    BY <1>1 DEF SendInv, Running
  <2> QED BY <1>1, <2>1, <2>2, Aside DEF Sending
<1>3. CASE Head(workerPipe) = "all"
  <2>1. /\ main' = "load" /\ sendAt' = 2 /\ audience' = Range(watchSockets) \cap Clients
        /\ disturbed' = (IF pc = "push" THEN Cardinality(Clients) ELSE 0)
    BY <1>3 DEF PipeReceive
  <2>2. \A c \in Clients : told[c] = 0
    BY <1>1 DEF SendInv, Silent, Sending
  <2>3. DOMAIN watchSockets = Positions
    BY LenProperties DEF SocketInv, TypeOK, Positions
  <2>4. Cardinality(Clients) \in Nat
    BY LostFinite DEF SocketInv
  <2>5. Silent' /\ Running' /\ Writing'
    BY <1>1, <2>1 DEF SendInv, Silent, Running, Writing, Sending
  <2>6. AudienceWatched'
    BY <1>1, <2>1, <2>3 DEF AudienceWatched, Range, Positions
  <2>7. ToldBefore' /\ ToldOnce'
    <3>1. \A c \in audience' : told'[c] = 0
      BY <1>1, <2>1, <2>2
    <3> QED BY <3>1 DEF ToldBefore, ToldOnce
  <2>8. Moved'
    <3>1. disturbed' <= Cardinality(Clients)
      BY <2>1, <2>4
    <3> QED BY <1>1, <2>1, <3>1 DEF Moved
  <2>9. LostFew'
    <3>1. ASSUME NEW c \in Lost' PROVE FALSE
      <4>1. PICK p \in Positions : watchSockets[p] = c /\ p < 2
        BY <1>1, <2>1, <3>1 DEF Lost, Passed, Positions
      <4>2. p = 1
        BY <4>1 DEF Positions
      <4>3. c = "listen" /\ c \in Clients
        BY <2>1, <3>1, <4>1, <4>2 DEF Lost, SocketInv, Shape, Watched
      <4> QED BY <4>3, ClientsAssumption
    <3>2. Cardinality(Lost') = 0
      BY <3>1, FS_EmptySet
    <3>3. disturbed' \in Nat
      BY DEF SocketInv, TypeOK
    <3> QED BY <3>2, <3>3 DEF LostFew
  <2> QED BY <2>5, <2>6, <2>7, <2>8, <2>9 DEF SendInv
<1> QED BY <1>2, <1>3

LEMMA LoadSend ==
  ASSUME SocketInv, SocketInv', SendInv, SendAllLoad PROVE SendInv'
<1>1. main = "load" /\ UNCHANGED <<run, watchSockets, peer, pc>>
  BY DEF SendAllLoad, members, loop, wires
<1>2. /\ Len(watchSockets) \in Nat /\ sendAt \in Nat /\ sendAt >= 1 /\ disturbed \in Nat
      /\ Distinct(watchSockets) /\ audience \subseteq Clients
  BY LenProperties DEF SocketInv, TypeOK, Shape, Watched
<1>3. CASE ~(sendAt <= Len(watchSockets))
  <2>1. /\ main' = "event loop" /\ target' = "none" /\ audience' = {}
        /\ told' = [c \in Clients |-> 0] /\ disturbed' = 0
    BY <1>3 DEF SendAllLoad
  <2>2. Silent' /\ Running' /\ AudienceWatched' /\ ToldBefore' /\ ToldOnce' /\ Writing'
    BY <1>1, <2>1 DEF SendInv, Silent, Running, AudienceWatched, ToldBefore, ToldOnce, Writing, Sending
  <2>3. Moved'
    <3>1. 0 <= Cardinality(Clients)
      BY LostFinite DEF SocketInv
    <3> QED BY <2>1, <3>1 DEF Moved, Sending
  <2>4. LostFew'
    <3>1. Lost' = {}
      BY <2>1 DEF Lost
    <3>2. Cardinality(Lost') = 0 /\ disturbed' = 0
      BY <2>1, <3>1, FS_EmptySet
    <3> QED BY <3>2 DEF LostFew
  <2> QED BY <2>2, <2>3, <2>4 DEF SendInv
<1>4. CASE sendAt <= Len(watchSockets)
  <2>1. /\ target' \in {watchSockets[sendAt]} \cup (IF pc = "push" THEN {"freed"} ELSE {})
        /\ main' = "write" /\ UNCHANGED <<sendAt, audience, told, disturbed>>
    BY <1>4 DEF SendAllLoad, history
  <2>2. sendAt \in Positions
    BY <1>2, <1>4 DEF Positions
  <2>3. target' \in audience => target' = watchSockets[sendAt]
    BY <1>2, <2>1, ClientsAssumption
  <2>4. Silent' /\ Running' /\ AudienceWatched' /\ ToldBefore' /\ ToldOnce'
    BY <1>1, <2>1 DEF SendInv, Silent, Running, AudienceWatched, ToldBefore, ToldOnce, Sending, Positions
  <2>5. Writing'
    <3>1. SUFFICES ASSUME target' \in audience
                   PROVE  told[target'] = 0 /\ \A p \in Positions : watchSockets[p] = target' => p <= sendAt
      BY <1>1, <2>1 DEF Writing, Positions
    <3>2. target' = watchSockets[sendAt]
      BY <2>3, <3>1
    <3>3. told[target'] = 0
      BY <1>1, <1>2, <2>2, <3>1, <3>2 DEF SendInv, ToldBefore, Sending
    <3>4. \A p \in Positions : watchSockets[p] = target' => p = sendAt
      BY <1>2, <2>2, <3>2 DEF Distinct, Positions
    <3> QED BY <1>2, <3>3, <3>4
  <2>6. pc = "push" => disturbed = Cardinality(Clients)
    BY <1>1 DEF SendInv, Moved, Sending
  <2>7. Moved'
    <3>1. target' = "freed" => pc = "push"
      <4>1. watchSockets[sendAt] \in Descriptors
        BY <2>2, ElementOfSeq DEF SocketInv, TypeOK, Positions
      <4> QED BY <2>1, <4>1, ClientsAssumption DEF Descriptors
    <3> QED BY <1>1, <2>1, <2>6, <3>1 DEF SendInv, Moved
  <2>8. LostFew'
    <3>1. CASE pc = "push"
      BY <2>1, <2>6, <3>1, AllLost DEF SocketInv
    <3>2. CASE pc # "push"
      <4>1. target' = watchSockets[sendAt]
        BY <2>1, <3>2
      <4>2. Lost' \subseteq Lost
        BY <1>1, <2>1, <4>1 DEF Lost, Passed, Positions
      <4>3. disturbed' >= disturbed
        BY <1>2, <2>1
      <4> QED BY <4>2, <4>3, NoneLost DEF SocketInv, SendInv
    <3> QED BY <3>1, <3>2
  <2> QED BY <2>4, <2>5, <2>7, <2>8 DEF SendInv
<1> QED BY <1>3, <1>4

LEMMA WriteSend ==
  ASSUME SocketInv, SocketInv', SendInv, SendAllWrite PROVE SendInv'
<1>1. /\ main = "write" /\ main' = "load" /\ sendAt' = sendAt + 1 /\ target' = "none"
      /\ told' = IF Reaches(target) THEN [told EXCEPT ![target] = @ + 1] ELSE told
      /\ UNCHANGED <<run, watchSockets, peer, pc, audience, disturbed>>
  BY DEF SendAllWrite, members, loop
<1>2. /\ Len(watchSockets) \in Nat /\ sendAt \in Nat /\ disturbed \in Nat
      /\ told \in [Clients -> Nat] /\ audience \subseteq Clients
  BY LenProperties DEF SocketInv, TypeOK
<1>3. \A c \in Clients : told'[c] = IF c = target /\ Reaches(c) THEN told[c] + 1 ELSE told[c]
  BY <1>1, <1>2
<1>4. Silent' /\ Running' /\ AudienceWatched'
  BY <1>1 DEF SendInv, Silent, Running, AudienceWatched, Sending, Positions
<1>5. ToldBefore'
  <2>1. SUFFICES ASSUME NEW p \in Positions, watchSockets[p] \in audience, told'[watchSockets[p]] # 0
                 PROVE  p < sendAt + 1
    BY <1>1 DEF ToldBefore, Positions
  <2>2. CASE told[watchSockets[p]] # 0
    <3>1. p < sendAt
      BY <1>1, <2>1, <2>2 DEF SendInv, ToldBefore, Sending
    <3> QED BY <1>2, <3>1 DEF Positions
  <2>3. CASE told[watchSockets[p]] = 0
    <3>1. watchSockets[p] = target
      BY <1>2, <1>3, <2>1, <2>3
    <3>2. p <= sendAt
      BY <1>1, <2>1, <3>1 DEF SendInv, Writing
    <3> QED BY <1>2, <3>2 DEF Positions
  <2> QED BY <2>2, <2>3
<1>6. ToldOnce'
  <2>1. SUFFICES ASSUME NEW c \in audience PROVE told'[c] <= 1
    BY <1>1 DEF ToldOnce
  <2>2. CASE c = target
    <3>1. told[c] = 0
      BY <1>1, <2>2 DEF SendInv, Writing
    <3> QED BY <1>2, <1>3, <3>1
  <2>3. CASE c # target
    BY <1>2, <1>3, <2>3 DEF SendInv, ToldOnce
  <2> QED BY <2>2, <2>3
<1>7. Writing' /\ Moved'
  BY <1>1 DEF SendInv, Writing, Moved, Sending
<1>8. LostFew'
  <2>1. ASSUME NEW d \in Lost' PROVE d \in Lost
    <3>1. /\ d \in audience /\ d \in Clients /\ told'[d] = 0 /\ peer[d] # "closed"
      BY <1>1, <1>2, <2>1 DEF Lost
    <3>2. PICK p \in Positions : watchSockets[p] = d /\ p < sendAt + 1
      BY <1>1, <2>1 DEF Lost, Passed, Positions
    <3>3. Passed(p)
      BY <1>1, <1>2, <3>2 DEF Passed, Positions
    <3>4. told[d] = 0 /\ ~(d = target /\ Reaches(d))
      BY <1>2, <1>3, <3>1
    <3>5. isOpen[d]
      <4>1. pc # "ended"
        BY <1>1 DEF SendInv, Running
      <4> QED BY <3>1, <3>2, <4>1 DEF SocketInv, Shape, Watched
    <3>6. d # target
      BY <3>1, <3>4, <3>5 DEF Reaches
    <3> QED BY <3>1, <3>2, <3>3, <3>4, <3>6 DEF Lost
  <2>2. disturbed' >= disturbed
    BY <1>1, <1>2
  <2> QED BY <2>1, <2>2, NoneLost DEF SocketInv, SendInv
<1> QED BY <1>4, <1>5, <1>6, <1>7, <1>8 DEF SendInv

LEMMA StepSend == SocketInv /\ SocketInv' /\ SendInv /\ [Next]_vars => SendInv'
<1> SUFFICES ASSUME SocketInv, SocketInv', SendInv, [Next]_vars PROVE SendInv'
  OBVIOUS
<1>1. CASE PostMessage \/ Signal \/ Stop \/ Join \/ UNCHANGED vars
  <2>1. /\ UNCHANGED <<watchSockets, sendAt, audience, told, disturbed, target, peer, pc>>
        /\ run' = run \/ (run' = FALSE /\ main' = "join")
        /\ main' = main \/ (~Sending /\ ~Sending')
        /\ main \in {"join", "joined"} => main' \in {"join", "joined"}
    BY <1>1 DEF PostMessage, Signal, Stop, Join, vars, members, loop, wires, send, history, Sending
  <2>2. pc' \in {"closing", "ended"} => run = FALSE
    BY <2>1 DEF SendInv, Running
  <2> QED BY <2>1, <2>2, Aside
<1> QED BY <1>1, ClientSend, LoopSend, PipeSend, LoadSend, WriteSend DEF Next, MainThread, Ended

LEMMA SendInductive == Spec => []SendInv
<1>1. Init => SendInv
  BY InitSend
<1> QED BY <1>1, Inductive, StepSend, PTL DEF Spec

LEMMA Broadcast ==
  ASSUME SocketInv, SendInv PROVE BroadcastReaches
<1>1. \A c \in audience : told[c] <= 1
  BY DEF SendInv, ToldOnce
<1>2. ASSUME main = "load", sendAt > Len(watchSockets) PROVE Cardinality(Missed) <= disturbed
  <2>1. Missed \subseteq Lost
    <3>1. \A p \in Positions : p < sendAt
      BY <1>2, LenProperties DEF Positions, SocketInv, TypeOK
    <3> QED BY <1>2, <3>1 DEF Missed, Lost, Passed, SendInv, AudienceWatched
  <2>2. IsFiniteSet(Lost) /\ Cardinality(Lost) \in Nat
    BY LostFinite DEF SocketInv
  <2>3. Cardinality(Missed) <= Cardinality(Lost) /\ Cardinality(Missed) \in Nat
    BY <2>1, <2>2, FS_Subset, FS_CardinalityType
  <2>4. Cardinality(Lost) <= disturbed /\ disturbed \in Nat
    BY DEF SendInv, LostFew, SocketInv, TypeOK
  <2> QED BY <2>2, <2>3, <2>4
<1> QED BY <1>1, <1>2 DEF BroadcastReaches

(* For any number of clients, although the socket thread changes            *)
(* _watchSockets under SendAll: no client that stays gets a broadcast       *)
(* twice, and unless one came meanwhile at most one is missed for each that *)
(* left.                                                                    *)
THEOREM BroadcastSafe == Spec => []BroadcastReaches
<1>1. SocketInv /\ SendInv => BroadcastReaches
  BY Broadcast
<1> QED BY <1>1, Inductive, SendInductive, PTL
-----------------------------------------------------------------------------
(* The array for poll *)

LEMMA DistinctLength ==
  ASSUME NEW S, IsFiniteSet(S), NEW s \in Seq(S), Distinct(s)
  PROVE  Len(s) <= Cardinality(S)
<1>1. Len(s) \in Nat /\ s \in [1..Len(s) -> S]
  BY LenProperties
<1>2. IsFiniteSet(1..Len(s)) /\ Cardinality(1..Len(s)) = Len(s)
  BY <1>1, FS_Interval
<1>3. Cardinality(S) \in Nat
  BY FS_CardinalityType
<1>4. ~(Cardinality(S) < Cardinality(1..Len(s)))
  BY <1>1, <1>2, FS_PigeonHole DEF Distinct
<1> QED BY <1>1, <1>2, <1>3, <1>4

LEMMA WatchedFew ==
  ASSUME NEW s \in Seq(Descriptors), Distinct(s) PROVE Len(s) <= Cardinality(Clients) + 2
<1>1. Cardinality(Clients) \in Nat /\ IsFiniteSet(Clients)
  BY ClientsAssumption, FS_CardinalityType
<1>2. IsFiniteSet(Clients \cup {"listen"}) /\ Cardinality(Clients \cup {"listen"}) = Cardinality(Clients) + 1
  BY <1>1, ClientsAssumption, FS_AddElement
<1>3. "pipe" \notin Clients \cup {"listen"}
  BY ClientsAssumption
<1>4. /\ IsFiniteSet((Clients \cup {"listen"}) \cup {"pipe"})
      /\ Cardinality((Clients \cup {"listen"}) \cup {"pipe"}) = Cardinality(Clients \cup {"listen"}) + 1
  BY <1>2, <1>3, FS_AddElement
<1>5. Descriptors = (Clients \cup {"listen"}) \cup {"pipe"}
  BY DEF Descriptors
<1>6. IsFiniteSet(Descriptors) /\ Cardinality(Descriptors) = Cardinality(Clients) + 2
  BY <1>1, <1>2, <1>4, <1>5
<1> QED BY <1>6, DistinctLength

(* With no more clients than _fds has room for, BuildFds writes inside the  *)
(* array and the pipe to the main thread behind it stays intact, whatever   *)
(* comes and goes: a socket is never watched twice.                         *)
THEOREM PipeSafeForFew ==
  ASSUME Cardinality(Clients) + 2 <= MaxFds PROVE Spec => []WorkerPipeIntact
<1>1. Init => WorkerPipeIntact
  BY DEF Init, WorkerPipeIntact
<1>2. ASSUME SocketInv, WorkerPipeIntact, [Next]_vars
      PROVE  WorkerPipeIntact'
  <2>1. SocketInv'
    BY <1>2, StepInv
  <2>2. Len(watchSockets') <= Cardinality(Clients) + 2
    <3>1. watchSockets' \in Seq(Descriptors) /\ Distinct(watchSockets')
      BY <2>1 DEF SocketInv, TypeOK, Shape, Watched, Distinct
    <3> QED BY <3>1, WatchedFew
  <2>3. ~(Len(watchSockets') > MaxFds)
    <3>1. Len(watchSockets') \in Nat /\ MaxFds \in Nat /\ Cardinality(Clients) \in Nat
      BY <2>1, LenProperties, ClientsAssumption, FS_CardinalityType DEF SocketInv, TypeOK
    <3> QED BY <2>2, <3>1
  <2>4. CASE PushSocket \/ Hup
    BY <1>2, <2>3, <2>4 DEF PushSocket, Hup, BuildFds, WorkerPipeIntact
  <2>5. CASE ~(PushSocket \/ Hup)
    BY <1>2, <2>5 DEF Next, Client, Connect, SendMessage, ReadBroadcast, Leave, Loop, Poll, RoundEnds,
         HandleAccept, Receive, TellAll, CloseAll, PostMessage, Signal, MainThread, PipeReceive, SendAllLoad,
         SendAllWrite, Stop, Join, Ended, vars, members, WorkerPipeIntact
  <2> QED BY <2>4, <2>5
<1> QED BY <1>1, <1>2, Inductive, PTL DEF Spec
-----------------------------------------------------------------------------
(* The end of the thread and of the process *)

Woken == main \in {"join", "joined"} => run = FALSE /\ internPipe = 1

LEMMA WokenStep == Woken /\ [Next]_vars => Woken'
<1> SUFFICES ASSUME Woken, [Next]_vars PROVE Woken'
  OBVIOUS
<1> USE DEF Woken
<1>1. CASE (\E c \in Clients : Client(c)) \/ PostMessage \/ Ended \/ UNCHANGED vars
  BY <1>1 DEF Client, Connect, SendMessage, ReadBroadcast, Leave, PostMessage, Ended, vars, members, send
<1>2. CASE Loop
  BY <1>2 DEF Loop, Poll, RoundEnds, HandleAccept, PushSocket, Receive, TellAll, Hup, CloseAll, members, send
<1>3. CASE Signal \/ PipeReceive \/ SendAllLoad \/ SendAllWrite
  BY <1>3 DEF Signal, PipeReceive, SendAllLoad, SendAllWrite
<1>4. CASE Stop
  BY <1>4 DEF Stop
<1>5. CASE Join
  BY <1>5 DEF Join, members
<1> QED BY <1>1, <1>2, <1>3, <1>4, <1>5 DEF Next, MainThread

(* The thread that main waits for finds an event in its next poll.          *)
ThreadWakes ==
  main = "join" /\ pc = "poll" => ~run /\ \E p \in DOMAIN fds : Ready(fds[p].fd) # {}

(* ~SocketController clears _run, writes to _internPipe and joins.  The     *)
(* wakeup cannot be lost: wherever the thread is when main joins it, it     *)
(* finds the pipe readable in its next poll, since no accept and no close   *)
(* takes the pipe out of _fds, and sees that it shall end.                  *)
THEOREM WakeUpNotLost == Spec => []ThreadWakes
<1>1. Init => Woken
  BY DEF Init, Woken
<1>2. ASSUME SocketInv, Woken PROVE ThreadWakes
  <2>1. SUFFICES ASSUME main = "join" PROVE ~run /\ \E p \in DOMAIN fds : Ready(fds[p].fd) # {}
    BY DEF ThreadWakes
  <2>2. ~run /\ internPipe = 1
    BY <1>2, <2>1 DEF Woken
  <2>3. 2 \in DOMAIN fds /\ fds[2].fd = "pipe"
    <3>1. DOMAIN fds = 1..Len(fds) /\ Len(fds) \in Nat
      BY <1>2, LenProperties DEF SocketInv, TypeOK
    <3>2. Len(fds) >= 2 /\ fds[2].fd = watchSockets[2] /\ watchSockets[2] = "pipe"
      <4>1. Len(watchSockets) >= 2 /\ watchSockets[2] = "pipe" /\ Len(fds) = Len(watchSockets)
        BY <1>2 DEF SocketInv, Shape, Watched, Matched
      <4>2. 2 \in Positions
        BY <3>1, <4>1 DEF Positions
      <4> QED BY <1>2, <4>1, <4>2 DEF SocketInv, Shape, Matched
    <3> QED BY <3>1, <3>2
  <2>4. Ready("pipe") = {"IN"}
    BY <2>2 DEF Ready
  <2> QED BY <2>2, <2>3, <2>4
<1> QED BY <1>1, <1>2, Inductive, WokenStep, PTL DEF Spec

(* The message that ends main waits for it, or main has left its loop.      *)
DeathDecided ==
  pc = "tell" /\ backendPipe = "worker" =>
    \/ main \in {"leaving", "join", "joined"}
    \/ \E i \in 1..Len(workerPipe) : workerPipe[i] = "die"

LEMMA AppendKeeps ==
  ASSUME NEW s \in Seq(WorkerMessages), NEW m \in WorkerMessages
  PROVE  /\ (\E i \in 1..Len(s) : s[i] = "die")
            => \E i \in 1..Len(Append(s, m)) : Append(s, m)[i] = "die"
         /\ m = "die" => \E i \in 1..Len(Append(s, m)) : Append(s, m)[i] = "die"
<1>1. /\ Len(s) \in Nat /\ Len(Append(s, m)) = Len(s) + 1
      /\ \A i \in 1..Len(s) : Append(s, m)[i] = s[i]
      /\ Append(s, m)[Len(s) + 1] = m
  BY AppendProperties, LenProperties
<1>2. ASSUME NEW i \in 1..Len(s), s[i] = "die"
      PROVE  \E j \in 1..Len(Append(s, m)) : Append(s, m)[j] = "die"
  <2>1. i \in 1..Len(Append(s, m))
    BY <1>1
  <2> QED BY <1>1, <1>2, <2>1
<1>3. Len(s) + 1 \in 1..Len(Append(s, m))
  BY <1>1
<1> QED BY <1>1, <1>2, <1>3

LEMMA TailKeeps ==
  ASSUME NEW s \in Seq(WorkerMessages), s # <<>>, Head(s) # "die",
         \E i \in 1..Len(s) : s[i] = "die"
  PROVE  \E i \in 1..Len(Tail(s)) : Tail(s)[i] = "die"
<1>1. PICK i \in 1..Len(s) : s[i] = "die"
  OBVIOUS
<1>2. Len(s) \in Nat /\ Len(Tail(s)) = Len(s) - 1 /\ \A j \in 1..Len(Tail(s)) : Tail(s)[j] = s[j + 1]
  BY HeadTailProperties, LenProperties
<1>3. i # 1
  BY <1>1
<1>4. i - 1 \in 1..Len(Tail(s)) /\ (i - 1) + 1 = i
  BY <1>2, <1>3
<1> QED BY <1>1, <1>2, <1>4

LEMMA DeathStep ==
  ASSUME SocketInv, DeathDecided, [Next]_vars PROVE DeathDecided'
<1> SUFFICES ASSUME pc' = "tell", backendPipe' = "worker"
             PROVE  \/ main' \in {"leaving", "join", "joined"}
                    \/ \E i \in 1..Len(workerPipe') : workerPipe'[i] = "die"
  BY DEF DeathDecided
<1>a. workerPipe \in Seq(WorkerMessages)
  BY DEF SocketInv, TypeOK
<1>1. CASE Receive
  <2>1. PICK c \in Clients : HandleReceived(c)
    BY <1>1 DEF Receive
  <2>2. /\ backendPipe = "worker" /\ WorkerPipeHasRoom
        /\ workerPipe' = Append(workerPipe, "die")
    <3>1. backendPipe = "worker"
      BY <1>1 DEF Receive, members
    <3> QED BY <2>1, <3>1 DEF HandleReceived, WorkerMessages
  <2> QED BY <1>a, <2>2, AppendKeeps DEF WorkerMessages
<1>2. CASE Poll \/ RoundEnds \/ HandleAccept \/ PushSocket \/ Hup \/ CloseAll
  BY <1>2 DEF Poll, RoundEnds, HandleAccept, PushSocket, Hup, CloseAll
<1>4. CASE PostMessage
  <2>1. PICK m \in WorkerMessages : workerPipe' = Append(workerPipe, m)
    BY <1>4 DEF PostMessage, WorkerMessages
  <2>2. main' = main /\ pc = "tell" /\ backendPipe = "worker"
    BY <1>4 DEF PostMessage, send, members, loop
  <2> QED BY <1>a, <2>1, <2>2, AppendKeeps DEF DeathDecided
<1>5. CASE PipeReceive
  <2>1. pc = "tell" /\ backendPipe = "worker" /\ main = "event loop"
    BY <1>5 DEF PipeReceive, members, loop
  <2>2. workerPipe # <<>> /\ workerPipe' = Tail(workerPipe)
    BY <1>5 DEF PipeReceive
  <2>3. Head(workerPipe) = "die" => main' = "leaving"
    BY <1>5 DEF PipeReceive
  <2>4. CASE Head(workerPipe) # "die"
    BY <1>a, <2>1, <2>2, <2>4, TailKeeps DEF DeathDecided
  <2> QED BY <2>3, <2>4
<1>6. CASE TellAll \/ (\E c \in Clients : Client(c)) \/ Ended \/ UNCHANGED vars
  BY <1>6 DEF TellAll, Client, Connect, SendMessage, ReadBroadcast, Leave, Ended, vars, members, loop, send,
     DeathDecided
<1>7. CASE Signal \/ Stop \/ Join
  BY <1>7 DEF Signal, Stop, Join
<1>8. CASE SendAllLoad \/ SendAllWrite
  <2>1. /\ UNCHANGED <<pc, backendPipe, workerPipe>> /\ main \in {"load", "write"}
    BY <1>8 DEF SendAllLoad, SendAllWrite, members, loop
  <2> QED BY <2>1 DEF DeathDecided
<1> QED BY <1>1, <1>2, <1>4, <1>5, <1>6, <1>7, <1>8 DEF Next, Loop, MainThread

(* A client is told "selbstmord" by the socket thread only when the main    *)
(* thread has already left its event loop, or cannot overlook the message   *)
(* that ends it: it is in the worker pipe (HandleReceived).                 *)
THEOREM DeathAnnounced == Spec => []DeathDecided
<1>1. Init => DeathDecided
  BY DEF Init, DeathDecided
<1>2. SocketInv /\ DeathDecided /\ [Next]_vars => DeathDecided'
  BY DeathStep
<1> QED BY <1>1, <1>2, Inductive, PTL DEF Spec
=============================================================================
