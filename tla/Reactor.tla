------------------------------ MODULE Reactor ------------------------------
(***************************************************************************)
(* The reactor of one thread and the life cycle of its sockets:            *)
(* src/Linux/reactor1.cpp and socket1.cpp, the FreeBSD files of the same   *)
(* names, and the socket part of src/socket.cpp.                           *)
(*                                                                         *)
(* The kernel reports events by descriptor number; the reactor finds the   *)
(* target of a number in its table.  Handlers are user code: they open,    *)
(* connect and close sockets, of whose events some may be in the batch     *)
(* under way, and the kernel uses the numbers of closed sockets again.     *)
(* Both platforms run the same handlers; epoll is edge-triggered and       *)
(* reports a number once, kqueue is level-triggered and reports reading    *)
(* and writing apart.                                                      *)
(*                                                                         *)
(* The write buffer is SocketWrite's; here a flush matters only when its   *)
(* descriptor is gone.  A batch has less than the 64 events of the buffer. *)
(***************************************************************************)
EXTENDS Naturals, FiniteSets, Sequences, SequencesExt, FiniteSetsExt

CONSTANTS
  Platforms,   \* those to consider: "epoll", "kqueue"
  Sockets,     \* SocketData objects (a bound)
  Servers,     \* ServerSocketData objects (a bound)
  Programs,    \* bound: of these, what each program considered makes
  Talkers,     \* bound: sockets whose peers send, end and reset
  Fds,         \* descriptor numbers the process may use
  MaxSeen,     \* bound: see Did
  Absent       \* no target

ASSUME ReactorAssumption ==
  /\ Platforms \subseteq {"epoll", "kqueue"}
  /\ Sockets \cap Servers = {} /\ Absent \notin Sockets \cup Servers
  /\ Programs \subseteq SUBSET (Sockets \cup Servers) /\ Talkers \subseteq Sockets
  /\ Fds \subseteq Nat \ {0} /\ IsFiniteSet(Fds)
  /\ MaxSeen \in Nat

Targets == Sockets \cup Servers

VARIABLES
  platform,   \* which of the two implementations was built
  status,     \* SocketData::status, ServerSocketData::status; NEW: no object
              \* yet, NONE: there will not be one
  fd,         \* SocketData::fd, ServerSocketData::fd; 0 stands for -1
  table,      \* EpollData::table, KqueueData::table
  batch,      \* events of reactor_task's buffer that it has not come to
  step,       \* where reactor_task is, see Step
  now,        \* the event it handles: its target, and whether it says "writable"
  freed,      \* that target was deleted in the meantime
  user,       \* user code runs: a handler, or the program outside reactor_task
  closing,    \* calls of Socket::close inside their "close" handler
  state       \* ok; ends as "undefined" behaviour or a "stolen" descriptor

(* External: the kernel's table of open descriptors, and each connection.   *)
VARIABLES kfd, conn

(* History: the life-cycle events of each socket, and what the program did. *)
VARIABLES events, seen

objects == <<status, fd, table>>
task    == <<batch, step, now>>
kernel  == <<kfd, conn>>
history == <<events, seen>>
vars    == <<platform, objects, task, freed, user, closing, state, kernel, history>>

(* idle: outside reactor_task; dispatch: between two events; read, ended,   *)
(* unreg, write: in Socket::reactor_on_event; accept: in ServerSocket's.    *)
Step == {"idle", "dispatch", "read", "ended", "unreg", "write", "accept"}

(* A connection: unread data, the peer's end of stream, a pending error,    *)
(* epoll's unreported edge, and connections that wait to be accepted.       *)
NoConn == [net |-> "none", unread |-> FALSE, eof |-> FALSE, err |-> FALSE,
           edge |-> FALSE, backlog |-> 0]

NoEvent == [target |-> Absent, out |-> FALSE]

Init ==
  /\ platform \in Platforms
  /\ \E P \in Programs : status = [t \in Targets |-> IF t \in P THEN "NEW" ELSE "NONE"]
  /\ fd = [t \in Targets |-> 0]
  /\ table = [n \in Fds |-> Absent]
  /\ batch = {} /\ step = "idle" /\ now = NoEvent /\ freed = FALSE
  /\ user = TRUE /\ closing = <<>> /\ state = "ok"
  /\ kfd = [n \in Fds |-> Absent]
  /\ conn = [t \in Targets |-> NoConn]
  /\ events = [s \in Sockets |-> <<>>] /\ seen = {}

-----------------------------------------------------------------------------
(* The connection a system call on t's descriptor reaches. *)
Conn(t) == IF fd[t] \in Fds THEN kfd[fd[t]] ELSE Absent

Open(t) == status[t] \notin {"NEW", "CLOSED"} /\ fd[t] # 0

Edge == platform = "epoll"

UserCode == user /\ state = "ok"

Code == ~user /\ state = "ok"

(* Bound: at most MaxSeen of the things that make a property give way.      *)
Did(what, when) ==
  /\ when => Cardinality(seen \cup {what}) <= MaxSeen
  /\ seen' = seen \cup (IF when THEN {what} ELSE {})

Fires(s, event) == events' = [events EXCEPT ![s] = Append(@, event)]

Unallocated == {s \in Sockets : status[s] = "NEW"}

(* Connections the peers have made and nobody has accepted. *)
Unaccepted == MapThenSumSet(LAMBDA v : conn[v].backlog, Servers)

Free == {n \in Fds : kfd[n] = Absent}

(* Numbers whose reactor_unreg waits for a "close" handler to return. *)
Closing ==
  {fd[closing[i]] : i \in 1 .. Len(closing)}
    \cup (IF step = "unreg" THEN {fd[now.target]} ELSE {})

Pending(n) == \E e \in batch : e.fd = n

(* Broken variant: map::insert, which keeps an entry that is there. *)
ConstructInsert(t, st) ==
  /\ Free # {}
  /\ status' = [status EXCEPT ![t] = st]
  /\ fd' = [fd EXCEPT ![t] = Min(Free)]
  /\ kfd' = [kfd EXCEPT ![Min(Free)] = t]
  /\ table' = IF table[Min(Free)] = Absent THEN [table EXCEPT ![Min(Free)] = t] ELSE table
  /\ Did("opened_in_close", Min(Free) \in Closing)

(* A new object: the kernel gives the lowest free number, and the table     *)
(* entry of that number is overwritten.                                     *)
Construct(t, st) ==
  /\ Free # {}
  /\ status' = [status EXCEPT ![t] = st]
  /\ fd' = [fd EXCEPT ![t] = Min(Free)]
  /\ kfd' = [kfd EXCEPT ![Min(Free)] = t]
  /\ table' = [table EXCEPT ![Min(Free)] = t]
  /\ Did("opened_in_close", Min(Free) \in Closing)

reactor_unreg(n) ==
  /\ freed' = (freed \/ (now.target # Absent /\ n \in Fds /\ table[n] = now.target))
  /\ table' = [m \in Fds |-> IF m = n THEN Absent ELSE table[m]]

(* reactor_on_event goes on at a step, or returns to reactor_task. *)
Goes(st) == step' = st /\ now' = IF st = "dispatch" THEN NoEvent ELSE now

-----------------------------------------------------------------------------
(* The API, called by the program or by a handler.                          *)

NewSocket ==
  /\ UserCode /\ Unallocated # {}
  /\ Cardinality(Unallocated) > Unaccepted
  /\ LET s == CHOOSE x \in Unallocated : TRUE
     IN  /\ Construct(s, "IDLE")
         /\ conn' = [conn EXCEPT ![s].edge = Edge]
  /\ UNCHANGED <<platform, task, freed, user, closing, state, events>>

NewServer(v) ==
  /\ UserCode /\ status[v] = "NEW"
  /\ Construct(v, "IDLE")
  /\ conn' = [conn EXCEPT ![v].edge = Edge]
  /\ UNCHANGED <<platform, task, freed, user, closing, state, events>>

(* An error throws and changes nothing. *)
Listen(v) ==
  /\ UserCode /\ status[v] = "IDLE"
  /\ Conn(v) # Absent
  /\ status' = [status EXCEPT ![v] = "LISTENING"]
  /\ conn' = [conn EXCEPT ![Conn(v)].net = "listen"]
  /\ UNCHANGED <<platform, fd, table, task, freed, user, closing, state, kfd, history>>

(* Broken variant: connect takes EINPROGRESS for success. *)
ConnectHasty(s) ==
  /\ UserCode /\ status[s] = "IDLE"
  /\ Conn(s) # Absent
  /\ status' = [status EXCEPT ![s] = "CONNECTED"]
  /\ \E net \in {"up", "syn"} :
       conn' = [conn EXCEPT ![Conn(s)].net = net, ![Conn(s)].edge = Edge /\ net = "up"]
  /\ Fires(s, "connect")
  /\ Did("connected_in_batch", step # "idle")
  /\ UNCHANGED <<platform, fd, table, task, freed, user, closing, state, kfd>>

Connect(s) ==
  /\ UserCode /\ status[s] = "IDLE"
  /\ Conn(s) # Absent
  /\ \/ /\ status' = [status EXCEPT ![s] = "CONNECTED"]
        /\ conn' = [conn EXCEPT ![Conn(s)].net = "up", ![Conn(s)].edge = Edge]
        /\ Fires(s, "connect")
     \/ /\ status' = [status EXCEPT ![s] = "CONNECTING"]
        /\ conn' = [conn EXCEPT ![Conn(s)].net = "syn"]
        /\ UNCHANGED events
  /\ Did("connected_in_batch", step # "idle")
  /\ UNCHANGED <<platform, fd, table, task, freed, user, closing, state, kfd>>

(* ::close: the kernel forgets the connection, and the number is free. *)
CloseFd(t) ==
  /\ kfd' = [kfd EXCEPT ![fd[t]] = Absent]
  /\ conn' = [conn EXCEPT ![kfd[fd[t]]] = NoConn]

(* Broken variant: the first close keeps the number. *)
CloseKeep(s) ==
  /\ UserCode
  /\ status[s] \in {"CONNECTED", "HALF_CLOSED"} /\ Conn(s) # Absent
  /\ CloseFd(s)
  /\ IF status[s] = "CONNECTED"
     THEN /\ status' = [status EXCEPT ![s] = "HALF_CLOSED"]
          /\ UNCHANGED <<closing, events>>
     ELSE /\ status' = [status EXCEPT ![s] = "CLOSED"]
          /\ closing' = Append(closing, s) /\ Fires(s, "close")
  /\ Did("closed_in_batch", Pending(fd[s]))
  /\ UNCHANGED <<platform, fd, table, task, freed, user, state>>

(* Broken variant: the first close unregisters the socket too. *)
CloseAtOnce(s) ==
  /\ UserCode
  /\ status[s] \in {"CONNECTED", "HALF_CLOSED"} /\ Conn(s) # Absent
  /\ CloseFd(s) /\ reactor_unreg(fd[s])
  /\ fd' = [fd EXCEPT ![s] = 0]
  /\ status' = [status EXCEPT ![s] = "CLOSED"]
  /\ closing' = Append(closing, s) /\ Fires(s, "close")
  /\ Did("closed_in_batch", Pending(fd[s]))
  /\ UNCHANGED <<platform, task, user, state>>

(* Socket::close.  With fd = -1 it does nothing, and neither does it in any *)
(* other status.  The "close" handler runs before reactor_unreg.            *)
Close(s) ==
  /\ UserCode
  /\ status[s] \in {"CONNECTED", "HALF_CLOSED"} /\ Conn(s) # Absent
  /\ CloseFd(s)
  /\ IF status[s] = "CONNECTED"
     THEN /\ fd' = [fd EXCEPT ![s] = 0]
          /\ status' = [status EXCEPT ![s] = "HALF_CLOSED"]
          /\ UNCHANGED <<closing, events>>
     ELSE /\ status' = [status EXCEPT ![s] = "CLOSED"]
          /\ closing' = Append(closing, s) /\ Fires(s, "close")
          /\ UNCHANGED fd
  /\ Did("closed_in_batch", Pending(fd[s]))
  /\ UNCHANGED <<platform, table, task, freed, user, state>>

(* ServerSocket::close has no test of the status: a second call unregisters *)
(* and closes what has the number by then.  The model stops there; without  *)
(* a new owner the call throws, after it has deleted the object of a socket *)
(* whose close() left its entry in the table.                               *)
CloseServer(v) ==
  /\ UserCode /\ fd[v] # 0
  /\ reactor_unreg(fd[v])
  /\ \/ /\ Conn(v) # Absent
        /\ CloseFd(v)
        /\ status' = [status EXCEPT ![v] = "CLOSED"]
        /\ state' = IF status[v] = "CLOSED" THEN "stolen" ELSE "ok"
        /\ Did("closed_in_batch", status[v] # "CLOSED" /\ Pending(fd[v]))
     \/ /\ Conn(v) = Absent
        /\ Did("closed_again", table[fd[v]] # Absent)
        /\ UNCHANGED <<status, state, kernel>>
  /\ UNCHANGED <<platform, fd, task, user, closing, events>>

-----------------------------------------------------------------------------
(* What epoll_wait and kevent report.  A fresh socket is reported once by   *)
(* epoll: writable and hung up, which a server socket is told as well.      *)
Readable(c) == conn[c].unread \/ conn[c].eof \/ conn[c].backlog > 0

EpollReady ==
  {[fd |-> n, in |-> Readable(kfd[n]), out |-> kfd[n] \in Sockets] :
     n \in {m \in Fds \ Free :
              /\ conn[kfd[m]].edge
              /\ conn[kfd[m]].net # "syn"
              /\ conn[kfd[m]].net = "listen" => Readable(kfd[m])}}

KqueueReady ==
  {[fd |-> n, in |-> TRUE, out |-> FALSE] : n \in {m \in Fds \ Free : Readable(kfd[m])}}
  \cup
  {[fd |-> n, in |-> FALSE, out |-> TRUE] :
     n \in {m \in Fds \ Free : kfd[m] \in Sockets /\ conn[kfd[m]].net \notin {"none", "syn"}}}

Ready == IF platform = "epoll" THEN EpollReady ELSE KqueueReady

(* reactor_task is called by the loop.  Without events epoll_wait blocks,   *)
(* and kevent returns at once.                                              *)
Poll ==
  /\ UserCode /\ step = "idle" /\ closing = <<>>
  /\ Ready # {}
  /\ batch' = Ready
  /\ step' = "dispatch" /\ user' = FALSE
  /\ conn' = [c \in Targets |->
                IF \E e \in Ready : kfd[e.fd] = c THEN [conn[c] EXCEPT !.edge = FALSE]
                                                  ELSE conn[c]]
  /\ UNCHANGED <<platform, objects, now, freed, closing, state, kfd, history>>

(* Broken variant: FreeBSD without the test of the table. *)
DispatchUnchecked(e) ==
  /\ Code /\ step = "dispatch" /\ e \in batch
  /\ batch' = batch \ {e}
  /\ now' = [target |-> table[e.fd], out |-> e.out]
  /\ step' = IF table[e.fd] \in Servers THEN "accept" ELSE IF e.in THEN "read" ELSE "write"
  /\ freed' = FALSE
  /\ UNCHANGED <<platform, objects, user, closing, state, kernel, history>>

(* The target of the number is called.  On Linux, operator[] makes a null   *)
(* pointer of a number that is not in the table; FreeBSD ignores it.        *)
Dispatch(e) ==
  /\ Code /\ step = "dispatch" /\ e \in batch
  /\ batch' = batch \ {e}
  /\ IF table[e.fd] # Absent
     THEN /\ now' = [target |-> table[e.fd], out |-> e.out]
          /\ step' = IF table[e.fd] \in Servers THEN "accept" ELSE IF e.in THEN "read" ELSE "write"
          /\ freed' = FALSE /\ UNCHANGED state
     ELSE /\ state' = IF platform = "epoll" THEN "undefined" ELSE "ok"
          /\ UNCHANGED <<step, now, freed>>
  /\ UNCHANGED <<platform, objects, user, closing, kernel, history>>

BatchEnd ==
  /\ Code /\ step = "dispatch" /\ batch = {}
  /\ step' = "idle" /\ user' = TRUE
  /\ UNCHANGED <<platform, objects, batch, now, freed, closing, state, kernel, history>>

(* An exception leaves reactor_task and run_once; the program catches it    *)
(* there.  What is left of the batch is lost.                               *)
Escapes ==
  /\ batch' = {} /\ step' = "idle" /\ now' = NoEvent
  /\ user' = TRUE /\ closing' = <<>>
  /\ seen' = seen \cup {"threw"}

-----------------------------------------------------------------------------
(* Socket::reactor_on_event, first half.                                    *)

CanRead(c) == c # Absent /\ conn[c].net # "none" /\ ~conn[c].err

(* Broken variant: reading and writing exclude each other on Linux too. *)
AfterReadElse == "dispatch"

AfterRead == IF now.out THEN "write" ELSE "dispatch"

(* The read loop meets an error: what it has read before is lost. *)
ReadThrows ==
  /\ Code /\ step = "read"
  /\ LET c == Conn(now.target)
     IN  /\ ~CanRead(c)
         /\ conn' = IF c = Absent THEN conn
                    ELSE [conn EXCEPT ![c].unread = FALSE, ![c].err = FALSE]
  /\ Escapes
  /\ UNCHANGED <<platform, objects, freed, state, kfd, events>>

(* Broken variant: one read() per event, which leaves data that is longer.  *)
ReadOnce ==
  /\ Code /\ step = "read"
  /\ LET c == Conn(now.target)
     IN  /\ CanRead(c)
         /\ user' = conn[c].unread
         /\ Goes(IF conn[c].eof /\ ~conn[c].unread THEN "ended" ELSE AfterRead)
  /\ UNCHANGED <<platform, objects, batch, freed, closing, state, kernel, history>>

(* The read loop ends at EAGAIN or at the end of the stream; the "data"     *)
(* handler is called if it read anything.                                   *)
Read ==
  /\ Code /\ step = "read"
  /\ LET c == Conn(now.target)
     IN  /\ CanRead(c)
         /\ conn' = [conn EXCEPT ![c].unread = FALSE]
         /\ user' = conn[c].unread
         /\ Goes(IF conn[c].eof THEN "ended" ELSE AfterRead)
  /\ UNCHANGED <<platform, objects, batch, freed, closing, state, kfd, history>>

(* Broken variant: an end of stream always counts as the first. *)
EndedFirst ==
  /\ Code /\ step = "ended" /\ ~freed
  /\ user' = TRUE
  /\ status' = [status EXCEPT ![now.target] = "HALF_CLOSED"]
  /\ Goes(AfterRead) /\ Fires(now.target, "end")
  /\ UNCHANGED <<platform, fd, table, batch, freed, closing, state, kernel, seen>>

(* The end of the stream: the second time it is read, or after a close()    *)
(* of the "data" handler, the socket is closed, its descriptor is not.      *)
Ended ==
  /\ Code /\ step = "ended" /\ ~freed
  /\ user' = TRUE
  /\ IF status[now.target] = "HALF_CLOSED"
     THEN /\ status' = [status EXCEPT ![now.target] = "CLOSED"]
          /\ Goes("unreg") /\ Fires(now.target, "close")
     ELSE /\ status' = [status EXCEPT ![now.target] = "HALF_CLOSED"]
          /\ Goes(AfterRead) /\ Fires(now.target, "end")
  /\ UNCHANGED <<platform, fd, table, batch, freed, closing, state, kernel, seen>>

(* After the "close" handler of Ended. *)
Unregister ==
  /\ Code /\ step = "unreg"
  /\ reactor_unreg(fd[now.target])
  /\ Goes(AfterRead)
  /\ UNCHANGED <<platform, status, fd, batch, user, closing, state, kernel, history>>

(* Second half: a connection attempt has ended.  After an "error" handler   *)
(* close() returns at once, because the status is CONNECTING.               *)
Connected ==
  /\ Code /\ step = "write" /\ status[now.target] = "CONNECTING" /\ ~freed
  /\ LET c == Conn(now.target)
         failed == c = Absent \/ conn[c].err
     IN  /\ status' = [status EXCEPT ![now.target] = IF failed THEN @ ELSE "CONNECTED"]
         /\ conn' = IF c = Absent THEN conn ELSE [conn EXCEPT ![c].err = FALSE]
         /\ Fires(now.target, IF failed THEN "error" ELSE "connect")
  /\ Goes("dispatch") /\ user' = TRUE
  /\ UNCHANGED <<platform, fd, table, batch, freed, closing, state, kfd, seen>>

(* Second half: the write buffer is flushed, see SocketWrite. *)
Flush ==
  /\ Code /\ step = "write" /\ status[now.target] # "CONNECTING"
  /\ Goes("dispatch")
  /\ UNCHANGED <<platform, objects, batch, freed, user, closing, state, kernel, history>>

CanWrite(c) == c # Absent /\ conn[c].net \in {"up", "syn"}

(* There is something to flush, but no descriptor, or no connection: an     *)
(* error of the connection is reported by this write.                       *)
FlushThrows ==
  /\ Code /\ step = "write" /\ status[now.target] # "CONNECTING"
  /\ LET c == Conn(now.target)
     IN  /\ ~CanWrite(c)
         /\ conn' = IF c = Absent THEN conn ELSE [conn EXCEPT ![c].err = FALSE]
  /\ Escapes
  /\ UNCHANGED <<platform, objects, freed, state, kfd, events>>

Listening(c) == c # Absent /\ conn[c].net = "listen"

(* Broken variant: one accept() per event, which leaves the others waiting. *)
AcceptOnce ==
  /\ Code /\ step = "accept" /\ ~freed /\ Unallocated # {}
  /\ LET c == Conn(now.target)
         s == CHOOSE x \in Unallocated : TRUE
     IN  /\ Listening(c) /\ conn[c].backlog > 0
         /\ Construct(s, "CONNECTED")
         /\ conn' = [conn EXCEPT ![c].backlog = conn[c].backlog - 1,
                                 ![s].net = "up", ![s].edge = Edge]
  /\ Goes("dispatch") /\ user' = TRUE
  /\ UNCHANGED <<platform, batch, freed, closing, state, events>>

(* ServerSocket::reactor_on_event: one connection; the next step comes when *)
(* the "connect" handler has returned.                                      *)
Accept ==
  /\ Code /\ step = "accept" /\ ~freed /\ Unallocated # {}
  /\ LET c == Conn(now.target)
         s == CHOOSE x \in Unallocated : TRUE
     IN  /\ Listening(c) /\ conn[c].backlog > 0
         /\ Construct(s, "CONNECTED")
         /\ conn' = [conn EXCEPT ![c].backlog = conn[c].backlog - 1,
                                 ![s].net = "up", ![s].edge = Edge]
  /\ user' = TRUE
  /\ UNCHANGED <<platform, task, freed, closing, state, events>>

AcceptEnd ==
  /\ Code /\ step = "accept"
  /\ LET c == Conn(now.target)
     IN  Listening(c) /\ conn[c].backlog = 0
  /\ Goes("dispatch")
  /\ UNCHANGED <<platform, objects, batch, freed, user, closing, state, kernel, history>>

(* Nothing listens on the descriptor, or the process has no number left. *)
AcceptThrows ==
  /\ Code /\ step = "accept"
  /\ LET c == Conn(now.target)
     IN  Listening(c) => (conn[c].backlog > 0 /\ Free = {})
  /\ Escapes
  /\ UNCHANGED <<platform, objects, freed, state, kernel, events>>

(* The "connect" handler deleted its server, and the number is v's now. *)
AcceptsFreed(v) ==
  /\ Code /\ step = "accept" /\ freed /\ Free # {}
  /\ Conn(now.target) = v /\ Listening(v)

(* A handler deleted the target whose member function goes on. *)
UseFreed ==
  /\ Code /\ freed
  /\ \/ step = "ended"
     \/ step = "write" /\ status[now.target] = "CONNECTING"
     \/ \E v \in Servers : AcceptsFreed(v) /\ conn[v].backlog > 0
  /\ state' = "undefined"
  /\ UNCHANGED <<platform, objects, task, freed, user, closing, kernel, history>>

-----------------------------------------------------------------------------
(* A handler returns: to Socket::close, which unregisters the socket, or to *)
(* reactor_on_event.                                                        *)
HandlerReturns ==
  /\ UserCode
  /\ \/ /\ closing # <<>>
        /\ reactor_unreg(fd[Last(closing)])
        /\ closing' = Front(closing)
        /\ UNCHANGED user
     \/ /\ closing = <<>> /\ step # "idle"
        /\ user' = FALSE
        /\ UNCHANGED <<table, freed, closing>>
  /\ UNCHANGED <<platform, status, fd, task, state, kernel, history>>

(* It throws: the caller of close() catches the exception, or it escapes.   *)
(* Bound: nothing is thrown by a handler once an exception has escaped.     *)
HandlerThrows ==
  /\ UserCode /\ "threw" \notin seen
  /\ \/ /\ closing # <<>>
        /\ closing' = Front(closing)
        /\ UNCHANGED <<task, user, seen>>
     \/ /\ step # "idle"
        /\ Escapes
  /\ UNCHANGED <<platform, objects, freed, state, kernel, events>>

-----------------------------------------------------------------------------
(* External: the network.  What happens to a connection raises an edge.     *)
Happens(c, changed) ==
  /\ state = "ok"
  /\ conn' = [conn EXCEPT ![c] = [changed EXCEPT !.edge = Edge]]
  /\ UNCHANGED <<platform, objects, task, freed, user, closing, state, kfd, history>>

ConnectEnds(c) ==
  /\ conn[c].net = "syn"
  /\ \/ Happens(c, [conn[c] EXCEPT !.net = "up"])
     \/ Happens(c, [conn[c] EXCEPT !.net = "failed", !.eof = TRUE, !.err = TRUE])

(* Bound: unread data, and an error, on one connection at a time. *)
PeerSends(c) ==
  /\ conn[c].net = "up" /\ ~conn[c].eof /\ ~\E t \in Targets : conn[t].unread
  /\ Happens(c, [conn[c] EXCEPT !.unread = TRUE])

PeerEnds(c) ==
  /\ conn[c].net = "up" /\ ~conn[c].eof
  /\ Happens(c, [conn[c] EXCEPT !.eof = TRUE])

PeerResets(c) ==
  /\ conn[c].net = "up" /\ ~\E t \in Targets : conn[t].net = "reset"
  /\ Happens(c, [conn[c] EXCEPT !.net = "reset", !.eof = TRUE, !.err = TRUE])

(* A full send buffer drains, which epoll reports with all that is ready.   *)
(* Bound: only after the end of the stream, which is then read once more.   *)
SpaceFreed(c) ==
  /\ Edge /\ conn[c].net = "up" /\ conn[c].eof /\ ~conn[c].edge
  /\ Happens(c, conn[c])

(* Bound: a socket object for each, unless a freed target comes first.      *)
PeerConnects(v) ==
  /\ conn[v].net = "listen"
  /\ \/ Cardinality(Unallocated) > Unaccepted
     \/ AcceptsFreed(v) /\ conn[v].backlog = 0
  /\ Happens(v, [conn[v] EXCEPT !.backlog = conn[v].backlog + 1])

-----------------------------------------------------------------------------
Api ==
  \/ NewSocket
  \/ \E s \in Sockets : Connect(s) \/ Close(s)
  \/ \E v \in Servers : NewServer(v) \/ Listen(v) \/ CloseServer(v)

ReactorStep ==
  \/ Poll \/ (\E e \in batch : Dispatch(e)) \/ BatchEnd
  \/ Read \/ ReadThrows \/ Ended \/ Unregister
  \/ Connected \/ Flush \/ FlushThrows
  \/ Accept \/ AcceptEnd \/ AcceptThrows
  \/ UseFreed

Network ==
  \/ \E s \in Sockets : ConnectEnds(s)
  \/ \E s \in Talkers : PeerSends(s) \/ PeerEnds(s) \/ PeerResets(s) \/ SpaceFreed(s)
  \/ \E v \in Servers : PeerConnects(v)

Next == Api \/ ReactorStep \/ HandlerReturns \/ HandlerThrows \/ Network

Spec == Init /\ [][Next]_vars

(* The loop runs forever, handlers return. *)
FairSpec == Spec /\ WF_vars(ReactorStep) /\ WF_vars(HandlerReturns)

-----------------------------------------------------------------------------
(* The variables hold what the objects, the reactor and the kernel hold. *)
TypeOK ==
  /\ platform \in Platforms
  /\ status \in [Targets -> {"NONE", "NEW", "IDLE", "CONNECTING", "CONNECTED", "HALF_CLOSED",
                             "LISTENING", "CLOSED"}]
  /\ fd \in [Targets -> Fds \cup {0}]
  /\ table \in [Fds -> Targets \cup {Absent}] /\ kfd \in [Fds -> Targets \cup {Absent}]
  /\ batch \subseteq [fd : Fds, in : BOOLEAN, out : BOOLEAN]
  /\ step \in Step
  /\ now.target \in Targets \cup {Absent} /\ now.out \in BOOLEAN
  /\ step \in {"read", "ended", "unreg", "write"} => now.target \in Sockets
  /\ step = "accept" => now.target \in Servers
  /\ freed \in BOOLEAN /\ user \in BOOLEAN /\ (step = "idle" => user)
  /\ closing \in Seq(Sockets) /\ state \in {"ok", "undefined", "stolen"}

(* While a socket is not closed its descriptor is its own: no system call   *)
(* of it reaches another connection, although the kernel reuses numbers and *)
(* status and fd say in two ways that a socket is closed (socket.cpp:219-   *)
(* 242).  The exception: a server closed twice takes another's (313-325).   *)
OwnDescriptor ==
  state # "stolen" =>
    \A t \in Targets : Open(t) => kfd[fd[t]] = t

(* Its events find it: the table has it under its own number, whatever      *)
(* other sockets are closed and unregistered, also in the middle of a       *)
(* batch.  The exception: a "close" handler opens a socket that gets the    *)
(* number the following reactor_unreg removes (socket.cpp:236-240).         *)
Registered ==
  (state # "stolen" /\ "opened_in_close" \notin seen) =>
    \A t \in Targets : Open(t) => table[fd[t]] = t

(* A CONNECTED socket has a connection.  An event that was reported before  *)
(* connect() was called, or is for an earlier owner of the number, passes   *)
(* the test of SO_ERROR (socket1.cpp:85-109): so it takes a connect() in    *)
(* the middle of a batch, or an error that was dropped with its batch.      *)
ConnectedIsReal ==
  (state # "stolen" /\ seen \cap {"connected_in_batch", "threw"} = {}) =>
    \A s \in Sockets : status[s] = "CONNECTED" => conn[s].net \in {"up", "reset"}

(* Undefined behaviour takes, on Linux, a closed socket with an event in    *)
(* the batch, a socket that lost its entry to a "close" handler's new one,  *)
(* or one that read the end of the stream twice, so that it is closed and   *)
(* its descriptor is open (reactor1.cpp:25-28).  FreeBSD tests the table    *)
(* (FreeBSD/reactor1.cpp:26-28): there it takes a server whose number       *)
(* changes hands in its "connect" handler, or the second close of a server, *)
(* in a "data" handler, by which a socket that is closed without having     *)
(* been unregistered is deleted before the end of its stream is handled     *)
(* (socket.cpp:231, 318).                                                   *)
SafeDispatch ==
  state = "undefined" =>
    \/ step = "accept"
    \/ step = "ended" /\ "closed_again" \in seen
    \/ /\ platform = "epoll"
       /\ \/ seen \cap {"closed_in_batch", "opened_in_close"} # {}
          \/ \E s \in Sockets : status[s] = "CLOSED" /\ Conn(s) = s

Rank(event) ==
  CASE event = "error" -> 0 [] event = "connect" -> 1 [] event = "end" -> 2 [] event = "close" -> 3

(* A socket is told the stages of its life in order and each of them once:  *)
(* "error" (after which FreeBSD may still report a "connect"), "connect",   *)
(* "end", "close" (socket1.cpp:67-109, FreeBSD/socket1.cpp:68-109); unless  *)
(* an exception escaped before an ended socket was unregistered.            *)
LifeCycle ==
  (state # "stolen" /\ "threw" \notin seen) =>
    \A s \in Sockets : \A i, j \in 1 .. Len(events[s]) :
      i < j => Rank(events[s][i]) < Rank(events[s][j])

(* What kqueue reports, and a handler throws for, in every round: unsent    *)
(* data of a broken connection (FreeBSD/socket1.cpp:122-125), and a waiting *)
(* connection without a number for it (175-183).                            *)
ThrowsAgain ==
  \/ \E s \in Sockets : conn[s].net \in {"reset", "failed"}
  \/ Free = {} /\ Unaccepted > 0

(* What the reactor cannot be blamed for: an exception drops the events     *)
(* that are left of the batch; kqueue will report them again, but those     *)
(* that are thrown for as well, perhaps before them.                        *)
Excused(t) ==
  \/ ~Open(t) \/ state # "ok" \/ table[fd[t]] # t
  \/ "threw" \in seen /\ (platform = "epoll" \/ ThrowsAgain)

(* Data that arrives is read: no edge is lost between the read loop, the    *)
(* batch and the handlers, unless an exception drops a batch                *)
(* (reactor1.cpp:13-29, socket1.cpp:36-65).  Read in vain, if the           *)
(* connection is reset before the loop ends.                                *)
DataDelivered ==
  \A s \in Sockets : []<>(~conn[s].unread \/ Excused(s))

(* The promise of connect, resolved by the "connect" event, does not stay   *)
(* pending once the connection stands: the status leaves CONNECTING; except *)
(* that a peer that has already ended the stream by then makes the socket   *)
(* HALF_CLOSED first, and there is no "connect" (socket1.cpp:79-88).        *)
ConnectSettles ==
  \A s \in Sockets :
    []<>(\/ ~(status[s] = "CONNECTING" /\ conn[s].net = "up")
         \/ conn[s].eof \/ Excused(s))

(* A connection that waits is accepted: none is left behind between the end *)
(* of the accept loop and the next edge.  Except when the process has no    *)
(* descriptor left, and the error drops the edge (socket1.cpp:171-204).     *)
BacklogAccepted ==
  \A v \in Servers :
    []<>(conn[v].backlog = 0 \/ Free = {} \/ Excused(v))

=============================================================================
