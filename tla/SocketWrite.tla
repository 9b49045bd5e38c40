---------------------------- MODULE SocketWrite ----------------------------
(***************************************************************************)
(* The write path of one Socket on Linux: src/socket.cpp (connect, write)  *)
(* and the EPOLLOUT half of reactor_on_event in src/Linux/socket1.cpp.     *)
(*                                                                         *)
(* write appends to the socket's buffer and writes to the descriptor until *)
(* all is written or the kernel blocks; what is left is written when       *)
(* epoll, edge-triggered, reports the descriptor writable.  The kernel     *)
(* side is external: a send buffer the peer drains, and the edges it       *)
(* raises.  Bytes are numbered by the order in which they were submitted.  *)
(*                                                                         *)
(* Reading, closing and connections that break are not part of this module.*)
(***************************************************************************)
EXTENDS Naturals, Sequences

CONSTANTS
  N_BYTES_PER_ROUND,  \* most bytes per system call of write
  SOCK_BUFFER_SIZE,   \* most bytes per system call of reactor_on_event
  Capacity,           \* bytes the kernel's send buffer takes
  MaxWrites,          \* bound: calls of write
  MaxLength           \* bound: bytes per call

ASSUME SocketWriteAssumption ==
  /\ N_BYTES_PER_ROUND \in Nat \ {0} /\ SOCK_BUFFER_SIZE \in Nat \ {0}
  /\ Capacity \in Nat \ {0}
  /\ MaxWrites \in Nat /\ MaxLength \in Nat

VARIABLES
  status,               \* SocketData::status, CLOSED and HALF_CLOSED excluded
  buffer,               \* SocketData::buffer
  bytes_written,        \* SocketData::bytes_written
  write_promise_queue,  \* SocketData::write_promise_queue: [target, write]
  connect_promise,      \* the promise of connect: none, pending, resolved
  pc,                   \* user, or the loop of write / of reactor_on_event
  offset                \* that loop's offset into the buffer

(* External: the kernel's end of the socket. *)
VARIABLES
  net,       \* none, syn (connecting), established, failed
  room,      \* free bytes in the send buffer
  nospace,   \* a write failed with EAGAIN: free space will raise an edge
  edge       \* epoll has an edge it has not reported

(* History: bytes submitted, bytes the kernel took, fate of each write's promise. *)
VARIABLES
  submitted,
  sent,
  promise    \* per call of write: its promise's fate, its last byte, and
             \* whether it came before the socket was CONNECTED

socket  == <<status, buffer, bytes_written, write_promise_queue, connect_promise>>
kernel  == <<net, room, nospace, edge>>
history == <<submitted, sent, promise>>
vars    == <<socket, pc, offset, kernel, history>>

(* create registers the new socket; an unconnected one is reported once.    *)
Init ==
  /\ status = "IDLE" /\ buffer = <<>> /\ bytes_written = 0
  /\ write_promise_queue = <<>> /\ connect_promise = "none"
  /\ pc = "user" /\ offset = 0
  /\ net = "none" /\ room = Capacity /\ nospace = FALSE /\ edge = TRUE
  /\ submitted = 0 /\ sent = <<>> /\ promise = <<>>

-----------------------------------------------------------------------------
(* connect: at once, in progress, or an exception, which changes nothing.   *)
Connect ==
  /\ pc = "user" /\ status = "IDLE"
  /\ \/ /\ status' = "CONNECTED" /\ connect_promise' = "resolved"
        /\ net' = "established" /\ edge' = TRUE
     \/ /\ status' = "CONNECTING" /\ connect_promise' = "pending"
        /\ net' = "syn" /\ UNCHANGED edge
  /\ UNCHANGED <<buffer, bytes_written, write_promise_queue, pc, offset, room, nospace, history>>

(* write of n bytes, up to its loop. *)
Write(n) ==
  /\ pc = "user"
  /\ Len(promise) < MaxWrites
  /\ buffer' = buffer \o [i \in 1 .. n |-> submitted + i]
  /\ submitted' = submitted + n
  /\ promise' = Append(promise, [fate |-> "writing", last |-> submitted + n,
                                  early |-> status # "CONNECTED"])
  /\ pc' = "write" /\ offset' = 0
  /\ UNCHANGED <<status, bytes_written, write_promise_queue, connect_promise, kernel, sent>>

Remaining == Len(buffer) - offset

(* The kernel takes n of at most "most" bytes. *)
Take(n, most) ==
  /\ net = "established"
  /\ n <= Remaining /\ n <= most /\ n <= room
  /\ offset' = offset + n
  /\ room' = room - n
  /\ sent' = sent \o SubSeq(buffer, offset + 1, offset + n)

(* EAGAIN: still connecting, or no room for what remains. *)
Blocks ==
  \/ net = "syn" /\ UNCHANGED nospace
  \/ net = "established" /\ Remaining > 0 /\ room = 0 /\ nospace' = TRUE

(* Any other error leaves by an exception; buffer and counters stay.        *)
Breaks == net \in {"none", "failed"}

Fate(f) == promise' = [promise EXCEPT ![Len(promise)].fate = f]

(* Broken variants: the written prefix stays in the buffer; the target is    *)
(* taken without what is still in the buffer; the item names the next write. *)
WriteEndKeep(upto, completed) ==
  /\ bytes_written' = bytes_written + upto
  /\ IF completed
     THEN Fate("resolved") /\ UNCHANGED write_promise_queue
     ELSE /\ Fate("queued")
          /\ write_promise_queue' =
               Append(write_promise_queue,
                      [target |-> bytes_written' + Len(buffer), write |-> Len(promise)])
  /\ pc' = "user"
  /\ UNCHANGED <<status, buffer, connect_promise, submitted>>

WriteEndShort(upto, completed) ==
  /\ bytes_written' = bytes_written + upto
  /\ buffer' = SubSeq(buffer, upto + 1, Len(buffer))
  /\ IF completed
     THEN Fate("resolved") /\ UNCHANGED write_promise_queue
     ELSE /\ Fate("queued")
          /\ write_promise_queue' =
               Append(write_promise_queue, [target |-> bytes_written', write |-> Len(promise)])
  /\ pc' = "user"
  /\ UNCHANGED <<status, connect_promise, submitted>>

WriteEndNext(upto, completed) ==
  /\ bytes_written' = bytes_written + upto
  /\ buffer' = SubSeq(buffer, upto + 1, Len(buffer))
  /\ IF completed
     THEN Fate("resolved") /\ UNCHANGED write_promise_queue
     ELSE /\ Fate("queued")
          /\ write_promise_queue' =
               Append(write_promise_queue,
                      [target |-> bytes_written' + Len(buffer'), write |-> Len(promise) + 1])
  /\ pc' = "user"
  /\ UNCHANGED <<status, connect_promise, submitted>>

(* The last lines of write: everything up to "upto" is written. *)
WriteEnd(upto, completed) ==
  /\ bytes_written' = bytes_written + upto
  /\ buffer' = SubSeq(buffer, upto + 1, Len(buffer))
  /\ IF completed
     THEN Fate("resolved") /\ UNCHANGED write_promise_queue
     ELSE /\ Fate("queued")
          /\ write_promise_queue' =
               Append(write_promise_queue,
                      [target |-> bytes_written' + Len(buffer'), write |-> Len(promise)])
  /\ pc' = "user"
  /\ UNCHANGED <<status, connect_promise, submitted>>

WriteSome(n) ==
  /\ pc = "write"
  /\ n = 0 => Remaining = 0
  /\ Take(n, N_BYTES_PER_ROUND)
  /\ UNCHANGED <<net, nospace, edge>>
  /\ IF offset' >= Len(buffer)
     THEN WriteEnd(offset', TRUE)
     ELSE UNCHANGED <<socket, pc, submitted, promise>>

WriteBlocks ==
  /\ pc = "write" /\ Blocks
  /\ WriteEnd(offset, FALSE)
  /\ UNCHANGED <<net, room, edge, offset, sent>>

WriteThrows ==
  /\ pc = "write" /\ Breaks
  /\ Fate("threw") /\ pc' = "user"
  /\ UNCHANGED <<socket, offset, kernel, submitted, sent>>

-----------------------------------------------------------------------------
(* reactor_on_event with EPOLLOUT.  epoll_wait reports an edge only while   *)
(* the descriptor is ready.                                                 *)
Reported ==
  /\ pc = "user" /\ edge
  /\ net # "syn" /\ (net = "established" => room > 0)
  /\ edge' = FALSE

(* The handlers of "connect" and "error" are user code, and the last thing  *)
(* the branch calls: what they do are the next steps.  After an error       *)
(* close() returns at once, because the status is CONNECTING.               *)
OnConnected ==
  /\ Reported
  /\ status = "CONNECTING"
  /\ IF net = "established"
     THEN status' = "CONNECTED" /\ connect_promise' = "resolved"
     ELSE UNCHANGED <<status, connect_promise>>
  /\ UNCHANGED <<buffer, bytes_written, write_promise_queue, pc, offset,
                 net, room, nospace, history>>

OnWritable ==
  /\ Reported
  /\ status # "CONNECTING"
  /\ pc' = "flush" /\ offset' = 0
  /\ UNCHANGED <<socket, net, room, nospace, history>>

FlushSome(n) ==
  /\ pc = "flush" /\ n > 0
  /\ Take(n, SOCK_BUFFER_SIZE)
  /\ UNCHANGED <<socket, pc, net, nospace, edge, submitted, promise>>

(* Broken variant: an item whose target is just reached stays. *)
UnreachedStrict(queue, count) ==
  LET open == {i \in 1 .. Len(queue) : queue[i].target >= count}
  IN  IF open = {} THEN Len(queue) + 1 ELSE CHOOSE i \in open : \A j \in open : i <= j

(* The queue's front items whose target is reached are resolved and popped. *)
Unreached(queue, count) ==
  LET open == {i \in 1 .. Len(queue) : queue[i].target > count}
  IN  IF open = {} THEN Len(queue) + 1 ELSE CHOOSE i \in open : \A j \in open : i <= j

FlushEnd ==
  /\ pc = "flush"
  /\ \/ Remaining = 0 /\ UNCHANGED nospace
     \/ Remaining > 0 /\ Blocks
  /\ buffer' = SubSeq(buffer, offset + 1, Len(buffer))
  /\ bytes_written' = bytes_written + offset
  /\ LET next == Unreached(write_promise_queue, bytes_written')
         reached == {write_promise_queue[i].write : i \in 1 .. next - 1}
     IN  /\ write_promise_queue' =
              SubSeq(write_promise_queue, next, Len(write_promise_queue))
         /\ promise' = [w \in 1 .. Len(promise) |->
                          IF w \in reached THEN [promise[w] EXCEPT !.fate = "resolved"]
                                           ELSE promise[w]]
  /\ pc' = "user" /\ offset' = 0
  /\ UNCHANGED <<status, connect_promise, net, room, edge, submitted, sent>>

(* The exception leaves reactor_task and run_once. *)
FlushThrows ==
  /\ pc = "flush" /\ Remaining > 0 /\ Breaks
  /\ pc' = "user"
  /\ UNCHANGED <<socket, offset, kernel, history>>

-----------------------------------------------------------------------------
(* External: the kernel and the peer. *)
ConnectEnds ==
  /\ net = "syn"
  /\ net' \in {"established", "failed"} /\ edge' = TRUE
  /\ UNCHANGED <<socket, pc, offset, room, nospace, history>>

(* Space that is freed after an EAGAIN raises an edge, at the latest when   *)
(* the send buffer is empty.                                                *)
Drain ==
  /\ net = "established" /\ room < Capacity
  /\ room' = room + 1
  /\ \/ nospace /\ edge' = TRUE /\ nospace' = FALSE
     \/ (nospace => room' < Capacity) /\ UNCHANGED <<nospace, edge>>
  /\ UNCHANGED <<socket, pc, offset, net, history>>

(* Data from the peer raises an edge, and EPOLLOUT is reported with it.     *)
PeerData ==
  /\ net = "established" /\ ~edge
  /\ edge' = TRUE
  /\ UNCHANGED <<socket, pc, offset, net, room, nospace, history>>

-----------------------------------------------------------------------------
Loop ==
  \/ \E n \in 0 .. N_BYTES_PER_ROUND : WriteSome(n)
  \/ WriteBlocks \/ WriteThrows
  \/ \E n \in 0 .. SOCK_BUFFER_SIZE : FlushSome(n)
  \/ FlushEnd \/ FlushThrows

OnEvent == OnConnected \/ OnWritable

Next ==
  \/ Connect
  \/ \E n \in 0 .. MaxLength : Write(n)
  \/ Loop \/ OnEvent
  \/ ConnectEnds \/ Drain \/ PeerData

Spec == Init /\ [][Next]_vars

(* The reactor task runs forever, the peer reads, a connection attempt ends.  *)
FairSpec ==
  Spec /\ WF_vars(Loop) /\ WF_vars(OnEvent) /\ WF_vars(Drain) /\ WF_vars(ConnectEnds)

-----------------------------------------------------------------------------
(* The variables hold what SocketData and the kernel can hold. *)
TypeOK ==
  /\ status \in {"IDLE", "CONNECTING", "CONNECTED"}
  /\ buffer \in Seq(Nat) /\ bytes_written \in Nat
  /\ write_promise_queue \in Seq([target : Nat, write : 1 .. MaxWrites])
  /\ connect_promise \in {"none", "pending", "resolved"}
  /\ pc \in {"user", "write", "flush"} /\ offset \in 0 .. submitted
  /\ net \in {"none", "syn", "established", "failed"}
  /\ room \in 0 .. Capacity /\ nospace \in BOOLEAN /\ edge \in BOOLEAN
  /\ submitted \in Nat /\ sent \in Seq(Nat)
  /\ promise \in Seq([fate : {"writing", "queued", "resolved", "threw"},
                     last : Nat, early : BOOLEAN])

InLoop == IF pc = "user" THEN 0 ELSE offset

(* The kernel gets every submitted byte once and in order, whichever of     *)
(* write and reactor_on_event writes it, and however often either blocks    *)
(* midway (socket.cpp:180-205, socket1.cpp:111-135).                        *)
ByteStream ==
  sent \o SubSeq(buffer, InLoop + 1, Len(buffer)) = [i \in 1 .. submitted |-> i]

HasFate(w, f) == w \in DOMAIN promise /\ promise[w].fate = f

(* A write promise is resolved only when all its bytes are with the kernel  *)
(* (socket.cpp:207-216, socket1.cpp:136-147).                               *)
ResolvedMeansSent ==
  \A w \in 1 .. MaxWrites : HasFate(w, "resolved") => Len(sent) >= promise[w].last

(* socket.cpp:210: "Not completed; wait for reactor to resolve the          *)
(* promise".  The promise of a write made on a CONNECTED socket is          *)
(* resolved, together with those queued before it.                          *)
ConnectedWriteSettles ==
  \A w \in 1 .. MaxWrites :
    (HasFate(w, "queued") /\ ~promise[w].early) ~> HasFate(w, "resolved")

=============================================================================
