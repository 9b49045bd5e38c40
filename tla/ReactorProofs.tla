--------------------------- MODULE ReactorProofs ---------------------------
(***************************************************************************)
(* A socket's descriptor is its own and its events find it, undefined      *)
(* behaviour takes one of the named causes, the stages of a socket's life  *)
(* come in order, and a socket that says CONNECTED has a connection, for   *)
(* any number of sockets, servers and descriptors, on both platforms.      *)
(***************************************************************************)
EXTENDS Reactor, SequenceTheorems, WellFoundedInduction, TLAPS

T == now.target

Alive(t) == fd[t] \in Fds /\ kfd[fd[t]] = t

Connections ==
  [net : {"none", "listen", "syn", "up", "failed", "reset"},
   unread : BOOLEAN, eof : BOOLEAN, err : BOOLEAN, edge : BOOLEAN, backlog : Nat]

LifeEvents == {"error", "connect", "end", "close"}

Types ==
  /\ TypeOK
  /\ conn \in [Targets -> Connections]
  /\ events \in [Sockets -> Seq(LifeEvents)]

-----------------------------------------------------------------------------
(* The objects, the kernel's numbers and the reactor's table.               *)

(* The kernel's numbers are a bijection with the sockets it has open. *)
KernelInv ==
  \A n \in Fds : kfd[n] # Absent =>
    /\ fd[kfd[n]] = n /\ status[kfd[n]] # "NEW"
    /\ kfd[n] \in Servers => status[kfd[n]] # "CLOSED"

(* An entry may be of a socket that is gone, but never hides an open one.   *)
TableInv ==
  \A n \in Fds : table[n] # Absent =>
    /\ status[table[n]] \notin {"NEW", "NONE"} /\ fd[table[n]] \in {0, n}
    /\ kfd[n] \in {Absent, table[n]}

(* Before the first close() a socket has its number. *)
NumberInv ==
  \A t \in Targets :
    /\ status[t] \in {"NEW", "NONE"} => fd[t] = 0
    /\ status[t] \in {"IDLE", "CONNECTING", "CONNECTED"} => fd[t] # 0

Owned == \A t \in Targets : Open(t) => kfd[fd[t]] = t

Found == "opened_in_close" \notin seen => \A t \in Targets : Open(t) => table[fd[t]] = t

ObjInv == KernelInv /\ TableInv /\ NumberInv /\ Owned /\ Found

-----------------------------------------------------------------------------
(* The connections. *)
ConnOf(s) ==
  /\ status[s] # "LISTENING"
  /\ status[s] \in {"NEW", "IDLE"} => conn[s].net = "none"
  /\ conn[s].net \in {"none", "syn"} => ~conn[s].unread /\ ~conn[s].eof /\ ~conn[s].err
  /\ conn[s].err => conn[s].net \in {"failed", "reset"}
  /\ status[s] \in {"HALF_CLOSED", "CLOSED"} /\ Alive(s) => conn[s].eof /\ ~conn[s].unread

ConnInv == \A s \in Sockets : ConnOf(s)

-----------------------------------------------------------------------------
(* Where reactor_task is. *)
NowInv ==
  /\ T # Absent => status[T] \notin {"NEW", "NONE"}
  /\ step \in {"idle", "dispatch"} => T = Absent
  /\ freed /\ T \in Sockets =>
       /\ status[T] \in {"HALF_CLOSED", "CLOSED"} /\ ~Open(T)
       /\ step = "ended" => "closed_again" \in seen

(* The read loop runs for a socket that the table has. *)
ReadInv ==
  step = "read" => ~user /\ ~freed /\ (fd[T] # 0 => table[fd[T]] = T)

(* The stream has ended; the "data" handler may have closed the socket. *)
EndedInv ==
  step = "ended" =>
    /\ fd[T] = 0 => status[T] = "HALF_CLOSED"
    /\ fd[T] # 0 =>
         /\ Alive(T) /\ table[fd[T]] = T /\ conn[T].eof /\ ~conn[T].unread
         /\ user => status[T] \in {"IDLE", "CONNECTING", "CONNECTED"}
    /\ "threw" \notin seen => status[T] # "CLOSED"

UnregInv ==
  step = "unreg" => status[T] = "CLOSED" /\ (fd[T] = 0 \/ Alive(T))

(* Calls of close() whose handler has not returned. *)
ClosingInv ==
  /\ ~user => closing = <<>>
  /\ \A i \in 1 .. Len(closing) :
       /\ status[closing[i]] = "CLOSED" /\ fd[closing[i]] \in Fds
       /\ T # Absent /\ table[fd[closing[i]]] = T => closing[i] = T
       /\ "opened_in_close" \notin seen => kfd[fd[closing[i]]] = Absent

(* The events of a batch are for open descriptors. *)
BatchInv ==
  "closed_in_batch" \notin seen => \A e \in batch : kfd[e.fd] # Absent

(* A socket that read the end of its stream twice is closed, its descriptor *)
(* is not; but no event finds it.                                           *)
ClosedInv ==
  "threw" \notin seen =>
    \A s \in Sockets : status[s] = "CLOSED" /\ Alive(s) =>
      (step = "unreg" /\ T = s) \/ table[fd[s]] # s

TaskInv ==
  NowInv /\ ReadInv /\ EndedInv /\ UnregInv /\ ClosingInv /\ BatchInv /\ ClosedInv

-----------------------------------------------------------------------------
(* The events of a socket are in order, and none is ahead of its status. *)
Stage(st) ==
  CASE st = "CONNECTED" -> 1 [] st = "HALF_CLOSED" -> 2 [] st = "CLOSED" -> 3 [] OTHER -> 0

EventsOf(s) ==
  /\ status[s] \in {"NEW", "IDLE"} => events[s] = <<>>
  /\ status[s] = "CONNECTING" /\ events[s] # <<>> =>
       conn[s].net \in {"failed", "reset"} /\ ~conn[s].err
  /\ \A i \in 1 .. Len(events[s]) : Rank(events[s][i]) <= Stage(status[s])
  /\ \A i, j \in 1 .. Len(events[s]) :
       i < j => Rank(events[s][i]) < Rank(events[s][j])

EventsInv == "threw" \notin seen => \A s \in Sockets : EventsOf(s)

Good == ObjInv /\ ConnInv /\ TaskInv /\ EventsInv

Inv == Types /\ (state # "stolen" => Good) /\ SafeDispatch

-----------------------------------------------------------------------------
(* Descriptor numbers. *)
NatLess == {p \in Nat \X Nat : p[1] < p[2]}

LEMMA LeastOf ==
  ASSUME NEW S \in SUBSET Nat, S # {}
  PROVE  \E m \in S : \A k \in S : m <= k
<1>1. IsWellFoundedOn(NatLess, Nat)
  BY NatLessThanWellFounded DEF OpToRel, NatLess
<1>2. PICK m \in S : \A k \in S : ~(<<k, m>> \in NatLess)
  BY <1>1, WFMin
<1>3. ASSUME NEW k \in S PROVE m <= k
  <2>1. k \in Nat /\ m \in Nat
    OBVIOUS
  <2>2. k < m => <<k, m>> \in NatLess
    BY <2>1 DEF NatLess
  <2>3. QED
    BY <1>2, <2>1, <2>2
<1>4. QED
  BY <1>3

LEMMA FdFacts == Fds \subseteq Nat /\ 0 \notin Fds /\ Absent \notin Targets
BY ReactorAssumption DEF Targets

LEMMA TalkFacts == Talkers \subseteq Sockets
BY ReactorAssumption

LEMMA MinFree ==
  ASSUME Free # {}
  PROVE  Min(Free) \in Fds /\ kfd[Min(Free)] = Absent
<1>1. Free \in SUBSET Nat
  BY FdFacts DEF Free
<1>2. \E m \in Free : \A k \in Free : m <= k
  <2> HIDE DEF Free
  <2>1. QED
    BY <1>1, LeastOf
<1>3. Min(Free) \in Free
  <2> HIDE DEF Free
  <2>1. QED
    BY <1>2 DEF Min
<1>4. QED
  BY <1>3 DEF Free

LEMMA NewObject ==
  ASSUME Unallocated # {}
  PROVE  /\ (CHOOSE x \in Unallocated : TRUE) \in Sockets
         /\ status[CHOOSE x \in Unallocated : TRUE] = "NEW"
<1>1. (CHOOSE x \in Unallocated : TRUE) \in Unallocated
  <2> HIDE DEF Unallocated
  <2>1. QED
    OBVIOUS
<1>2. QED
  BY <1>1 DEF Unallocated

-----------------------------------------------------------------------------
(* How the objects, the table and the kernel's numbers change together.     *)
LEMMA OpenFacts ==
  ASSUME Types, ObjInv, NEW t \in Targets, Open(t)
  PROVE  /\ fd[t] \in Fds /\ kfd[fd[t]] = t /\ Alive(t)
         /\ Conn(t) = t
         /\ "opened_in_close" \notin seen => table[fd[t]] = t
BY DEF Types, TypeOK, ObjInv, Owned, Found, Open, Alive, Conn

LEMMA ObjStays ==
  ASSUME ObjInv, UNCHANGED <<status, fd, table, kfd>>, seen \subseteq seen'
  PROVE  ObjInv'
BY DEF ObjInv, KernelInv, TableInv, NumberInv, Owned, Found, Open

LEMMA ConstructObj ==
  ASSUME Types, ObjInv, NEW t \in Targets, status[t] = "NEW",
         NEW st \in {"IDLE", "CONNECTED"}, Construct(t, st)
  PROVE  /\ ObjInv'
         /\ \E n \in Fds :
              /\ kfd[n] = Absent
              /\ fd' = [fd EXCEPT ![t] = n] /\ kfd' = [kfd EXCEPT ![n] = t]
              /\ table' = [table EXCEPT ![n] = t]
              /\ status' = [status EXCEPT ![t] = st]
              /\ seen \subseteq seen'
              /\ "opened_in_close" \notin seen' => n \notin Closing
              /\ \A what : what # "opened_in_close" /\ what \in seen' => what \in seen
<1> DEFINE n == Min(Free)
<1>1. /\ Free # {}
      /\ fd' = [fd EXCEPT ![t] = n] /\ kfd' = [kfd EXCEPT ![n] = t]
      /\ table' = [table EXCEPT ![n] = t]
      /\ status' = [status EXCEPT ![t] = st]
      /\ seen' = seen \cup (IF n \in Closing THEN {"opened_in_close"} ELSE {})
  BY DEF Construct, Did
<1>2. n \in Fds /\ kfd[n] = Absent
  BY <1>1, MinFree
<1> HIDE DEF n
<1>3. KernelInv'
  BY <1>1, <1>2, FdFacts DEF Types, TypeOK, ObjInv, KernelInv
<1>4. TableInv'
  BY <1>1, <1>2, FdFacts DEF Types, TypeOK, ObjInv, TableInv
<1>5. NumberInv'
  BY <1>1, <1>2, FdFacts DEF Types, TypeOK, ObjInv, NumberInv
<1>6. Owned'
  BY <1>1, <1>2, FdFacts DEF Types, TypeOK, ObjInv, Owned, Open
<1>7. Found'
  BY <1>1, <1>2, FdFacts DEF Types, TypeOK, ObjInv, Owned, Found, Open
<1>8. QED
  BY <1>1, <1>2, <1>3, <1>4, <1>5, <1>6, <1>7 DEF ObjInv

(* Only a status changes. *)
LEMMA StatusObj ==
  ASSUME Types, ObjInv, NEW t \in Targets, NEW st,
         st \notin {"NEW", "NONE"}, status[t] \notin {"NEW", "NONE"},
         st = "CLOSED" => t \in Sockets,
         st \in {"IDLE", "CONNECTING", "CONNECTED"} => fd[t] # 0,
         Open(t) \/ fd[t] = 0 \/ (Alive(t) /\ table[fd[t]] = t),
         status' = [status EXCEPT ![t] = st],
         UNCHANGED <<fd, table, kfd>>, seen \subseteq seen'
  PROVE  ObjInv'
<1>1. KernelInv' /\ TableInv'
  BY ReactorAssumption, FdFacts DEF Types, TypeOK, ObjInv, KernelInv, TableInv
<1>2. NumberInv'
  BY DEF Types, TypeOK, ObjInv, NumberInv
<1>3. Owned' /\ Found'
  BY DEF Types, TypeOK, ObjInv, Owned, Found, Open, Alive
<1>4. QED
  BY <1>1, <1>2, <1>3 DEF ObjInv

LEMMA UnregFacts ==
  ASSUME Types, NEW n, reactor_unreg(n)
  PROVE  /\ \A m \in Fds : table'[m] = IF m = n THEN Absent ELSE table[m]
         /\ freed' <=> (freed \/ (T # Absent /\ n \in Fds /\ table[n] = T))
BY DEF reactor_unreg, T

LEMMA UnregObj ==
  ASSUME Types, ObjInv, NEW n, reactor_unreg(n),
         "opened_in_close" \notin seen => \A t \in Targets : Open(t) => fd[t] # n,
         UNCHANGED <<status, fd, kfd>>, seen \subseteq seen'
  PROVE  ObjInv'
<1>1. \A m \in Fds : table'[m] = IF m = n THEN Absent ELSE table[m]
  BY UnregFacts
<1>2. KernelInv' /\ TableInv' /\ NumberInv' /\ Owned'
  BY <1>1 DEF ObjInv, KernelInv, TableInv, NumberInv, Owned, Open
<1>3. Found'
  BY <1>1 DEF Types, TypeOK, ObjInv, Found, Open
<1>4. QED
  BY <1>2, <1>3 DEF ObjInv

(* ::close of an open socket: the number is free. *)
LEMMA CloseObj ==
  ASSUME Types, ObjInv, NEW t \in Targets, NEW st \in {"HALF_CLOSED", "CLOSED"}, Open(t),
         status' = [status EXCEPT ![t] = st],
         kfd' = [kfd EXCEPT ![fd[t]] = Absent],
         fd' = fd \/ fd' = [fd EXCEPT ![t] = 0],
         st = "CLOSED" \/ fd'[t] = 0,
         table' = table, seen \subseteq seen'
  PROVE  ObjInv'
<1>1. fd[t] \in Fds /\ kfd[fd[t]] = t
  BY OpenFacts
<1>2. KernelInv'
  BY <1>1, FdFacts DEF Types, TypeOK, ObjInv, KernelInv
<1>3. TableInv'
  BY <1>1, FdFacts DEF Types, TypeOK, ObjInv, TableInv
<1>4. NumberInv'
  BY <1>1 DEF Types, TypeOK, ObjInv, NumberInv
<1>5. Owned'
  BY <1>1, FdFacts DEF Types, TypeOK, ObjInv, Owned, Open
<1>6. Found'
  BY <1>1, FdFacts DEF Types, TypeOK, ObjInv, Owned, Found, Open
<1>7. QED
  BY <1>2, <1>3, <1>4, <1>5, <1>6 DEF ObjInv

(* ServerSocket::close of a server that is open. *)
LEMMA CloseServerObj ==
  ASSUME Types, ObjInv, NEW v \in Servers, Open(v), reactor_unreg(fd[v]),
         status' = [status EXCEPT ![v] = "CLOSED"],
         kfd' = [kfd EXCEPT ![fd[v]] = Absent],
         fd' = fd, seen \subseteq seen'
  PROVE  ObjInv'
<1>1. v \in Targets
  BY DEF Targets
<1>2. fd[v] \in Fds /\ kfd[fd[v]] = v
  BY <1>1, OpenFacts
<1>3. \A m \in Fds : table'[m] = IF m = fd[v] THEN Absent ELSE table[m]
  BY UnregFacts
<1>4. KernelInv'
  BY <1>1, <1>2, FdFacts DEF Types, TypeOK, ObjInv, KernelInv
<1>5. TableInv'
  BY <1>1, <1>2, <1>3, FdFacts DEF Types, TypeOK, ObjInv, TableInv
<1>6. NumberInv'
  BY <1>1, <1>2 DEF Types, TypeOK, ObjInv, NumberInv
<1>7. Owned'
  BY <1>1, <1>2, FdFacts DEF Types, TypeOK, ObjInv, Owned, Open
<1>8. Found'
  BY <1>1, <1>2, <1>3, FdFacts DEF Types, TypeOK, ObjInv, Owned, Found, Open
<1>9. QED
  BY <1>4, <1>5, <1>6, <1>7, <1>8 DEF ObjInv

-----------------------------------------------------------------------------
(* A socket a step does not concern. *)
LEMMA ConnStays ==
  ASSUME NEW s \in Sockets, ConnOf(s), status'[s] = status[s], Alive(s)' => Alive(s),
         conn'[s].net = conn[s].net, conn'[s].unread => conn[s].unread,
         conn'[s].eof = conn[s].eof, conn'[s].err => conn[s].err
  PROVE  ConnOf(s)'
BY DEF ConnOf

LEMMA EventsStay ==
  ASSUME NEW s \in Sockets, EventsOf(s), status'[s] = status[s], events'[s] = events[s],
         conn'[s].net = conn[s].net, conn'[s].err => conn[s].err
  PROVE  EventsOf(s)'
BY DEF EventsOf

LEMMA RankType ==
  \A e \in LifeEvents : Rank(e) \in 0 .. 3
BY DEF LifeEvents, Rank

LEMMA StageType == \A st : Stage(st) \in 0 .. 3
BY DEF Stage

(* An event of a higher rank than those before it. *)
LEMMA FiresInOrder ==
  ASSUME NEW seq \in Seq(LifeEvents), NEW e \in LifeEvents,
         \A i \in 1 .. Len(seq) : Rank(seq[i]) < Rank(e),
         \A i, j \in 1 .. Len(seq) : i < j => Rank(seq[i]) < Rank(seq[j])
  PROVE  /\ Append(seq, e) \in Seq(LifeEvents) /\ Append(seq, e) # <<>>
         /\ \A i \in 1 .. Len(Append(seq, e)) : Rank(Append(seq, e)[i]) <= Rank(e)
         /\ \A i, j \in 1 .. Len(Append(seq, e)) :
              i < j => Rank(Append(seq, e)[i]) < Rank(Append(seq, e)[j])
<1> DEFINE r == Append(seq, e)
<1>1. /\ Len(seq) \in Nat /\ Len(r) = Len(seq) + 1 /\ r[Len(seq) + 1] = e
      /\ \A i \in 1 .. Len(seq) : r[i] = seq[i]
      /\ r \in Seq(LifeEvents) /\ r # <<>>
  BY AppendProperties, LenProperties
<1>2. Rank(e) \in Nat /\ \A i \in 1 .. Len(seq) : Rank(seq[i]) \in Nat
  BY RankType, ElementOfSeq
<1> HIDE DEF r
<1> DEFINE n == Len(seq)
<1>3. \A i \in 1 .. n : Rank(r[i]) = Rank(seq[i]) /\ Rank(r[i]) < Rank(e)
  BY <1>1
<1> HIDE DEF n
<1>4. n \in Nat /\ Len(r) = n + 1 /\ r[n + 1] = e
  BY <1>1 DEF n
<1>5. \A i \in 1 .. n : Rank(r[i]) \in Nat
  BY <1>2, <1>3 DEF n
<1>6. \A i, j \in 1 .. n : i < j => Rank(r[i]) < Rank(r[j])
  BY <1>3 DEF n
<1>7. \A i \in 1 .. n + 1 : Rank(r[i]) <= Rank(e)
  BY <1>2, <1>3, <1>4, <1>5
<1>8. \A i, j \in 1 .. n + 1 : i < j => Rank(r[i]) < Rank(r[j])
  <2>1. SUFFICES ASSUME NEW i \in 1 .. n + 1, NEW j \in 1 .. n + 1, i < j
                 PROVE  Rank(r[i]) < Rank(r[j])
    OBVIOUS
  <2>2. i \in 1 .. n
    BY <1>4, <2>1
  <2>3. CASE j = n + 1
    BY <1>3, <1>4, <2>2, <2>3
  <2>4. CASE j # n + 1
    <3>1. j \in 1 .. n
      BY <1>4, <2>4
    <3>2. QED
      BY <1>6, <2>1, <2>2, <3>1
  <2>5. QED
    BY <2>3, <2>4
<1>9. QED
  BY <1>1, <1>4, <1>7, <1>8 DEF r

-----------------------------------------------------------------------------
(* reactor_task, for each kind of step.                                     *)

(* Neither the objects nor the position change. *)
LEMMA TaskStays ==
  ASSUME Types, TaskInv, seen \subseteq seen',
         UNCHANGED <<status, fd, table, kfd, batch, step, now, freed, user, closing>>,
         step = "ended" /\ fd[T] # 0 => conn'[T].eof /\ ~conn'[T].unread
  PROVE  TaskInv'
<1>1. NowInv' /\ ReadInv'
  BY DEF TaskInv, NowInv, ReadInv, T, Open
<1>2. EndedInv' /\ UnregInv'
  BY DEF TaskInv, EndedInv, UnregInv, T, Alive
<1>3. ClosingInv'
  BY DEF TaskInv, ClosingInv, T
<1>4. BatchInv' /\ ClosedInv'
  BY DEF TaskInv, BatchInv, ClosedInv, T, Alive
<1>5. QED
  BY <1>1, <1>2, <1>3, <1>4 DEF TaskInv

LEMMA ConstructTask ==
  ASSUME Types, ObjInv, TaskInv, NEW t \in Targets, status[t] = "NEW", NEW n \in Fds,
         NEW st, st # "NEW", st # "CLOSED",
         kfd[n] = Absent, fd' = [fd EXCEPT ![t] = n], kfd' = [kfd EXCEPT ![n] = t],
         table' = [table EXCEPT ![n] = t], status' = [status EXCEPT ![t] = st],
         seen \subseteq seen', "opened_in_close" \notin seen' => n \notin Closing,
         user' = TRUE, user \/ step = "accept",
         UNCHANGED <<batch, step, now, freed, closing>>,
         \A c \in Targets \ {t} :
           conn'[c].eof = conn[c].eof /\ conn'[c].unread = conn[c].unread
  PROVE  TaskInv'
<1>1. T' = T /\ T # t /\ (T # Absent => T \in Targets)
  BY FdFacts DEF Types, TypeOK, TaskInv, NowInv, T
<1>2. step # "read"
  BY DEF TaskInv, ReadInv
<1>3. \A s \in Targets \ {t} : /\ fd'[s] = fd[s] /\ status'[s] = status[s]
                               /\ (Alive(s)' <=> Alive(s))
                               /\ (Alive(s) => table'[fd[s]] = table[fd[s]])
  BY FdFacts DEF Types, TypeOK, Alive
<1>4. NowInv'
  BY <1>1, <1>3, FdFacts DEF TaskInv, NowInv, Targets, Open
<1>5. ReadInv'
  BY <1>2 DEF ReadInv
<1>6. EndedInv'
  <2>1. step = "ended" => T \in Targets /\ T \in Targets \ {t} /\ user
    BY <1>1 DEF Types, TypeOK, T, Targets
  <2>2. QED
    BY <1>1, <1>3, <2>1 DEF TaskInv, EndedInv
<1>7. UnregInv'
  <2>1. step = "unreg" => T \in Targets \ {t}
    BY <1>1 DEF Types, TypeOK, T, Targets
  <2>2. QED
    BY <1>1, <1>3, <2>1 DEF TaskInv, UnregInv
<1>8. ClosingInv'
  <2>1. SUFFICES ASSUME NEW i \in 1 .. Len(closing)
                 PROVE  /\ status'[closing[i]] = "CLOSED" /\ fd'[closing[i]] \in Fds
                        /\ T # Absent /\ table'[fd'[closing[i]]] = T => closing[i] = T
                        /\ "opened_in_close" \notin seen' => kfd'[fd'[closing[i]]] = Absent
    BY <1>1 DEF ClosingInv
  <2>2. closing[i] \in Sockets
    BY ElementOfSeq DEF Types, TypeOK
  <2>3. /\ status[closing[i]] = "CLOSED" /\ fd[closing[i]] \in Fds
        /\ T # Absent /\ table[fd[closing[i]]] = T => closing[i] = T
        /\ "opened_in_close" \notin seen => kfd[fd[closing[i]]] = Absent
    BY DEF TaskInv, ClosingInv
  <2>4. closing[i] \in Targets \ {t}
    BY <2>2, <2>3 DEF Targets
  <2>5. fd'[closing[i]] = fd[closing[i]] /\ status'[closing[i]] = status[closing[i]]
    BY <1>3, <2>4
  <2>6. T # Absent /\ table'[fd[closing[i]]] = T => closing[i] = T
    BY <1>1, <2>3 DEF Types, TypeOK
  <2>7. "opened_in_close" \notin seen' => kfd'[fd[closing[i]]] = Absent
    <3>1. fd[closing[i]] \in Closing
      BY DEF Closing
    <3>2. QED
      BY <2>3, <3>1 DEF Types, TypeOK
  <2>8. QED
    BY <2>3, <2>5, <2>6, <2>7
<1>9. BatchInv'
  BY FdFacts DEF Types, TypeOK, TaskInv, BatchInv
<1>10. ClosedInv'
  <2>1. SUFFICES ASSUME "threw" \notin seen, NEW s \in Sockets, status'[s] = "CLOSED", Alive(s)'
                 PROVE  (step = "unreg" /\ T = s) \/ table'[fd'[s]] # s
    BY <1>1 DEF ClosedInv
  <2>2. s \in Targets \ {t}
    BY <2>1 DEF Types, TypeOK, Targets
  <2>3. QED
    BY <1>3, <2>1, <2>2 DEF TaskInv, ClosedInv
<1>11. QED
  BY <1>4, <1>5, <1>6, <1>7, <1>8, <1>9, <1>10 DEF TaskInv

(* An IDLE object begins to listen or to connect. *)
LEMMA IdleTask ==
  ASSUME Types, ObjInv, TaskInv, user, NEW t \in Targets, status[t] = "IDLE",
         NEW st \in {"LISTENING", "CONNECTING", "CONNECTED"},
         t \in Sockets => st # "LISTENING",
         status' = [status EXCEPT ![t] = st], seen \subseteq seen',
         UNCHANGED <<fd, table, kfd, batch, step, now, freed, user, closing>>,
         \A c \in Targets : conn'[c].eof = conn[c].eof /\ conn'[c].unread = conn[c].unread
  PROVE  TaskInv'
<1>1. T' = T /\ (T # Absent => T \in Targets) /\ \A s : Alive(s)' <=> Alive(s)
  BY DEF Types, TypeOK, T, Alive
<1>2. NowInv' /\ ReadInv'
  BY <1>1, FdFacts DEF Types, TypeOK, TaskInv, NowInv, ReadInv, Targets, Open
<1>3. EndedInv'
  <2>1. step = "ended" => T \in Sockets /\ T \in Targets
    BY <1>1 DEF Types, TypeOK, T, Targets
  <2>2. fd[t] # 0
    BY DEF ObjInv, NumberInv
  <2>3. QED
    BY <1>1, <2>1, <2>2 DEF Types, TypeOK, TaskInv, EndedInv
<1>4. UnregInv'
  <2>1. step = "unreg" => T \in Targets
    BY <1>1 DEF Types, TypeOK, T, Targets
  <2>2. QED
    BY <1>1, <2>1 DEF Types, TypeOK, TaskInv, UnregInv
<1>5. ClosingInv'
  <2>1. \A i \in 1 .. Len(closing) : closing[i] \in Targets
    BY ElementOfSeq DEF Types, TypeOK, Targets
  <2>2. QED
    BY <1>1, <2>1 DEF Types, TypeOK, TaskInv, ClosingInv
<1>6. BatchInv' /\ ClosedInv'
  BY <1>1 DEF Types, TypeOK, TaskInv, BatchInv, ClosedInv, Targets
<1>7. QED
  BY <1>2, <1>3, <1>4, <1>5, <1>6 DEF TaskInv

(* Socket::close while the socket is open. *)
LEMMA CloseTask ==
  ASSUME Types, ObjInv, TaskInv, user, NEW s \in Sockets, Open(s),
         status[s] \in {"CONNECTED", "HALF_CLOSED"},
         kfd' = [kfd EXCEPT ![fd[s]] = Absent],
         \/ /\ status[s] = "CONNECTED" /\ fd' = [fd EXCEPT ![s] = 0]
            /\ status' = [status EXCEPT ![s] = "HALF_CLOSED"] /\ closing' = closing
         \/ /\ status[s] = "HALF_CLOSED" /\ fd' = fd
            /\ status' = [status EXCEPT ![s] = "CLOSED"] /\ closing' = Append(closing, s),
         seen \subseteq seen', Pending(fd[s]) => "closed_in_batch" \in seen',
         UNCHANGED <<table, batch, step, now, freed, user>>,
         \A c \in Targets \ {s} :
           conn'[c].eof = conn[c].eof /\ conn'[c].unread = conn[c].unread
  PROVE  TaskInv'
<1>1. T' = T /\ (T # Absent => T \in Targets) /\ s \in Targets
  BY DEF Types, TypeOK, T, Targets
<1>2. fd[s] \in Fds /\ kfd[fd[s]] = s /\ Alive(s)
  BY <1>1, OpenFacts
<1>3. \A t \in Targets \ {s} : /\ fd'[t] = fd[t] /\ status'[t] = status[t]
                               /\ (Alive(t)' <=> Alive(t))
  BY <1>2, FdFacts DEF Types, TypeOK, Alive
<1>4. ~Alive(s)' /\ status'[s] \in {"HALF_CLOSED", "CLOSED"}
  BY <1>1, <1>2, FdFacts DEF Types, TypeOK, Alive
<1>5. freed /\ T \in Sockets => T # s
  BY DEF TaskInv, NowInv
<1>6. NowInv'
  <2>1. /\ T # Absent => status'[T] \notin {"NEW", "NONE"}
        /\ T \in Sockets \ {s} => status'[T] = status[T] /\ fd'[T] = fd[T]
    BY <1>1, <1>3, <1>4 DEF TaskInv, NowInv, Targets
  <2>2. QED
    BY <1>1, <1>5, <2>1 DEF TaskInv, NowInv, Open
<1>7. ReadInv'
  BY DEF TaskInv, ReadInv
<1>8. EndedInv'
  <2>1. CASE step # "ended"
    BY <2>1 DEF EndedInv
  <2>2. CASE step = "ended" /\ T = s
    <3>1. status[s] = "CONNECTED"
      BY <1>2, <2>2, FdFacts DEF TaskInv, EndedInv
    <3>2. fd'[s] = 0 /\ status'[s] = "HALF_CLOSED"
      BY <1>1, <3>1 DEF Types, TypeOK
    <3>3. QED
      BY <1>1, <2>2, <3>2 DEF EndedInv
  <2>3. CASE step = "ended" /\ T # s
    <3>1. T \in Targets \ {s}
      BY <2>3 DEF Types, TypeOK, T, Targets
    <3>2. QED
      BY <1>1, <1>3, <2>3, <3>1 DEF TaskInv, EndedInv
  <2>4. QED
    BY <2>1, <2>2, <2>3
<1>9. UnregInv'
  <2>1. step = "unreg" => T \in Targets \ {s}
    BY DEF Types, TypeOK, T, Targets, TaskInv, UnregInv
  <2>2. QED
    BY <1>1, <1>3, <2>1 DEF TaskInv, UnregInv
<1>10. ClosingInv'
  <2>1. \A i \in 1 .. Len(closing) :
          /\ status'[closing[i]] = "CLOSED" /\ fd'[closing[i]] \in Fds
          /\ T # Absent /\ table[fd'[closing[i]]] = T => closing[i] = T
          /\ "opened_in_close" \notin seen' => kfd'[fd'[closing[i]]] = Absent
    <3>1. SUFFICES ASSUME NEW i \in 1 .. Len(closing)
                   PROVE  /\ status'[closing[i]] = "CLOSED" /\ fd'[closing[i]] \in Fds
                          /\ T # Absent /\ table[fd'[closing[i]]] = T => closing[i] = T
                          /\ "opened_in_close" \notin seen' => kfd'[fd'[closing[i]]] = Absent
      OBVIOUS
    <3>2. /\ status[closing[i]] = "CLOSED" /\ fd[closing[i]] \in Fds
          /\ T # Absent /\ table[fd[closing[i]]] = T => closing[i] = T
          /\ "opened_in_close" \notin seen => kfd[fd[closing[i]]] = Absent
      BY DEF TaskInv, ClosingInv
    <3>3. closing[i] \in Targets \ {s}
      BY <3>2, ElementOfSeq DEF Types, TypeOK, Targets
    <3>4. fd'[closing[i]] = fd[closing[i]] /\ status'[closing[i]] = status[closing[i]]
      BY <1>3, <3>3
    <3>5. kfd[fd[closing[i]]] = Absent => kfd'[fd[closing[i]]] = Absent
      BY <1>2, <3>2, FdFacts DEF Types, TypeOK
    <3>6. QED
      BY <3>2, <3>4, <3>5
  <2>2. CASE closing' = closing
    BY <1>1, <2>1, <2>2 DEF TaskInv, ClosingInv
  <2>3. CASE closing' = Append(closing, s) /\ fd' = fd /\ status'[s] = "CLOSED"
    <3>1. /\ Len(closing) \in Nat /\ Len(closing') = Len(closing) + 1
          /\ closing'[Len(closing) + 1] = s
          /\ \A i \in 1 .. Len(closing) : closing'[i] = closing[i]
      BY <2>3, AppendProperties, LenProperties DEF Types, TypeOK
    <3>2. /\ table[fd[s]] # Absent => table[fd[s]] = s
          /\ kfd'[fd[s]] = Absent
      <4>1. table[fd[s]] # Absent => table[fd[s]] = s
        BY <1>1, <1>2, FdFacts DEF ObjInv, TableInv
      <4>2. kfd'[fd[s]] = Absent
        BY <1>2 DEF Types, TypeOK
      <4>3. QED
        BY <4>1, <4>2
    <3>3. SUFFICES ASSUME NEW i \in 1 .. Len(closing')
                   PROVE  /\ status'[closing'[i]] = "CLOSED" /\ fd'[closing'[i]] \in Fds
                          /\ T # Absent /\ table[fd'[closing'[i]]] = T => closing'[i] = T
                          /\ "opened_in_close" \notin seen' => kfd'[fd'[closing'[i]]] = Absent
      BY <1>1 DEF ClosingInv
    <3>4. CASE i = Len(closing) + 1
      BY <1>2, <2>3, <3>1, <3>2, <3>4
    <3>5. CASE i # Len(closing) + 1
      <4>1. i \in 1 .. Len(closing)
        BY <3>1, <3>5
      <4>2. QED
        BY <2>1, <3>1, <4>1
    <3>6. QED
      BY <3>4, <3>5
  <2>4. QED
    BY <1>1, <2>2, <2>3 DEF Types, TypeOK
<1>11. BatchInv'
  BY <1>2, FdFacts DEF Types, TypeOK, TaskInv, BatchInv, Pending
<1>12. ClosedInv'
  <2>1. SUFFICES ASSUME "threw" \notin seen, NEW t \in Sockets, status'[t] = "CLOSED", Alive(t)'
                 PROVE  (step = "unreg" /\ T = t) \/ table[fd'[t]] # t
    BY <1>1 DEF ClosedInv
  <2>2. t \in Targets \ {s}
    BY <1>4, <2>1 DEF Targets
  <2>3. QED
    BY <1>3, <2>1, <2>2 DEF TaskInv, ClosedInv
<1>13. QED
  BY <1>6, <1>7, <1>8, <1>9, <1>10, <1>11, <1>12 DEF TaskInv

(* ServerSocket::close while the server is open. *)
LEMMA CloseServerTask ==
  ASSUME Types, ObjInv, TaskInv, user, NEW v \in Servers, Open(v), reactor_unreg(fd[v]),
         status' = [status EXCEPT ![v] = "CLOSED"],
         kfd' = [kfd EXCEPT ![fd[v]] = Absent],
         seen \subseteq seen', Pending(fd[v]) => "closed_in_batch" \in seen',
         UNCHANGED <<fd, batch, step, now, user, closing>>,
         \A c \in Targets \ {v} :
           conn'[c].eof = conn[c].eof /\ conn'[c].unread = conn[c].unread
  PROVE  TaskInv'
<1>1. T' = T /\ (T # Absent => T \in Targets) /\ v \in Targets /\ v \notin Sockets
  BY ReactorAssumption DEF Types, TypeOK, T, Targets
<1>2. fd[v] \in Fds /\ kfd[fd[v]] = v /\ table[fd[v]] \in {Absent, v}
  BY ZenonT(40), <1>1, OpenFacts, FdFacts DEF ObjInv, TableInv
<1>3. /\ \A m \in Fds : table'[m] = IF m = fd[v] THEN Absent ELSE table[m]
      /\ freed' <=> (freed \/ (T # Absent /\ fd[v] \in Fds /\ table[fd[v]] = T))
  BY UnregFacts
<1>4. \A t \in Targets \ {v} : /\ fd'[t] = fd[t] /\ status'[t] = status[t]
                               /\ (Alive(t)' <=> Alive(t))
                               /\ (Alive(t) => table'[fd[t]] = table[fd[t]])
  BY <1>2, <1>3, FdFacts DEF Types, TypeOK, Alive
<1>5. NowInv' /\ ReadInv'
  <2>1. freed' /\ T \in Sockets => freed
    BY <1>1, <1>2, <1>3
  <2>2. T # Absent => status'[T] # "NEW"
    BY <1>1 DEF Types, TypeOK, TaskInv, NowInv
  <2>3. T \in Sockets => status'[T] = status[T]
    BY <1>1, <1>4 DEF Targets
  <2>4. QED
    BY <1>1, <2>1, <2>2, <2>3 DEF TaskInv, NowInv, ReadInv, Open
<1>6. EndedInv' /\ UnregInv'
  <2>1. step \in {"ended", "unreg"} => T \in Targets \ {v}
    BY <1>1 DEF Types, TypeOK, T, Targets
  <2>2. QED
    BY <1>1, <1>4, <2>1 DEF TaskInv, EndedInv, UnregInv
<1>7. ClosingInv'
  <2>1. SUFFICES ASSUME NEW i \in 1 .. Len(closing)
                 PROVE  /\ status'[closing[i]] = "CLOSED" /\ fd[closing[i]] \in Fds
                        /\ T # Absent /\ table'[fd[closing[i]]] = T => closing[i] = T
                        /\ "opened_in_close" \notin seen' => kfd'[fd[closing[i]]] = Absent
    BY <1>1 DEF ClosingInv
  <2>2. /\ status[closing[i]] = "CLOSED" /\ fd[closing[i]] \in Fds
        /\ T # Absent /\ table[fd[closing[i]]] = T => closing[i] = T
        /\ "opened_in_close" \notin seen => kfd[fd[closing[i]]] = Absent
    BY DEF TaskInv, ClosingInv
  <2>3. closing[i] \in Targets
    BY ElementOfSeq DEF Types, TypeOK, Targets
  <2>4. QED
    BY <1>2, <1>3, <2>2, <2>3, FdFacts DEF Types, TypeOK
<1>8. BatchInv'
  BY <1>2, FdFacts DEF Types, TypeOK, TaskInv, BatchInv, Pending
<1>9. ClosedInv'
  <2>1. SUFFICES ASSUME "threw" \notin seen, NEW t \in Sockets, status'[t] = "CLOSED", Alive(t)'
                 PROVE  (step = "unreg" /\ T = t) \/ table'[fd[t]] # t
    BY <1>1 DEF ClosedInv
  <2>2. t \in Targets \ {v}
    BY <1>1 DEF Targets
  <2>3. QED
    BY <1>4, <2>1, <2>2 DEF TaskInv, ClosedInv
<1>10. QED
  BY <1>5, <1>6, <1>7, <1>8, <1>9 DEF TaskInv

(* A second ServerSocket::close, of a number that nobody has. *)
LEMMA CloseAgainFacts ==
  ASSUME Types, ObjInv, NEW v \in Servers, CloseServer(v), Conn(v) = Absent
  PROVE  /\ user /\ fd[v] \in Fds /\ kfd[fd[v]] = Absent /\ reactor_unreg(fd[v])
         /\ table[fd[v]] # Absent => "closed_again" \in seen'
         /\ seen \subseteq seen'
         /\ \A what : what # "closed_again" /\ what \in seen' => what \in seen
         /\ UNCHANGED <<platform, status, fd, batch, step, now, user, closing, state,
                       kfd, conn, events>>
<1>1. v \in Targets /\ fd[v] \in Fds /\ kfd[fd[v]] = Absent
  BY DEF CloseServer, Conn, Types, TypeOK, Targets
<1>2. /\ user /\ reactor_unreg(fd[v]) /\ Did("closed_again", table[fd[v]] # Absent)
      /\ UNCHANGED <<status, state, kernel>>
      /\ UNCHANGED <<platform, fd, task, user, closing, events>>
  BY DEF CloseServer, UserCode
<1>3. seen' = seen \cup (IF table[fd[v]] # Absent THEN {"closed_again"} ELSE {})
  BY <1>2 DEF Did
<1>4. QED
  BY <1>1, <1>2, <1>3 DEF task, kernel

(* It may delete the socket that reactor_task handles, if that is closed.   *)
LEMMA CloseAgainTask ==
  ASSUME Types, ObjInv, TaskInv, NEW v \in Servers, CloseServer(v), Conn(v) = Absent,
         \A s \in Sockets : status[s] # "LISTENING"
  PROVE  TaskInv'
<1>1. /\ user /\ fd[v] \in Fds /\ kfd[fd[v]] = Absent
      /\ table[fd[v]] # Absent => "closed_again" \in seen'
      /\ seen \subseteq seen'
      /\ \A what : what # "closed_again" /\ what \in seen' => what \in seen
      /\ UNCHANGED <<status, fd, batch, step, now, user, closing, kfd, conn>>
  BY CloseAgainFacts
<1>2. /\ \A m \in Fds : table'[m] = IF m = fd[v] THEN Absent ELSE table[m]
      /\ freed' <=> (freed \/ (T # Absent /\ table[fd[v]] = T))
  BY <1>1, CloseAgainFacts, UnregFacts
<1>3. T' = T /\ (T # Absent => T \in Targets)
  BY <1>1 DEF Types, TypeOK, T
<1>4. \A t \in Targets : Alive(t) => Alive(t)' /\ table'[fd[t]] = table[fd[t]]
  BY <1>1, <1>2, FdFacts DEF Alive
<1>5. NowInv' /\ ReadInv'
  <2>1. ASSUME T # Absent, table[fd[v]] = T, T \in Sockets
        PROVE  /\ status[T] \in {"HALF_CLOSED", "CLOSED"} /\ ~Open(T)
               /\ "closed_again" \in seen'
    <3>1. status[T] \notin {"NEW", "NONE"} /\ fd[T] \in {0, fd[v]} /\ T \in Targets
      BY <1>1, <2>1 DEF ObjInv, TableInv, Targets
    <3>2. fd[T] = 0 => status[T] \notin {"IDLE", "CONNECTING", "CONNECTED"}
      BY <3>1 DEF ObjInv, NumberInv
    <3>3. fd[T] = fd[v] => status[T] = "CLOSED"
      BY <1>1, <2>1, <3>1, FdFacts DEF ObjInv, Owned, Open
    <3>4. QED
      BY <1>1, <2>1, <3>1, <3>2, <3>3 DEF Types, TypeOK, Open
  <2>2. QED
    BY <1>1, <1>2, <1>3, <2>1 DEF TaskInv, NowInv, ReadInv, Open
<1>6. EndedInv' /\ UnregInv'
  <2>1. fd[T] # 0 /\ step = "ended" => Alive(T) /\ T \in Targets
    BY DEF TaskInv, EndedInv, Types, TypeOK, T, Targets
  <2>2. step = "unreg" => T \in Targets
    BY DEF Types, TypeOK, T, Targets
  <2>3. QED
    BY <1>1, <1>3, <1>4, <2>1, <2>2 DEF TaskInv, EndedInv, UnregInv
<1>7. ClosingInv'
  <2>1. \A i \in 1 .. Len(closing) : fd[closing[i]] \in Fds
    BY DEF TaskInv, ClosingInv
  <2>2. QED
    BY <1>1, <1>2, <1>3, <2>1 DEF TaskInv, ClosingInv
<1>8. BatchInv'
  BY <1>1 DEF TaskInv, BatchInv
<1>9. ClosedInv'
  <2>1. SUFFICES ASSUME "threw" \notin seen, NEW t \in Sockets, status[t] = "CLOSED", Alive(t)
                 PROVE  (step = "unreg" /\ T = t) \/ table'[fd[t]] # t
    BY <1>1, <1>3 DEF ClosedInv, Alive
  <2>2. t \in Targets
    BY DEF Targets
  <2>3. QED
    BY <1>4, <2>1, <2>2 DEF TaskInv, ClosedInv
<1>10. QED
  BY <1>5, <1>6, <1>7, <1>8, <1>9 DEF TaskInv

(* The "close" handler of the innermost Socket::close returns or throws. *)
LEMMA FrontFacts ==
  ASSUME Types, closing # <<>>
  PROVE  /\ Len(closing) \in 1 .. Len(closing) /\ Last(closing) = closing[Len(closing)]
         /\ Front(closing) \in Seq(Sockets)
         /\ \A i \in 1 .. Len(Front(closing)) :
              i \in 1 .. Len(closing) /\ Front(closing)[i] = closing[i]
<1> DEFINE n == Len(closing)
<1>1. closing \in Seq(Sockets) /\ n \in Nat /\ n # 0
  BY EmptySeq, LenProperties DEF Types, TypeOK
<1>2. \A i \in 1 .. n - 1 : closing[i] \in Sockets
  <2>1. \A i \in 1 .. n : closing[i] \in Sockets
    BY <1>1, ElementOfSeq
  <2> HIDE DEF n
  <2>2. \A i \in 1 .. n - 1 : i \in 1 .. n
    BY <1>1
  <2>3. QED
    BY <2>1, <2>2
<1>3. 1 \in Int /\ n - 1 \in Int /\ n - 1 - 1 + 1 = n - 1
  <2> HIDE DEF n
  <2>1. QED
    BY <1>1
<1> DEFINE r == SubSeq(closing, 1, n - 1)
<1>4. /\ r \in Seq(Sockets)
      /\ Len(r) = IF 1 <= n - 1 THEN n - 1 - 1 + 1 ELSE 0
      /\ \A i \in 1 .. n - 1 - 1 + 1 : r[i] = closing[1 + i - 1]
  BY <1>2, <1>3, SubSeqProperties
<1>5. Front(closing) = r
  BY DEF Front
<1>6. Last(closing) = closing[n]
  BY DEF Last
<1> HIDE DEF r, n
<1>7. Len(r) = n - 1 /\ \A i \in 1 .. n - 1 : r[i] = closing[i]
  BY <1>1, <1>3, <1>4
<1>8. n \in 1 .. n /\ \A i \in 1 .. n - 1 : i \in 1 .. n
  BY <1>1
<1>9. QED
  BY <1>4, <1>5, <1>6, <1>7, <1>8 DEF n

LEMMA CloseReturnsTask ==
  ASSUME Types, ObjInv, TaskInv, user, closing # <<>>,
         reactor_unreg(fd[Last(closing)]), closing' = Front(closing),
         UNCHANGED <<status, fd, kfd, batch, step, now, user, seen, conn>>
  PROVE  TaskInv'
<1> DEFINE s == Last(closing)
<1>1. /\ s \in Sockets /\ status[s] = "CLOSED" /\ fd[s] \in Fds
      /\ T # Absent /\ table[fd[s]] = T => s = T
  BY FrontFacts, ElementOfSeq DEF Types, TypeOK, TaskInv, ClosingInv
<1>2. /\ \A m \in Fds : table'[m] = IF m = fd[s] THEN Absent ELSE table[m]
      /\ freed' <=> (freed \/ (T # Absent /\ fd[s] \in Fds /\ table[fd[s]] = T))
  BY UnregFacts
<1> HIDE DEF s
<1>3. /\ T' = T /\ \A t : Alive(t)' <=> Alive(t)
      /\ \A m \in Fds : table'[m] \in {Absent, table[m]}
  BY <1>2 DEF T, Alive
<1>4. step = "ended" => T # s /\ T \in Sockets /\ fd[T] \in Fds \cup {0}
  BY <1>1, FdFacts DEF Types, TypeOK, TaskInv, EndedInv, T, Targets
<1>5. NowInv' /\ ReadInv'
  <2>1. freed' /\ T \in Sockets => freed \/ (status[T] = "CLOSED" /\ step # "ended")
    BY <1>1, <1>2, <1>4
  <2>2. QED
    BY <1>3, <2>1 DEF TaskInv, NowInv, ReadInv, Open
<1>6. EndedInv'
  <2>1. step = "ended" /\ fd[T] # 0 => table'[fd[T]] = T
    <3>1. SUFFICES ASSUME step = "ended", fd[T] # 0 PROVE table'[fd[T]] = T
      OBVIOUS
    <3>2. table[fd[T]] = T /\ fd[T] \in Fds /\ T # Absent
      BY <1>4, <3>1, FdFacts DEF TaskInv, EndedInv, Targets
    <3>3. QED
      BY <1>1, <1>2, <1>4, <3>1, <3>2
  <2>2. QED
    BY <1>3, <2>1 DEF TaskInv, EndedInv
<1>7. UnregInv'
  BY <1>3 DEF TaskInv, UnregInv
<1>8. ClosingInv'
  <2>1. SUFFICES ASSUME NEW i \in 1 .. Len(closing')
                 PROVE  /\ status[closing'[i]] = "CLOSED" /\ fd[closing'[i]] \in Fds
                        /\ T # Absent /\ table'[fd[closing'[i]]] = T => closing'[i] = T
                        /\ "opened_in_close" \notin seen => kfd[fd[closing'[i]]] = Absent
    BY <1>3 DEF ClosingInv
  <2>2. i \in 1 .. Len(closing) /\ closing'[i] = closing[i]
    BY FrontFacts
  <2>3. QED
    BY <1>3, <2>2 DEF TaskInv, ClosingInv
<1>9. BatchInv' /\ ClosedInv'
  <2>1. BatchInv'
    BY DEF TaskInv, BatchInv
  <2>2. SUFFICES ASSUME "threw" \notin seen, NEW t \in Sockets, status[t] = "CLOSED", Alive(t)
                 PROVE  (step = "unreg" /\ T = t) \/ table'[fd[t]] # t
    BY <1>3, <2>1 DEF ClosedInv
  <2>3. fd[t] \in Fds /\ t # Absent
    BY <2>2, FdFacts DEF Alive, Targets
  <2>4. QED
    BY <1>3, <2>2, <2>3 DEF TaskInv, ClosedInv
<1>10. QED
  BY <1>5, <1>6, <1>7, <1>8, <1>9 DEF TaskInv

LEMMA CloseThrowsTask ==
  ASSUME Types, TaskInv, user, closing # <<>>, closing' = Front(closing),
         UNCHANGED <<status, fd, table, kfd, batch, step, now, freed, user, seen, conn>>
  PROVE  TaskInv'
<1>1. NowInv' /\ ReadInv'
  BY DEF TaskInv, NowInv, ReadInv, T, Open
<1>2. EndedInv' /\ UnregInv'
  BY DEF TaskInv, EndedInv, UnregInv, T, Alive
<1>3. ClosingInv'
  BY FrontFacts DEF TaskInv, ClosingInv, T
<1>4. BatchInv' /\ ClosedInv'
  BY DEF TaskInv, BatchInv, ClosedInv, T, Alive
<1>5. QED
  BY <1>1, <1>2, <1>3, <1>4 DEF TaskInv

(* An exception leaves reactor_task. *)
LEMMA EscapesTask ==
  ASSUME Escapes
  PROVE  TaskInv'
<1>1. /\ batch' = {} /\ step' = "idle" /\ T' = Absent /\ user' = TRUE /\ closing' = <<>>
      /\ "threw" \in seen'
  BY DEF Escapes, NoEvent, T
<1>2. NowInv' /\ ReadInv' /\ EndedInv' /\ UnregInv'
  BY <1>1, FdFacts DEF NowInv, ReadInv, EndedInv, UnregInv, Targets
<1>3. ClosingInv'
  BY <1>1, EmptySeq DEF ClosingInv
<1>4. BatchInv' /\ ClosedInv'
  BY <1>1 DEF BatchInv, ClosedInv
<1>5. QED
  BY <1>2, <1>3, <1>4 DEF TaskInv

(* reactor_task goes on, and no socket's read loop is under way. *)
LEMMA GoesTask ==
  ASSUME Types, TaskInv, ~user, step # "unreg", step # "ended",
         step' \in {"idle", "dispatch", "write"},
         step' # "write" => T' = Absent, step' = "write" => T' = T,
         batch' \in SUBSET batch,
         UNCHANGED <<status, fd, table, kfd, freed, closing>>, seen \subseteq seen'
  PROVE  TaskInv'
<1>1. NowInv'
  BY FdFacts DEF TaskInv, NowInv, Targets, Open
<1>2. ReadInv' /\ EndedInv' /\ UnregInv'
  BY DEF ReadInv, EndedInv, UnregInv
<1>3. ClosingInv'
  BY EmptySeq DEF TaskInv, ClosingInv
<1>4. BatchInv'
  BY DEF TaskInv, BatchInv
<1>5. ClosedInv'
  BY DEF TaskInv, ClosedInv, Alive
<1>6. QED
  BY <1>1, <1>2, <1>3, <1>4, <1>5 DEF TaskInv

-----------------------------------------------------------------------------
(* The actions.                                                             *)

(* The connections lose data or an error, or nothing. *)
LEMMA ConnOnly ==
  ASSUME ConnInv, EventsInv, UNCHANGED <<status, fd, kfd, events>>, seen \subseteq seen',
         \A s \in Sockets :
           /\ conn'[s].net = conn[s].net /\ conn'[s].eof = conn[s].eof
           /\ conn'[s].unread => conn[s].unread
           /\ conn'[s].err => conn[s].err
  PROVE  ConnInv' /\ EventsInv'
<1>1. \A s : Alive(s)' => Alive(s)
  BY DEF Alive
<1>2. ASSUME NEW s \in Sockets PROVE ConnOf(s)'
  BY <1>1, ConnStays DEF ConnInv
<1>3. ASSUME "threw" \notin seen', NEW s \in Sockets PROVE EventsOf(s)'
  BY <1>3, EventsStay DEF EventsInv
<1>4. QED
  BY <1>2, <1>3 DEF ConnInv, EventsInv

(* A new object has no connection yet, or one that a server accepted. *)
LEMMA NewConn ==
  ASSUME Types, ConnInv, EventsInv, NEW t \in Targets, status[t] = "NEW", NEW n \in Fds,
         NEW st \in {"IDLE", "CONNECTED"},
         kfd[n] = Absent, fd' = [fd EXCEPT ![t] = n], kfd' = [kfd EXCEPT ![n] = t],
         status' = [status EXCEPT ![t] = st], events' = events, seen \subseteq seen',
         \A c \in Targets :
           /\ \/ conn'[c].net = conn[c].net
              \/ c = t /\ st = "CONNECTED" /\ conn'[c].net = "up"
           /\ conn'[c].eof = conn[c].eof /\ conn'[c].unread = conn[c].unread
           /\ conn'[c].err = conn[c].err
  PROVE  ConnInv' /\ EventsInv'
<1>1. \A s \in Targets \ {t} : status'[s] = status[s] /\ (Alive(s)' => Alive(s))
  BY FdFacts DEF Types, TypeOK, Alive
<1>2. ASSUME NEW s \in Sockets PROVE ConnOf(s)'
  <2>1. CASE s = t
    <3>1. /\ status'[s] = st /\ conn[s].net = "none" /\ ~conn[s].unread /\ ~conn[s].eof
          /\ ~conn[s].err
      BY <2>1 DEF Types, TypeOK, ConnInv, ConnOf
    <3>2. conn'[s].net = "none" \/ (st = "CONNECTED" /\ conn'[s].net = "up")
      <4>1. conn'[t].net = conn[t].net \/ (st = "CONNECTED" /\ conn'[t].net = "up")
        OBVIOUS
      <4>2. QED
        BY <2>1, <3>1, <4>1
    <3>3. ~conn'[s].unread /\ ~conn'[s].eof /\ ~conn'[s].err
      BY <2>1, <3>1
    <3>4. QED
      BY <3>1, <3>2, <3>3 DEF ConnOf
  <2>2. CASE s # t
    BY <1>1, <2>2, ConnStays DEF ConnInv, Targets
  <2>3. QED
    BY <2>1, <2>2
<1>3. ASSUME "threw" \notin seen', NEW s \in Sockets PROVE EventsOf(s)'
  <2>1. EventsOf(s)
    BY <1>3 DEF EventsInv
  <2>2. CASE s = t
    <3>1. events'[s] = <<>> /\ status'[s] = st
      BY <2>1, <2>2 DEF Types, TypeOK, EventsOf
    <3>2. QED
      BY <3>1, EmptySeq DEF EventsOf
  <2>3. CASE s # t
    BY <1>1, <2>1, <2>3, EventsStay DEF Targets
  <2>4. QED
    BY <2>2, <2>3
<1>4. QED
  BY <1>2, <1>3 DEF ConnInv, EventsInv

LEMMA NewSocketGood ==
  ASSUME Types, Good, NewSocket
  PROVE  Good'
<1> DEFINE s == CHOOSE x \in Unallocated : TRUE
<1>1. /\ user = TRUE /\ Unallocated # {} /\ Construct(s, "IDLE")
      /\ conn' = [conn EXCEPT ![s].edge = Edge]
      /\ UNCHANGED <<platform, task, freed, user, closing, state, events>>
  BY DEF NewSocket, UserCode, Types, TypeOK
<1>2. s \in Sockets /\ status[s] = "NEW" /\ s \in Targets
  BY <1>1, NewObject DEF Targets
<1> HIDE DEF s
<1>3. /\ ObjInv'
      /\ \E n \in Fds :
           /\ kfd[n] = Absent
           /\ fd' = [fd EXCEPT ![s] = n] /\ kfd' = [kfd EXCEPT ![n] = s]
           /\ table' = [table EXCEPT ![n] = s]
           /\ status' = [status EXCEPT ![s] = "IDLE"]
           /\ seen \subseteq seen'
           /\ "opened_in_close" \notin seen' => n \notin Closing
  BY <1>1, <1>2, ConstructObj DEF Good
<1>4. PICK n \in Fds :
        /\ kfd[n] = Absent
        /\ fd' = [fd EXCEPT ![s] = n] /\ kfd' = [kfd EXCEPT ![n] = s]
        /\ table' = [table EXCEPT ![n] = s]
        /\ status' = [status EXCEPT ![s] = "IDLE"]
        /\ seen \subseteq seen'
        /\ "opened_in_close" \notin seen' => n \notin Closing
  BY <1>3
<1>5. \A c \in Targets : /\ conn'[c].net = conn[c].net
                         /\ conn'[c].eof = conn[c].eof /\ conn'[c].unread = conn[c].unread
                         /\ conn'[c].err = conn[c].err
  BY <1>1, <1>2 DEF Types, Connections
<1>6. ConnInv' /\ EventsInv'
  BY <1>1, <1>2, <1>4, <1>5, NewConn DEF Good
<1>7. TaskInv'
  BY <1>1, <1>2, <1>4, <1>5, ConstructTask DEF Good, task
<1>8. QED
  BY <1>3, <1>6, <1>7 DEF Good

LEMMA NewServerGood ==
  ASSUME Types, Good, NEW v \in Servers, NewServer(v)
  PROVE  Good'
<1>1. /\ user = TRUE /\ Construct(v, "IDLE") /\ status[v] = "NEW"
      /\ conn' = [conn EXCEPT ![v].edge = Edge]
      /\ UNCHANGED <<platform, task, freed, user, closing, state, events>>
  BY DEF NewServer, UserCode, Types, TypeOK
<1>2. v \in Targets
  BY DEF Targets
<1>3. /\ ObjInv'
      /\ \E n \in Fds :
           /\ kfd[n] = Absent
           /\ fd' = [fd EXCEPT ![v] = n] /\ kfd' = [kfd EXCEPT ![n] = v]
           /\ table' = [table EXCEPT ![n] = v]
           /\ status' = [status EXCEPT ![v] = "IDLE"]
           /\ seen \subseteq seen'
           /\ "opened_in_close" \notin seen' => n \notin Closing
  BY <1>1, <1>2, ConstructObj DEF Good
<1>4. PICK n \in Fds :
        /\ kfd[n] = Absent
        /\ fd' = [fd EXCEPT ![v] = n] /\ kfd' = [kfd EXCEPT ![n] = v]
        /\ table' = [table EXCEPT ![n] = v]
        /\ status' = [status EXCEPT ![v] = "IDLE"]
        /\ seen \subseteq seen'
        /\ "opened_in_close" \notin seen' => n \notin Closing
  BY <1>3
<1>5. \A c \in Targets : /\ conn'[c].net = conn[c].net
                         /\ conn'[c].eof = conn[c].eof /\ conn'[c].unread = conn[c].unread
                         /\ conn'[c].err = conn[c].err
  BY <1>1, <1>2 DEF Types, Connections
<1>6. ConnInv' /\ EventsInv'
  BY <1>1, <1>2, <1>4, <1>5, NewConn DEF Good
<1>7. TaskInv'
  BY <1>1, <1>2, <1>4, <1>5, ConstructTask DEF Good, task
<1>8. QED
  BY <1>3, <1>6, <1>7 DEF Good

LEMMA AcceptGood ==
  ASSUME Types, Good, Accept
  PROVE  Good'
<1> DEFINE s == CHOOSE x \in Unallocated : TRUE
           c == Conn(T)
<1>1. /\ step = "accept" /\ Unallocated # {} /\ Construct(s, "CONNECTED")
      /\ conn' = [conn EXCEPT ![c].backlog = conn[c].backlog - 1,
                              ![s].net = "up", ![s].edge = Edge]
      /\ user' = TRUE /\ UNCHANGED <<platform, task, freed, closing, state, events>>
  BY DEF Accept, T
<1>2. s \in Sockets /\ status[s] = "NEW" /\ s \in Targets
  BY <1>1, NewObject DEF Targets
<1>c. c \in Targets
  BY FdFacts DEF Accept, Listening, Conn, T, Types, TypeOK
<1> HIDE DEF s, c
<1>3. /\ ObjInv'
      /\ \E n \in Fds :
           /\ kfd[n] = Absent
           /\ fd' = [fd EXCEPT ![s] = n] /\ kfd' = [kfd EXCEPT ![n] = s]
           /\ table' = [table EXCEPT ![n] = s]
           /\ status' = [status EXCEPT ![s] = "CONNECTED"]
           /\ seen \subseteq seen'
           /\ "opened_in_close" \notin seen' => n \notin Closing
  BY <1>1, <1>2, ConstructObj DEF Good
<1>4. PICK n \in Fds :
        /\ kfd[n] = Absent
        /\ fd' = [fd EXCEPT ![s] = n] /\ kfd' = [kfd EXCEPT ![n] = s]
        /\ table' = [table EXCEPT ![n] = s]
        /\ status' = [status EXCEPT ![s] = "CONNECTED"]
        /\ seen \subseteq seen'
        /\ "opened_in_close" \notin seen' => n \notin Closing
  BY <1>3
<1>5. \A d \in Targets : /\ conn'[d].net = conn[d].net \/ (d = s /\ conn'[d].net = "up")
                         /\ conn'[d].eof = conn[d].eof /\ conn'[d].unread = conn[d].unread
                         /\ conn'[d].err = conn[d].err
  <2>1. SUFFICES ASSUME NEW d \in Targets
                 PROVE  /\ conn'[d].net = conn[d].net \/ (d = s /\ conn'[d].net = "up")
                        /\ conn'[d].eof = conn[d].eof /\ conn'[d].unread = conn[d].unread
                        /\ conn'[d].err = conn[d].err
    OBVIOUS
  <2>2. /\ conn \in [Targets -> Connections]
        /\ conn[d] \in Connections /\ conn[c] \in Connections /\ conn[s] \in Connections
    BY <1>2, <1>c DEF Types
  <2>3. PICK b : conn' = [conn EXCEPT ![c].backlog = b, ![s].net = "up", ![s].edge = Edge]
    BY <1>1
  <2>4. CASE d # s
    BY <1>2, <1>c, <2>2, <2>3, <2>4 DEF Connections
  <2>5. CASE d = s
    BY <1>2, <1>c, <2>2, <2>3, <2>5 DEF Connections
  <2>6. QED
    BY <2>4, <2>5
<1>6. ConnInv' /\ EventsInv'
  BY ZenonT(40), <1>1, <1>2, <1>4, <1>5, NewConn DEF Good
<1>7. TaskInv'
  BY <1>1, <1>2, <1>4, <1>5, ConstructTask DEF Good, task
<1>8. QED
  BY <1>3, <1>6, <1>7 DEF Good

LEMMA ListenGood ==
  ASSUME Types, Good, NEW v \in Servers, Listen(v)
  PROVE  Good'
<1>1. v \in Targets /\ v \notin Sockets /\ Open(v)
  BY ReactorAssumption DEF Targets, Listen, Open, Good, ObjInv, NumberInv
<1>2. Conn(v) = v
  BY <1>1, OpenFacts DEF Good
<1>3. /\ user /\ status[v] = "IDLE" /\ status' = [status EXCEPT ![v] = "LISTENING"]
      /\ conn' = [conn EXCEPT ![v].net = "listen"]
      /\ UNCHANGED <<fd, table, kfd, batch, step, now, freed, user, closing, state, events, seen>>
  BY <1>2 DEF Listen, UserCode, task, history
<1>4. \A c \in Targets : /\ (c # v => conn'[c].net = conn[c].net)
                         /\ conn'[c].eof = conn[c].eof /\ conn'[c].unread = conn[c].unread
                         /\ conn'[c].err = conn[c].err
  BY <1>1, <1>3 DEF Types, Connections
<1>5. ObjInv'
  BY <1>1, <1>3, StatusObj DEF Good
<1>6. TaskInv'
  BY <1>1, <1>3, <1>4, IdleTask DEF Good
<1>7. \A s \in Sockets : /\ status'[s] = status[s] /\ (Alive(s)' => Alive(s)) /\ s \in Targets
                         /\ s # v
  BY <1>1, <1>3 DEF Types, TypeOK, Alive, Targets
<1>8. ASSUME NEW s \in Sockets PROVE ConnOf(s)'
  BY <1>4, <1>7, ConnStays DEF Good, ConnInv
<1>9. ASSUME "threw" \notin seen', NEW s \in Sockets PROVE EventsOf(s)'
  BY <1>3, <1>4, <1>7, <1>9, EventsStay DEF Good, EventsInv
<1>10. QED
  BY <1>5, <1>6, <1>8, <1>9 DEF Good, ConnInv, EventsInv

LEMMA ConnectGood ==
  ASSUME Types, Good, NEW s \in Sockets, Connect(s)
  PROVE  Good'
<1>1. s \in Targets /\ Open(s) /\ fd[s] # 0
  BY DEF Targets, Connect, Open, Good, ObjInv, NumberInv
<1>2. Conn(s) = s
  BY <1>1, OpenFacts DEF Good
<1>3. /\ user /\ status[s] = "IDLE" /\ seen \subseteq seen'
      /\ "threw" \notin seen' => "threw" \notin seen
      /\ UNCHANGED <<fd, table, kfd, batch, step, now, freed, user, closing, state>>
      /\ \/ /\ status' = [status EXCEPT ![s] = "CONNECTED"]
            /\ conn' = [conn EXCEPT ![s].net = "up", ![s].edge = Edge]
            /\ events' = [events EXCEPT ![s] = Append(events[s], "connect")]
         \/ /\ status' = [status EXCEPT ![s] = "CONNECTING"]
            /\ conn' = [conn EXCEPT ![s].net = "syn"]
            /\ events' = events
  BY <1>2 DEF Connect, UserCode, task, Did, Fires
<1>4. PICK st \in {"CONNECTING", "CONNECTED"} :
        /\ status' = [status EXCEPT ![s] = st]
        /\ st = "CONNECTED" => events' = [events EXCEPT ![s] = Append(events[s], "connect")]
        /\ st = "CONNECTING" => events' = events
  BY <1>3
<1>5. \A c \in Targets : /\ conn'[c].net = IF c # s THEN conn[c].net ELSE
                                          IF st = "CONNECTED" THEN "up" ELSE "syn"
                         /\ conn'[c].eof = conn[c].eof /\ conn'[c].unread = conn[c].unread
                         /\ conn'[c].err = conn[c].err
  <2>1. status'[s] = st
    BY <1>1, <1>4 DEF Types, TypeOK
  <2>2. \/ st = "CONNECTED" /\ conn' = [conn EXCEPT ![s].net = "up", ![s].edge = Edge]
        \/ st = "CONNECTING" /\ conn' = [conn EXCEPT ![s].net = "syn"]
    BY <1>1, <1>3, <2>1 DEF Types, TypeOK
  <2>3. QED
    BY <1>1, <2>2 DEF Types, Connections
<1>6. ObjInv'
  BY <1>1, <1>3, <1>4, StatusObj DEF Good
<1>7. TaskInv'
  BY <1>1, <1>3, <1>4, <1>5, IdleTask DEF Good
<1>8. \A t \in Sockets : /\ t \in Targets /\ (Alive(t)' => Alive(t))
                         /\ (t # s => status'[t] = status[t])
  BY <1>3, <1>4 DEF Types, TypeOK, Alive, Targets
<1>9. ASSUME NEW t \in Sockets PROVE ConnOf(t)'
  <2>1. CASE t = s
    <3>1. ~conn[s].unread /\ ~conn[s].eof /\ ~conn[s].err
      BY <1>3 DEF Good, ConnInv, ConnOf
    <3>2. status'[s] = st
      BY <1>1, <1>4 DEF Types, TypeOK
    <3>3. QED
      BY <1>1, <1>5, <2>1, <3>1, <3>2 DEF ConnOf
  <2>2. CASE t # s
    BY <1>5, <1>8, <2>2, ConnStays DEF Good, ConnInv
  <2>3. QED
    BY <2>1, <2>2
<1>10. ASSUME "threw" \notin seen', NEW t \in Sockets PROVE EventsOf(t)'
  <2>1. EventsOf(t)
    BY <1>3, <1>10 DEF Good, EventsInv
  <2>2. CASE t = s /\ st = "CONNECTING"
    <3>1. events'[t] = <<>> /\ status'[t] = "CONNECTING"
      BY <1>1, <1>3, <1>4, <2>1, <2>2 DEF Types, TypeOK, EventsOf
    <3>2. QED
      BY <3>1, EmptySeq DEF EventsOf
  <2>3. CASE t = s /\ st = "CONNECTED"
    <3>1. events[t] = <<>> /\ status'[t] = "CONNECTED"
      BY <1>1, <1>3, <1>4, <2>1, <2>3 DEF Types, TypeOK, EventsOf
    <3>2. events'[t] = Append(events[t], "connect")
      BY <1>4, <2>3 DEF Types
    <3>3. "connect" \in LifeEvents /\ Rank("connect") = 1 /\ Stage("CONNECTED") = 1
      BY DEF LifeEvents, Rank, Stage
    <3>4. events[t] \in Seq(LifeEvents) /\ \A i \in 1 .. Len(events[t]) : FALSE
      BY <3>1, EmptySeq
    <3>5. QED
      BY <3>1, <3>2, <3>3, <3>4, FiresInOrder DEF EventsOf
  <2>4. CASE t # s
    <3>1. events'[t] = events[t]
      BY <1>4, <2>4 DEF Types
    <3>2. QED
      BY <1>5, <1>8, <2>1, <2>4, <3>1, EventsStay
  <2>5. QED
    BY <2>2, <2>3, <2>4
<1>11. QED
  BY <1>6, <1>7, <1>9, <1>10 DEF Good, ConnInv, EventsInv

LEMMA CloseGood ==
  ASSUME Types, Good, NEW s \in Sockets, Close(s)
  PROVE  Good'
<1>1. s \in Targets /\ fd[s] \in Fds /\ Open(s)
  BY FdFacts DEF Targets, Close, Open, Conn
<1>2. kfd[fd[s]] = s
  BY <1>1, OpenFacts DEF Good
<1>3. /\ user /\ status[s] \in {"CONNECTED", "HALF_CLOSED"}
      /\ kfd' = [kfd EXCEPT ![fd[s]] = Absent] /\ conn' = [conn EXCEPT ![s] = NoConn]
      /\ seen \subseteq seen' /\ (Pending(fd[s]) => "closed_in_batch" \in seen')
      /\ "threw" \notin seen' => "threw" \notin seen
      /\ UNCHANGED <<table, batch, step, now, freed, user, state>>
      /\ \/ /\ status[s] = "CONNECTED" /\ fd' = [fd EXCEPT ![s] = 0]
            /\ status' = [status EXCEPT ![s] = "HALF_CLOSED"] /\ closing' = closing
            /\ events' = events
         \/ /\ status[s] = "HALF_CLOSED" /\ fd' = fd
            /\ status' = [status EXCEPT ![s] = "CLOSED"] /\ closing' = Append(closing, s)
            /\ events' = [events EXCEPT ![s] = Append(events[s], "close")]
  BY <1>2 DEF Close, CloseFd, UserCode, task, Did, Fires
<1>4. PICK st \in {"HALF_CLOSED", "CLOSED"} :
        /\ status' = [status EXCEPT ![s] = st]
        /\ st = "HALF_CLOSED" => /\ status[s] = "CONNECTED" /\ events' = events
                                 /\ fd' = [fd EXCEPT ![s] = 0]
        /\ st = "CLOSED" => /\ status[s] = "HALF_CLOSED" /\ fd' = fd
                            /\ events' = [events EXCEPT ![s] = Append(events[s], "close")]
  BY <1>3
<1>5. ObjInv'
  <2>1. st = "CLOSED" \/ fd'[s] = 0
    BY <1>1, <1>4 DEF Types, TypeOK
  <2>2. QED
    BY <1>1, <1>3, <1>4, <2>1, CloseObj DEF Good
<1>6. \A c \in Targets \ {s} : conn'[c] = conn[c]
  BY <1>3 DEF Types
<1>7. TaskInv'
  BY <1>1, <1>3, <1>6, CloseTask DEF Good
<1>8. /\ ~Alive(s)' /\ status'[s] = st
      /\ \A t \in Sockets \ {s} : /\ t \in Targets /\ (Alive(t)' => Alive(t))
                                   /\ status'[t] = status[t] /\ events'[t] = events[t]
  BY <1>1, <1>2, <1>3, <1>4, FdFacts DEF Types, TypeOK, Alive, Targets
<1>9. ASSUME NEW t \in Sockets PROVE ConnOf(t)'
  <2>1. CASE t = s
    <3>1. conn'[s] = NoConn
      BY <1>1, <1>3 DEF Types
    <3>2. conn'[s].net = "none" /\ ~conn'[s].unread /\ ~conn'[s].eof /\ ~conn'[s].err
      BY <3>1 DEF NoConn
    <3>3. QED
      BY <1>8, <2>1, <3>2 DEF ConnOf
  <2>2. CASE t # s
    BY <1>6, <1>8, <2>2, ConnStays DEF Good, ConnInv
  <2>3. QED
    BY <2>1, <2>2
<1>10. ASSUME "threw" \notin seen', NEW t \in Sockets PROVE EventsOf(t)'
  <2>1. EventsOf(t)
    BY <1>3, <1>10 DEF Good, EventsInv
  <2>n. /\ Stage("CONNECTED") = 1 /\ Stage("HALF_CLOSED") = 2 /\ Stage("CLOSED") = 3
        /\ "close" \in LifeEvents /\ Rank("close") = 3
    BY DEF LifeEvents, Rank, Stage
  <2>o. /\ events[t] \in Seq(LifeEvents)
        /\ \A i \in 1 .. Len(events[t]) : Rank(events[t][i]) \in 0 .. 3
    BY ElementOfSeq, RankType DEF Types
  <2>2. CASE t = s /\ st = "HALF_CLOSED"
    <3>1. events'[t] = events[t] /\ status'[t] = "HALF_CLOSED" /\ status[t] = "CONNECTED"
      BY <1>4, <1>8, <2>2
    <3>2. \A i \in 1 .. Len(events[t]) : Rank(events[t][i]) <= 2
      BY <2>1, <2>n, <2>o, <3>1 DEF EventsOf
    <3>3. QED
      BY <2>1, <2>n, <3>1, <3>2 DEF EventsOf
  <2>3. CASE t = s /\ st = "CLOSED"
    <3>1. /\ events'[t] = Append(events[t], "close") /\ status'[t] = "CLOSED"
          /\ status[t] = "HALF_CLOSED"
      BY <1>4, <1>8, <2>3 DEF Types
    <3>2. \A i \in 1 .. Len(events[t]) : Rank(events[t][i]) < 3
      BY SMTT(30), <2>1, <2>n, <2>o, <3>1 DEF EventsOf
    <3>3. QED
      BY <2>1, <2>n, <2>o, <3>1, <3>2, FiresInOrder DEF EventsOf
  <2>4. CASE t # s
    BY <1>6, <1>8, <2>1, <2>4, EventsStay
  <2>5. QED
    BY <2>2, <2>3, <2>4
<1>11. QED
  BY <1>5, <1>7, <1>9, <1>10 DEF Good, ConnInv, EventsInv

LEMMA CloseServerGood ==
  ASSUME Types, Good, NEW v \in Servers, CloseServer(v), Conn(v) # Absent, state' # "stolen"
  PROVE  Good'
<1>1. /\ v \in Targets /\ v \notin Sockets /\ fd[v] \in Fds /\ Open(v)
  <2>1. v \in Targets /\ v \notin Sockets /\ fd[v] \in Fds /\ kfd[fd[v]] # Absent
    BY ReactorAssumption, FdFacts DEF Targets, Conn
  <2>2. status[v] # "CLOSED"
    BY DEF CloseServer
  <2>3. QED
    BY <2>1, <2>2, FdFacts DEF Good, ObjInv, NumberInv, Open
<1>2. kfd[fd[v]] = v
  BY <1>1, OpenFacts DEF Good
<1>3. /\ user /\ reactor_unreg(fd[v]) /\ status' = [status EXCEPT ![v] = "CLOSED"]
      /\ kfd' = [kfd EXCEPT ![fd[v]] = Absent] /\ conn' = [conn EXCEPT ![v] = NoConn]
      /\ seen \subseteq seen' /\ (Pending(fd[v]) => "closed_in_batch" \in seen')
      /\ "threw" \notin seen' => "threw" \notin seen
      /\ UNCHANGED <<fd, batch, step, now, user, closing, events>>
  BY <1>1, <1>2 DEF CloseServer, CloseFd, UserCode, task, Did, Open
<1>4. ObjInv'
  BY <1>1, <1>3, CloseServerObj DEF Good
<1>5. \A c \in Targets \ {v} : conn'[c] = conn[c]
  BY <1>3 DEF Types
<1>6. TaskInv'
  BY <1>1, <1>3, <1>5, CloseServerTask DEF Good
<1>7. \A t \in Sockets : /\ t \in Targets \ {v} /\ (Alive(t)' => Alive(t))
                         /\ status'[t] = status[t] /\ events'[t] = events[t]
  BY <1>1, <1>2, <1>3, FdFacts DEF Types, TypeOK, Alive, Targets
<1>8. ASSUME NEW t \in Sockets PROVE ConnOf(t)'
  BY <1>5, <1>7, ConnStays DEF Good, ConnInv
<1>9. ASSUME "threw" \notin seen', NEW t \in Sockets PROVE EventsOf(t)'
  BY <1>3, <1>5, <1>7, <1>9, EventsStay DEF Good, EventsInv
<1>10. QED
  BY <1>4, <1>6, <1>8, <1>9 DEF Good, ConnInv, EventsInv

LEMMA CloseAgainGood ==
  ASSUME Types, Good, NEW v \in Servers, CloseServer(v), Conn(v) = Absent
  PROVE  Good'
<1>1. /\ fd[v] \in Fds /\ kfd[fd[v]] = Absent /\ reactor_unreg(fd[v])
      /\ seen \subseteq seen'
      /\ \A what : what # "closed_again" /\ what \in seen' => what \in seen
      /\ UNCHANGED <<status, fd, kfd, conn, events>>
  BY CloseAgainFacts DEF Good
<1>2. ObjInv'
  <2>1. \A t \in Targets : Open(t) => fd[t] # fd[v]
    BY <1>1, OpenFacts, FdFacts DEF Good
  <2>2. QED
    BY <1>1, <2>1, UnregObj DEF Good
<1>3. ConnInv' /\ EventsInv'
  BY <1>1, ConnOnly DEF Good
<1>4. \A s \in Sockets : status[s] # "LISTENING"
  BY DEF Good, ConnInv, ConnOf
<1>5. TaskInv'
  BY <1>4, CloseAgainTask DEF Good
<1>6. QED
  BY <1>2, <1>3, <1>5 DEF Good

(* What the kernel reports is of descriptors it has open. *)
LEMMA ReadyFacts ==
  \A e \in Ready : /\ e \in [fd : Fds, in : BOOLEAN, out : BOOLEAN]
                   /\ kfd[e.fd] # Absent
<1>1. \A n \in Fds \ Free : kfd[n] # Absent
  BY DEF Free
<1>2. ASSUME NEW n \in Fds \ Free, NEW in, NEW out, in \in BOOLEAN, out \in BOOLEAN,
             NEW e, e = [fd |-> n, in |-> in, out |-> out]
      PROVE  e \in [fd : Fds, in : BOOLEAN, out : BOOLEAN] /\ kfd[e.fd] # Absent
  BY <1>1, <1>2
<1>3. \A n : Readable(kfd[n]) \in BOOLEAN /\ (kfd[n] \in Sockets) \in BOOLEAN
  <2>1. \A x : Readable(x) \in BOOLEAN
    BY DEF Readable
  <2>2. \A x : (x \in Sockets) \in BOOLEAN
    OBVIOUS
  <2>3. QED
    BY Zenon, <2>1, <2>2
<1>4. ASSUME NEW e \in EpollReady
      PROVE  e \in [fd : Fds, in : BOOLEAN, out : BOOLEAN] /\ kfd[e.fd] # Absent
  <2>1. PICK n \in Fds \ Free : e = [fd |-> n, in |-> Readable(kfd[n]), out |-> kfd[n] \in Sockets]
    BY Zenon DEF EpollReady
  <2>2. QED
    BY Zenon, <1>2, <1>3, <2>1
<1>5. ASSUME NEW e \in KqueueReady
      PROVE  e \in [fd : Fds, in : BOOLEAN, out : BOOLEAN] /\ kfd[e.fd] # Absent
  <2>1. PICK n \in Fds \ Free : \/ e = [fd |-> n, in |-> TRUE, out |-> FALSE]
                               \/ e = [fd |-> n, in |-> FALSE, out |-> TRUE]
    BY Zenon DEF KqueueReady
  <2>2. CASE e = [fd |-> n, in |-> TRUE, out |-> FALSE]
    BY Zenon, <1>2, <2>2
  <2>3. CASE e = [fd |-> n, in |-> FALSE, out |-> TRUE]
    BY Zenon, <1>2, <2>3
  <2>4. QED
    BY Zenon, <2>1, <2>2, <2>3
<1>6. QED
  BY <1>4, <1>5 DEF Ready

LEMMA PollGood ==
  ASSUME Types, Good, Poll
  PROVE  Good'
<1>1. /\ step = "idle" /\ closing = <<>> /\ batch' = Ready
      /\ step' = "dispatch" /\ user' = FALSE
      /\ UNCHANGED <<status, fd, table, kfd, now, freed, closing, events, seen>>
  BY DEF Poll, objects, history
<1>2. \A c \in Targets : \/ conn'[c] = conn[c] \/ conn'[c] = [conn[c] EXCEPT !.edge = FALSE]
  BY DEF Poll
<1>3. \A s \in Sockets : /\ conn'[s].net = conn[s].net /\ conn'[s].eof = conn[s].eof
                         /\ conn'[s].unread = conn[s].unread /\ conn'[s].err = conn[s].err
  <2>1. SUFFICES ASSUME NEW s \in Sockets
                 PROVE  /\ conn'[s].net = conn[s].net /\ conn'[s].eof = conn[s].eof
                        /\ conn'[s].unread = conn[s].unread /\ conn'[s].err = conn[s].err
    OBVIOUS
  <2>2. CASE conn'[s] = conn[s]
    BY <2>2
  <2>3. CASE conn'[s] = [conn[s] EXCEPT !.edge = FALSE]
    <3>1. conn[s] \in Connections
      BY DEF Types, Targets
    <3>2. QED
      BY <2>3, <3>1 DEF Connections
  <2>4. QED
    BY <1>2, <2>2, <2>3 DEF Targets
<1>4. ObjInv'
  BY <1>1, ObjStays DEF Good
<1>5. ConnInv' /\ EventsInv'
  BY <1>1, <1>3, ConnOnly DEF Good
<1>6. NowInv' /\ ReadInv' /\ EndedInv' /\ UnregInv'
  BY <1>1, FdFacts DEF Good, TaskInv, NowInv, ReadInv, EndedInv, UnregInv, T, Targets
<1>7. ClosingInv' /\ BatchInv' /\ ClosedInv'
  <2>1. ClosingInv'
    BY <1>1, EmptySeq DEF ClosingInv
  <2>2. BatchInv'
    BY <1>1, ReadyFacts DEF BatchInv
  <2>3. ClosedInv'
    BY <1>1 DEF Good, TaskInv, ClosedInv, Alive
  <2>4. QED
    BY <2>1, <2>2, <2>3
<1>8. QED
  BY <1>4, <1>5, <1>6, <1>7 DEF Good, TaskInv

LEMMA DispatchGood ==
  ASSUME Types, Good, NEW e \in batch, Dispatch(e)
  PROVE  Good'
<1>1. /\ ~user /\ step = "dispatch" /\ batch' = batch \ {e} /\ e.fd \in Fds
      /\ UNCHANGED <<status, fd, table, user, closing, kfd, conn, events, seen>>
  BY DEF Dispatch, Code, objects, kernel, history, Types, TypeOK
<1>2. ObjInv' /\ ConnInv' /\ EventsInv'
  BY <1>1, ObjStays, ConnOnly DEF Good
<1>3. CASE table[e.fd] # Absent
  <2>1. /\ T' = table[e.fd] /\ freed' = FALSE
        /\ step' \in {"accept", "read", "write"}
    BY <1>3 DEF Dispatch, T
  <2>2. /\ status[table[e.fd]] \notin {"NEW", "NONE"} /\ fd[table[e.fd]] \in {0, e.fd}
    BY <1>1, <1>3 DEF Good, ObjInv, TableInv
  <2>3. NowInv' /\ ReadInv'
    BY <1>1, <2>1, <2>2 DEF NowInv, ReadInv
  <2>4. EndedInv' /\ UnregInv'
    BY <2>1 DEF EndedInv, UnregInv
  <2>5. ClosingInv'
    BY <1>1, EmptySeq DEF Good, TaskInv, ClosingInv
  <2>6. BatchInv'
    BY <1>1 DEF Good, TaskInv, BatchInv
  <2>7. ClosedInv'
    BY <1>1 DEF Good, TaskInv, ClosedInv, Alive
  <2>8. QED
    BY <1>2, <2>3, <2>4, <2>5, <2>6, <2>7 DEF Good, TaskInv
<1>4. CASE table[e.fd] = Absent
  <2>1. UNCHANGED <<step, now, freed>>
    BY <1>4 DEF Dispatch
  <2>2. T' = T /\ T = Absent
    BY <1>1, <2>1 DEF Good, TaskInv, NowInv, T
  <2>3. TaskInv'
    BY <1>1, <2>1, <2>2, GoesTask DEF Good
  <2>4. QED
    BY <1>2, <2>3 DEF Good
<1>5. QED
  BY <1>3, <1>4

LEMMA BatchEndGood ==
  ASSUME Types, Good, BatchEnd
  PROVE  Good'
<1>1. /\ ~user /\ step = "dispatch" /\ step' = "idle" /\ T' = T /\ user' = TRUE
      /\ UNCHANGED <<status, fd, table, batch, freed, closing, kfd, conn, events, seen>>
  BY DEF BatchEnd, Code, objects, kernel, history, T
<1>2. ObjInv' /\ ConnInv' /\ EventsInv'
  BY <1>1, ObjStays, ConnOnly DEF Good
<1>3. T = Absent
  BY <1>1 DEF Good, TaskInv, NowInv
<1>4. TaskInv'
  BY <1>1, <1>3, GoesTask DEF Good
<1>5. QED
  BY <1>2, <1>4 DEF Good

LEMMA EscapesGood ==
  ASSUME Types, Good, Escapes, UNCHANGED <<status, fd, table, kfd, events>>,
         \A s \in Sockets :
           /\ conn'[s].net = conn[s].net /\ conn'[s].eof = conn[s].eof
           /\ conn'[s].unread => conn[s].unread
           /\ conn'[s].err => conn[s].err
  PROVE  Good'
<1>1. seen \subseteq seen'
  BY DEF Escapes
<1>2. ObjInv'
  BY <1>1, ObjStays DEF Good
<1>3. ConnInv' /\ EventsInv'
  BY <1>1, ConnOnly DEF Good
<1>4. QED
  BY <1>2, <1>3, EscapesTask DEF Good

LEMMA ThrowsGood ==
  ASSUME Types, Good, ReadThrows \/ FlushThrows \/ AcceptThrows
  PROVE  Good'
<1> DEFINE c == Conn(T)
<1>1. /\ \/ conn' = conn
         \/ conn' = [conn EXCEPT ![c].unread = FALSE, ![c].err = FALSE]
         \/ conn' = [conn EXCEPT ![c].err = FALSE]
      /\ Escapes /\ UNCHANGED <<status, fd, table, kfd, events>>
  BY DEF ReadThrows, FlushThrows, AcceptThrows, objects, kernel, T
<1> HIDE DEF c
<1>2. \A s \in Sockets :
        /\ conn'[s].net = conn[s].net /\ conn'[s].eof = conn[s].eof
        /\ conn'[s].unread => conn[s].unread
        /\ conn'[s].err => conn[s].err
  BY SMTT(30), <1>1 DEF Types, Connections, Targets
<1>3. QED
  BY <1>1, <1>2, EscapesGood

(* The socket whose read loop runs has its own descriptor, if any. *)
LEMMA ReadFacts ==
  ASSUME Types, Good, step = "read", Conn(T) # Absent
  PROVE  /\ ~user /\ ~freed /\ T \in Sockets /\ T \in Targets /\ T # Absent
         /\ fd[T] \in Fds /\ table[fd[T]] = T /\ kfd[fd[T]] = T
         /\ Conn(T) = T /\ Alive(T)
<1>1. /\ ~user /\ ~freed /\ T \in Sockets /\ T \in Targets /\ T # Absent
  BY FdFacts DEF Types, TypeOK, Good, TaskInv, ReadInv, T, Targets
<1>2. fd[T] \in Fds /\ kfd[fd[T]] # Absent
  BY DEF Conn
<1>3. table[fd[T]] = T
  BY <1>2, FdFacts DEF Good, TaskInv, ReadInv
<1>4. kfd[fd[T]] = T
  BY <1>1, <1>2, <1>3 DEF Good, ObjInv, TableInv
<1>5. QED
  BY <1>1, <1>2, <1>3, <1>4 DEF Conn, Alive

LEMMA GoesFacts ==
  ASSUME NEW st, Goes(st)
  PROVE  step' = st /\ T' = IF st = "dispatch" THEN Absent ELSE T
BY DEF Goes, NoEvent, T

LEMMA ReadGood ==
  ASSUME Types, Good, Read
  PROVE  Good'
<1>1. /\ step = "read" /\ Conn(T) # Absent
      /\ conn' = [conn EXCEPT ![Conn(T)].unread = FALSE] /\ user' = conn[Conn(T)].unread
      /\ Goes(IF conn[Conn(T)].eof THEN "ended" ELSE AfterRead)
      /\ UNCHANGED <<status, fd, table, batch, freed, closing, kfd, events, seen>>
  BY DEF Read, CanRead, objects, history, T
<1>2. /\ ~user /\ ~freed /\ T \in Sockets /\ T \in Targets /\ T # Absent
      /\ fd[T] \in Fds /\ table[fd[T]] = T /\ kfd[fd[T]] = T
      /\ Conn(T) = T /\ Alive(T)
  BY <1>1, ReadFacts
<1>3. /\ \A s \in Sockets :
           /\ conn'[s].net = conn[s].net /\ conn'[s].eof = conn[s].eof
           /\ conn'[s].unread => conn[s].unread
           /\ conn'[s].err => conn[s].err
      /\ conn'[T].eof = conn[T].eof /\ ~conn'[T].unread
  BY <1>1, <1>2 DEF Types, Connections, Targets
<1>4. ObjInv' /\ ConnInv' /\ EventsInv'
  BY <1>1, <1>3, ObjStays, ConnOnly DEF Good
<1>5. CASE conn[T].eof
  <2>1. step' = "ended" /\ T' = T
    BY <1>1, <1>2, <1>5, GoesFacts
  <2>2. NowInv' /\ ReadInv' /\ UnregInv'
    BY <1>1, <1>2, <2>1 DEF Good, TaskInv, NowInv, ReadInv, UnregInv
  <2>3. user' => status[T] \in {"IDLE", "CONNECTING", "CONNECTED"}
    <3>1. SUFFICES ASSUME conn[T].unread
                   PROVE  status[T] \in {"IDLE", "CONNECTING", "CONNECTED"}
      BY <1>1, <1>2
    <3>2. status[T] \notin {"HALF_CLOSED", "CLOSED", "LISTENING"}
      BY <1>2, <3>1 DEF Good, ConnInv, ConnOf
    <3>3. status[T] \notin {"NEW", "NONE"}
      BY <1>2 DEF Good, TaskInv, NowInv
    <3>4. QED
      BY <1>2, <3>2, <3>3 DEF Types, TypeOK
  <2>4. "threw" \notin seen => status[T] # "CLOSED"
    BY <1>1, <1>2 DEF Good, TaskInv, ClosedInv
  <2>5. EndedInv'
    <3>1. Alive(T)' /\ fd[T] # 0
      BY <1>1, <1>2, FdFacts, <2>1 DEF Alive
    <3>2. QED
      BY <1>1, <1>2, <1>3, <1>5, <2>1, <2>3, <2>4, <3>1 DEF EndedInv
  <2>6. ClosingInv'
    BY <1>1, <1>2, EmptySeq DEF Good, TaskInv, ClosingInv
  <2>7. BatchInv'
    BY <1>1 DEF Good, TaskInv, BatchInv
  <2>8. ClosedInv'
    BY <1>1 DEF Good, TaskInv, ClosedInv, Alive
  <2>9. QED
    BY <1>4, <2>2, <2>5, <2>6, <2>7, <2>8 DEF Good, TaskInv
<1>6. CASE ~conn[T].eof
  <2>1. step' = AfterRead /\ AfterRead \in {"write", "dispatch"}
        /\ T' = IF AfterRead = "dispatch" THEN Absent ELSE T
    BY <1>1, <1>2, <1>6, GoesFacts DEF AfterRead
  <2>2. TaskInv'
    BY <1>1, <1>2, <2>1, GoesTask DEF Good
  <2>3. QED
    BY <1>4, <2>2 DEF Good
<1>7. QED
  BY <1>5, <1>6

LEMMA EndedGood ==
  ASSUME Types, Good, Ended
  PROVE  Good'
<1>1. /\ step = "ended" /\ ~freed /\ ~user /\ user' = TRUE
      /\ UNCHANGED <<fd, table, batch, freed, closing, kfd, conn, seen>>
      /\ \/ /\ status[T] = "HALF_CLOSED" /\ status' = [status EXCEPT ![T] = "CLOSED"]
            /\ Goes("unreg") /\ events' = [events EXCEPT ![T] = Append(events[T], "close")]
         \/ /\ status[T] # "HALF_CLOSED" /\ status' = [status EXCEPT ![T] = "HALF_CLOSED"]
            /\ Goes(AfterRead) /\ events' = [events EXCEPT ![T] = Append(events[T], "end")]
  BY DEF Ended, Code, kernel, T, Fires
<1>2. T \in Sockets /\ T \in Targets /\ T # Absent /\ status[T] \notin {"NEW", "NONE"}
  BY <1>1, FdFacts DEF Types, TypeOK, Good, TaskInv, NowInv, T, Targets
<1>3. /\ fd[T] = 0 => status[T] = "HALF_CLOSED"
      /\ fd[T] # 0 => Alive(T) /\ table[fd[T]] = T /\ conn[T].eof /\ ~conn[T].unread
      /\ "threw" \notin seen => status[T] # "CLOSED"
  BY <1>1 DEF Good, TaskInv, EndedInv
<1>4. PICK st \in {"HALF_CLOSED", "CLOSED"} :
        /\ status' = [status EXCEPT ![T] = st]
        /\ st = "CLOSED" => /\ status[T] = "HALF_CLOSED" /\ step' = "unreg" /\ T' = T
                            /\ events' = [events EXCEPT ![T] = Append(events[T], "close")]
        /\ st = "HALF_CLOSED" =>
             /\ status[T] # "HALF_CLOSED" /\ step' \in {"write", "dispatch"}
             /\ T' = (IF step' = "dispatch" THEN Absent ELSE T)
             /\ events' = [events EXCEPT ![T] = Append(events[T], "end")]
  <2>1. AfterRead \in {"write", "dispatch"}
    BY DEF AfterRead
  <2>2. Goes("unreg") => step' = "unreg" /\ T' = T
    BY GoesFacts
  <2>3. Goes(AfterRead) => step' = AfterRead /\ T' = IF AfterRead = "dispatch" THEN Absent ELSE T
    BY GoesFacts
  <2>4. QED
    BY <1>1, <2>1, <2>2, <2>3
<1>5. ObjInv'
  BY <1>1, <1>2, <1>3, <1>4, StatusObj DEF Good
<1>6. /\ status'[T] = st
      /\ \A s : Alive(s)' <=> Alive(s)
      /\ \A s \in Targets \ {T} : status'[s] = status[s]
  BY <1>1, <1>2, <1>4 DEF Types, TypeOK, Alive
<1>7. TaskInv'
  <2>1. NowInv'
    BY <1>1, <1>2, <1>4, <1>6 DEF Good, TaskInv, NowInv
  <2>2. ReadInv' /\ EndedInv'
    BY <1>4 DEF ReadInv, EndedInv
  <2>3. UnregInv'
    BY <1>1, <1>3, <1>4, <1>6 DEF UnregInv
  <2>4. ClosingInv'
    BY <1>1, EmptySeq DEF Good, TaskInv, ClosingInv
  <2>5. BatchInv'
    BY <1>1 DEF Good, TaskInv, BatchInv
  <2>6. ClosedInv'
    <3>1. SUFFICES ASSUME "threw" \notin seen, NEW s \in Sockets, status'[s] = "CLOSED", Alive(s)
                   PROVE  (step' = "unreg" /\ T' = s) \/ table[fd[s]] # s
      BY <1>1, <1>6 DEF ClosedInv
    <3>2. CASE s = T
      BY <1>4, <1>6, <3>1, <3>2
    <3>3. CASE s # T
      BY <1>1, <1>6, <3>1, <3>3 DEF Good, TaskInv, ClosedInv, Targets
    <3>4. QED
      BY <3>2, <3>3
  <2>7. QED
    BY <2>1, <2>2, <2>3, <2>4, <2>5, <2>6 DEF TaskInv
<1>8. ASSUME NEW s \in Sockets PROVE ConnOf(s)'
  <2>1. CASE s = T
    <3>1. Alive(T) => fd[T] # 0
      BY FdFacts DEF Alive
    <3>2. QED
      BY <1>1, <1>3, <1>6, <2>1, <3>1 DEF Good, ConnInv, ConnOf
  <2>2. CASE s # T
    BY <1>1, <1>6, <2>2, ConnStays DEF Good, ConnInv, Targets
  <2>3. QED
    BY <2>1, <2>2
<1>9. ASSUME "threw" \notin seen', NEW s \in Sockets PROVE EventsOf(s)'
  <2>1. EventsOf(s)
    BY <1>1, <1>9 DEF Good, EventsInv
  <2>n. /\ \A x : x \in {"IDLE", "LISTENING", "CONNECTING"} => Stage(x) = 0
        /\ Stage("CONNECTED") = 1 /\ Stage("HALF_CLOSED") = 2 /\ Stage("CLOSED") = 3
        /\ "close" \in LifeEvents /\ Rank("close") = 3
        /\ "end" \in LifeEvents /\ Rank("end") = 2
    BY DEF LifeEvents, Rank, Stage
  <2>o. /\ events[s] \in Seq(LifeEvents)
        /\ \A i \in 1 .. Len(events[s]) : Rank(events[s][i]) \in 0 .. 3
    BY ElementOfSeq, RankType DEF Types
  <2>2. CASE s = T /\ st = "HALF_CLOSED"
    <3>1. /\ events'[s] = Append(events[s], "end") /\ status'[s] = "HALF_CLOSED"
          /\ status[s] \in {"IDLE", "LISTENING", "CONNECTING", "CONNECTED"}
      BY <1>1, <1>2, <1>3, <1>4, <1>6, <1>9, <2>2 DEF Types, TypeOK
    <3>2. \A i \in 1 .. Len(events[s]) : Rank(events[s][i]) < 2
      <4>1. Stage(status[s]) \in {0, 1}
        BY <2>n, <3>1
      <4>2. QED
        BY <2>1, <2>o, <4>1 DEF EventsOf
    <3>3. QED
      BY <2>1, <2>n, <2>o, <3>1, <3>2, FiresInOrder DEF EventsOf
  <2>3. CASE s = T /\ st = "CLOSED"
    <3>1. /\ events'[s] = Append(events[s], "close") /\ status'[s] = "CLOSED"
          /\ status[s] = "HALF_CLOSED"
      BY <1>4, <1>6, <2>3 DEF Types
    <3>2. \A i \in 1 .. Len(events[s]) : Rank(events[s][i]) < 3
      BY SMTT(30), <2>1, <2>n, <2>o, <3>1 DEF EventsOf
    <3>3. QED
      BY <2>1, <2>n, <2>o, <3>1, <3>2, FiresInOrder DEF EventsOf
  <2>4. CASE s # T
    <3>1. events'[s] = events[s] /\ status'[s] = status[s]
      BY <1>4, <1>6, <2>4 DEF Types, Targets
    <3>2. QED
      BY <1>1, <2>1, <3>1, EventsStay
  <2>5. QED
    BY <2>2, <2>3, <2>4
<1>10. QED
  BY <1>5, <1>7, <1>8, <1>9 DEF Good, ConnInv, EventsInv

LEMMA UnregisterGood ==
  ASSUME Types, Good, Unregister
  PROVE  Good'
<1>1. /\ step = "unreg" /\ ~user /\ reactor_unreg(fd[T]) /\ Goes(AfterRead)
      /\ UNCHANGED <<status, fd, batch, user, closing, kfd, conn, events, seen>>
  BY DEF Unregister, Code, kernel, history, T
<1>2. /\ T \in Sockets /\ T \in Targets /\ T # Absent /\ status[T] = "CLOSED"
      /\ fd[T] = 0 \/ Alive(T)
  BY <1>1, FdFacts DEF Types, TypeOK, Good, TaskInv, UnregInv, T, Targets
<1>3. /\ \A m \in Fds : table'[m] = IF m = fd[T] THEN Absent ELSE table[m]
      /\ freed' <=> (freed \/ (T # Absent /\ fd[T] \in Fds /\ table[fd[T]] = T))
  BY <1>1, UnregFacts
<1>4. ObjInv'
  <2>1. ASSUME NEW t \in Targets, Open(t) PROVE fd[t] # fd[T]
    BY <1>2, <2>1 DEF Open, Alive, Good, ObjInv, Owned
  <2>2. QED
    BY <1>1, <2>1, UnregObj DEF Good
<1>5. ConnInv' /\ EventsInv'
  BY <1>1, ConnOnly DEF Good
<1>6. step' \in {"write", "dispatch"} /\ T' = IF step' = "dispatch" THEN Absent ELSE T
  BY <1>1, GoesFacts DEF AfterRead
<1>7. TaskInv'
  <2>1. NowInv'
    BY <1>1, <1>2, <1>6, FdFacts DEF NowInv, Targets, Open
  <2>2. ReadInv' /\ EndedInv' /\ UnregInv'
    BY <1>6 DEF ReadInv, EndedInv, UnregInv
  <2>3. ClosingInv'
    BY <1>1, EmptySeq DEF Good, TaskInv, ClosingInv
  <2>4. BatchInv'
    BY <1>1 DEF Good, TaskInv, BatchInv
  <2>5. ClosedInv'
    <3>1. SUFFICES ASSUME "threw" \notin seen, NEW s \in Sockets, status[s] = "CLOSED", Alive(s)
                   PROVE  table'[fd[s]] # s
      BY <1>1 DEF ClosedInv, Alive
    <3>2. fd[s] \in Fds /\ s # Absent
      BY <3>1, FdFacts DEF Alive, Targets
    <3>3. T = s \/ table[fd[s]] # s
      BY <3>1 DEF Good, TaskInv, ClosedInv
    <3>4. QED
      BY <1>3, <3>2, <3>3
  <2>6. QED
    BY <2>1, <2>2, <2>3, <2>4, <2>5 DEF TaskInv
<1>8. QED
  BY <1>4, <1>5, <1>7 DEF Good

LEMMA ConnectedGood ==
  ASSUME Types, Good, Connected
  PROVE  Good'
<1> DEFINE failed == Conn(T) = Absent \/ conn[Conn(T)].err
<1>1. /\ step = "write" /\ ~user /\ status[T] = "CONNECTING" /\ ~freed
      /\ status' = [status EXCEPT ![T] = IF failed THEN status[T] ELSE "CONNECTED"]
      /\ conn' = IF Conn(T) = Absent THEN conn ELSE [conn EXCEPT ![Conn(T)].err = FALSE]
      /\ events' = [events EXCEPT ![T] = Append(events[T], IF failed THEN "error" ELSE "connect")]
      /\ Goes("dispatch") /\ user' = TRUE
      /\ UNCHANGED <<fd, table, batch, freed, closing, kfd, seen>>
  BY DEF Connected, Code, T, Fires
<1>2. T \in Sockets /\ T \in Targets /\ T # Absent /\ Open(T) /\ fd[T] # 0
  BY <1>1, FdFacts DEF Types, TypeOK, Good, ObjInv, NumberInv, Open, T, Targets
<1>3. Conn(T) = T
  BY <1>2, OpenFacts DEF Good
<1>4. /\ conn' = [conn EXCEPT ![T].err = FALSE] /\ (failed <=> conn[T].err)
      /\ step' = "dispatch" /\ T' = Absent
  BY <1>1, <1>2, <1>3, GoesFacts
<1> HIDE DEF failed
<1>5. PICK st \in {"CONNECTING", "CONNECTED"} :
        /\ status' = [status EXCEPT ![T] = st]
        /\ st = "CONNECTING" => /\ conn[T].err
                                /\ events' = [events EXCEPT ![T] = Append(events[T], "error")]
        /\ st = "CONNECTED" => /\ ~conn[T].err
                               /\ events' = [events EXCEPT ![T] = Append(events[T], "connect")]
  BY <1>1, <1>4
<1>6. \A s \in Sockets :
        /\ conn'[s].net = conn[s].net /\ conn'[s].eof = conn[s].eof
        /\ conn'[s].unread = conn[s].unread
        /\ conn'[s].err => conn[s].err
  BY <1>2, <1>4 DEF Types, Connections, Targets
<1>7. ~conn'[T].err
  BY <1>2, <1>4 DEF Types, Connections
<1>8. ObjInv'
  BY <1>1, <1>2, <1>5, StatusObj DEF Good
<1>9. /\ status'[T] = st
      /\ \A s : Alive(s)' <=> Alive(s)
      /\ \A s \in Targets \ {T} : status'[s] = status[s]
  BY <1>1, <1>2, <1>5 DEF Types, TypeOK, Alive
<1>10. TaskInv'
  <2>1. NowInv' /\ ReadInv' /\ EndedInv' /\ UnregInv'
    BY <1>4, FdFacts DEF NowInv, ReadInv, EndedInv, UnregInv, Targets
  <2>2. ClosingInv'
    BY <1>1, EmptySeq DEF Good, TaskInv, ClosingInv
  <2>3. BatchInv'
    BY <1>1 DEF Good, TaskInv, BatchInv
  <2>4. ClosedInv'
    BY <1>1, <1>2, <1>9 DEF Good, TaskInv, ClosedInv, Targets
  <2>5. QED
    BY <2>1, <2>2, <2>3, <2>4 DEF TaskInv
<1>11. ASSUME NEW s \in Sockets PROVE ConnOf(s)'
  <2>1. CASE s = T
    <3>1. conn'[s].net \in {"none", "syn"} =>
            ~conn'[s].unread /\ ~conn'[s].eof
      BY <1>6 DEF Good, ConnInv, ConnOf
    <3>2. QED
      BY <1>7, <1>9, <2>1, <3>1 DEF ConnOf
  <2>2. CASE s # T
    BY <1>6, <1>9, <2>2, ConnStays DEF Good, ConnInv, Targets
  <2>3. QED
    BY <2>1, <2>2
<1>12. ASSUME "threw" \notin seen', NEW s \in Sockets PROVE EventsOf(s)'
  <2>1. EventsOf(s)
    BY <1>1, <1>12 DEF Good, EventsInv
  <2>n. /\ Stage("CONNECTING") = 0 /\ Stage("CONNECTED") = 1
        /\ "error" \in LifeEvents /\ Rank("error") = 0
        /\ "connect" \in LifeEvents /\ Rank("connect") = 1
    BY DEF LifeEvents, Rank, Stage
  <2>o. /\ events[s] \in Seq(LifeEvents)
        /\ \A i \in 1 .. Len(events[s]) : Rank(events[s][i]) \in 0 .. 3
    BY ElementOfSeq, RankType DEF Types
  <2>2. CASE s = T /\ st = "CONNECTING"
    <3>1. /\ events'[s] = Append(events[s], "error") /\ status'[s] = "CONNECTING"
          /\ status[s] = "CONNECTING" /\ conn[s].err
      BY <1>1, <1>5, <1>9, <2>2 DEF Types
    <3>2. events[s] = <<>> /\ conn[s].net \in {"failed", "reset"}
      BY <2>1, <3>1 DEF EventsOf, Good, ConnInv, ConnOf
    <3>3. \A i \in 1 .. Len(events[s]) : Rank(events[s][i]) < 0
      BY <3>2, EmptySeq
    <3>4. conn'[s].net \in {"failed", "reset"} /\ ~conn'[s].err
      BY <1>6, <1>7, <2>2, <3>2
    <3>5. QED
      BY <2>1, <2>n, <2>o, <3>1, <3>3, <3>4, FiresInOrder DEF EventsOf
  <2>3. CASE s = T /\ st = "CONNECTED"
    <3>1. /\ events'[s] = Append(events[s], "connect") /\ status'[s] = "CONNECTED"
          /\ status[s] = "CONNECTING"
      BY <1>1, <1>5, <1>9, <2>3 DEF Types
    <3>2. \A i \in 1 .. Len(events[s]) : Rank(events[s][i]) < 1
      BY SMTT(30), <2>1, <2>n, <2>o, <3>1 DEF EventsOf
    <3>3. QED
      BY <2>1, <2>n, <2>o, <3>1, <3>2, FiresInOrder DEF EventsOf
  <2>4. CASE s # T
    <3>1. events'[s] = events[s] /\ status'[s] = status[s]
      BY <1>5, <1>9, <2>4 DEF Types, Targets
    <3>2. QED
      BY <1>6, <2>1, <3>1, EventsStay
  <2>5. QED
    BY <2>2, <2>3, <2>4
<1>13. QED
  BY <1>8, <1>10, <1>11, <1>12 DEF Good, ConnInv, EventsInv

LEMMA DispatchesGood ==
  ASSUME Types, Good, Flush \/ AcceptEnd
  PROVE  Good'
<1>1. /\ step \in {"write", "accept"} /\ ~user /\ Goes("dispatch")
      /\ UNCHANGED <<status, fd, table, batch, freed, user, closing, kfd, conn, events, seen>>
  BY DEF Flush, AcceptEnd, Code, objects, kernel, history
<1>2. step' = "dispatch" /\ T' = Absent
  BY <1>1, GoesFacts
<1>3. ObjInv' /\ ConnInv' /\ EventsInv'
  BY <1>1, ObjStays, ConnOnly DEF Good
<1>4. TaskInv'
  BY <1>1, <1>2, GoesTask DEF Good
<1>5. QED
  BY <1>3, <1>4 DEF Good

LEMMA UseFreedGood ==
  ASSUME Types, Good, UseFreed
  PROVE  Good'
<1>1. UNCHANGED <<status, fd, table, batch, step, now, freed, user, closing, kfd, conn, events, seen>>
  BY DEF UseFreed, objects, task, kernel, history
<1>2. ObjInv' /\ ConnInv' /\ EventsInv'
  BY <1>1, ObjStays, ConnOnly DEF Good
<1>3. step = "ended" /\ fd[T] # 0 => conn'[T].eof /\ ~conn'[T].unread
  BY <1>1 DEF Good, TaskInv, EndedInv
<1>4. TaskInv'
  BY <1>1, <1>3, TaskStays DEF Good
<1>5. QED
  BY <1>2, <1>4 DEF Good

LEMMA ReturnsGood ==
  ASSUME Types, Good, HandlerReturns
  PROVE  Good'
<1>1. user /\ UNCHANGED <<status, fd, batch, step, now, kfd, conn, events, seen>>
  BY DEF HandlerReturns, UserCode, task, kernel, history
<1>2. ConnInv' /\ EventsInv'
  BY <1>1, ConnOnly DEF Good
<1>3. CASE /\ closing # <<>> /\ reactor_unreg(fd[Last(closing)])
           /\ closing' = Front(closing) /\ UNCHANGED user
  <2>1. ObjInv'
    <3>1. /\ "opened_in_close" \notin seen => kfd[fd[Last(closing)]] = Absent
      BY <1>3, FrontFacts DEF Good, TaskInv, ClosingInv
    <3>2. ASSUME "opened_in_close" \notin seen, NEW t \in Targets, Open(t)
          PROVE  fd[t] # fd[Last(closing)]
      BY <3>1, <3>2, FdFacts, OpenFacts DEF Good
    <3>3. QED
      BY <1>1, <1>3, <3>2, UnregObj DEF Good
  <2>2. TaskInv'
    BY <1>1, <1>3, CloseReturnsTask DEF Good
  <2>3. QED
    BY <1>2, <2>1, <2>2 DEF Good
<1>4. CASE closing = <<>> /\ step # "idle" /\ user' = FALSE /\ UNCHANGED <<table, freed, closing>>
  <2>1. ObjInv'
    BY <1>1, <1>4, ObjStays DEF Good
  <2>2. NowInv' /\ ReadInv'
    BY <1>1, <1>4 DEF Good, TaskInv, NowInv, ReadInv, T, Open
  <2>3. EndedInv' /\ UnregInv'
    BY <1>1, <1>4 DEF Good, TaskInv, EndedInv, UnregInv, T, Alive
  <2>4. ClosingInv'
    BY <1>4, EmptySeq DEF ClosingInv
  <2>5. BatchInv' /\ ClosedInv'
    BY <1>1, <1>4 DEF Good, TaskInv, BatchInv, ClosedInv, T, Alive
  <2>6. QED
    BY <1>2, <2>1, <2>2, <2>3, <2>4, <2>5 DEF Good, TaskInv
<1>5. QED
  BY <1>3, <1>4 DEF HandlerReturns

LEMMA HandlerThrowsGood ==
  ASSUME Types, Good, HandlerThrows
  PROVE  Good'
<1>1. user /\ UNCHANGED <<status, fd, table, freed, kfd, conn, events>>
  BY DEF HandlerThrows, UserCode, objects, kernel
<1>2. CASE closing # <<>> /\ closing' = Front(closing) /\ UNCHANGED <<task, user, seen>>
  <2>1. ObjInv' /\ ConnInv' /\ EventsInv'
    BY <1>1, <1>2, ObjStays, ConnOnly DEF Good
  <2>2. TaskInv'
    BY <1>1, <1>2, CloseThrowsTask DEF Good, task
  <2>3. QED
    BY <2>1, <2>2 DEF Good
<1>3. CASE Escapes
  BY <1>1, <1>3, EscapesGood
<1>4. QED
  BY <1>2, <1>3 DEF HandlerThrows

(* The network changes one connection, of a socket only while it is there. *)
LEMMA HappensGood ==
  ASSUME Types, Good, NEW c \in Targets, NEW to \in Connections,
         conn' = [conn EXCEPT ![c] = to],
         UNCHANGED <<objects, task, freed, user, closing, kfd, history>>,
         c \in Sockets =>
           /\ conn[c].net \in {"syn", "up"} /\ to.net \in {"up", "failed", "reset"}
           /\ to.err => to.net \in {"failed", "reset"}
           /\ conn[c].eof => to.eof /\ (to.unread => conn[c].unread)
  PROVE  Good'
<1>1. UNCHANGED <<status, fd, table, batch, step, now, freed, user, closing, kfd, events, seen>>
  BY DEF objects, task, history
<1>2. ObjInv'
  BY <1>1, ObjStays DEF Good
<1>3. conn'[c] = to /\ \A s \in Targets \ {c} : conn'[s] = conn[s]
  BY DEF Types
<1>4. TaskInv'
  <2>1. step = "ended" /\ fd[T] # 0 => conn'[T].eof /\ ~conn'[T].unread
    <3>1. SUFFICES ASSUME step = "ended", fd[T] # 0
                   PROVE  conn'[T].eof /\ ~conn'[T].unread
      OBVIOUS
    <3>2. T \in Sockets /\ T \in Targets /\ conn[T].eof /\ ~conn[T].unread
      BY <3>1 DEF Good, TaskInv, EndedInv, Types, TypeOK, T, Targets
    <3>3. QED
      BY <1>3, <3>2
  <2>2. QED
    BY <1>1, <2>1, TaskStays DEF Good
<1>5. \A s : Alive(s)' => Alive(s)
  BY <1>1 DEF Alive
<1>6. ASSUME NEW s \in Sockets PROVE ConnOf(s)'
  <2>1. CASE s = c
    BY <1>1, <1>3, <1>5, <2>1 DEF Good, ConnInv, ConnOf
  <2>2. CASE s # c
    BY <1>1, <1>3, <1>5, <2>2, ConnStays DEF Good, ConnInv, Targets
  <2>3. QED
    BY <2>1, <2>2
<1>7. ASSUME "threw" \notin seen', NEW s \in Sockets PROVE EventsOf(s)'
  <2>1. EventsOf(s)
    BY <1>1, <1>7 DEF Good, EventsInv
  <2>2. CASE s = c
    <3>1. status[s] = "CONNECTING" => events[s] = <<>>
      BY <2>1, <2>2 DEF EventsOf
    <3>2. QED
      BY <1>1, <1>3, <2>1, <2>2, <3>1 DEF EventsOf
  <2>3. CASE s # c
    BY <1>1, <1>3, <2>1, <2>3, EventsStay DEF Targets
  <2>4. QED
    BY <2>2, <2>3
<1>8. QED
  BY <1>2, <1>4, <1>6, <1>7 DEF Good, ConnInv, EventsInv

LEMMA NetworkGood ==
  ASSUME Types, Good, Network
  PROVE  Good'
<1>1. Edge \in BOOLEAN
  BY DEF Edge
<1>2. ASSUME NEW s \in Sockets,
             ConnectEnds(s) \/ PeerSends(s) \/ PeerEnds(s) \/ PeerResets(s) \/ SpaceFreed(s)
      PROVE  Good'
  <2>1. conn[s] \in Connections /\ s \in Targets
    BY DEF Types, Targets
  <2>2. conn[s].net \in {"syn", "up"} => ~conn[s].err
    BY DEF Good, ConnInv, ConnOf
  <2>3. CASE conn[s].net = "syn" /\ Happens(s, [conn[s] EXCEPT !.net = "up"])
    <3> DEFINE to == [conn[s] EXCEPT !.net = "up", !.edge = Edge]
    <3>1. conn' = [conn EXCEPT ![s] = to] /\ conn[s].net = "syn"
          /\ UNCHANGED <<objects, task, freed, user, closing, kfd, history>>
      BY <1>1, <2>1, <2>3 DEF Happens, Connections
    <3>2. to \in Connections
      BY <1>1, <2>1 DEF Connections
    <3>3. /\ to.net \in {"up", "failed", "reset"} /\ (to.err => to.net \in {"failed", "reset"})
          /\ conn[s].eof => to.eof /\ (to.unread => conn[s].unread)
      BY <1>1, <2>1, <2>2, <3>1 DEF Connections
    <3> HIDE DEF to
    <3>4. QED
      BY <2>1, <3>1, <3>2, <3>3, HappensGood
  <2>4. CASE /\ conn[s].net = "syn"
            /\ Happens(s, [conn[s] EXCEPT !.net = "failed", !.eof = TRUE, !.err = TRUE])
    <3> DEFINE to == [conn[s] EXCEPT !.net = "failed", !.eof = TRUE, !.err = TRUE, !.edge = Edge]
    <3>1. conn' = [conn EXCEPT ![s] = to] /\ conn[s].net = "syn"
          /\ UNCHANGED <<objects, task, freed, user, closing, kfd, history>>
      BY <1>1, <2>1, <2>4 DEF Happens, Connections
    <3>2. to \in Connections
      BY <1>1, <2>1 DEF Connections
    <3>3. /\ to.net \in {"up", "failed", "reset"} /\ (to.err => to.net \in {"failed", "reset"})
          /\ conn[s].eof => to.eof /\ (to.unread => conn[s].unread)
      BY <1>1, <2>1, <2>2, <3>1 DEF Connections
    <3> HIDE DEF to
    <3>4. QED
      BY <2>1, <3>1, <3>2, <3>3, HappensGood
  <2>5. CASE PeerSends(s)
    <3> DEFINE to == [conn[s] EXCEPT !.unread = TRUE, !.edge = Edge]
    <3>1. conn' = [conn EXCEPT ![s] = to] /\ conn[s].net = "up" /\ ~conn[s].eof
          /\ UNCHANGED <<objects, task, freed, user, closing, kfd, history>>
      BY <1>1, <2>1, <2>5 DEF PeerSends, Happens, Connections
    <3>2. to \in Connections
      BY <1>1, <2>1 DEF Connections
    <3>3. /\ to.net \in {"up", "failed", "reset"} /\ (to.err => to.net \in {"failed", "reset"})
          /\ conn[s].eof => to.eof /\ (to.unread => conn[s].unread)
      BY <1>1, <2>1, <2>2, <3>1 DEF Connections
    <3> HIDE DEF to
    <3>4. QED
      BY <2>1, <3>1, <3>2, <3>3, HappensGood
  <2>6. CASE PeerEnds(s)
    <3> DEFINE to == [conn[s] EXCEPT !.eof = TRUE, !.edge = Edge]
    <3>1. conn' = [conn EXCEPT ![s] = to] /\ conn[s].net = "up" /\ ~conn[s].eof
          /\ UNCHANGED <<objects, task, freed, user, closing, kfd, history>>
      BY <1>1, <2>1, <2>6 DEF PeerEnds, Happens, Connections
    <3>2. to \in Connections
      BY <1>1, <2>1 DEF Connections
    <3>3. /\ to.net \in {"up", "failed", "reset"} /\ (to.err => to.net \in {"failed", "reset"})
          /\ conn[s].eof => to.eof /\ (to.unread => conn[s].unread)
      BY <1>1, <2>1, <2>2, <3>1 DEF Connections
    <3> HIDE DEF to
    <3>4. QED
      BY <2>1, <3>1, <3>2, <3>3, HappensGood
  <2>7. CASE PeerResets(s)
    <3> DEFINE to == [conn[s] EXCEPT !.net = "reset", !.eof = TRUE, !.err = TRUE, !.edge = Edge]
    <3>1. conn' = [conn EXCEPT ![s] = to] /\ conn[s].net = "up"
          /\ UNCHANGED <<objects, task, freed, user, closing, kfd, history>>
      BY <1>1, <2>1, <2>7 DEF PeerResets, Happens, Connections
    <3>2. to \in Connections
      BY <1>1, <2>1 DEF Connections
    <3>3. /\ to.net \in {"up", "failed", "reset"} /\ (to.err => to.net \in {"failed", "reset"})
          /\ conn[s].eof => to.eof /\ (to.unread => conn[s].unread)
      BY <1>1, <2>1, <2>2, <3>1 DEF Connections
    <3> HIDE DEF to
    <3>4. QED
      BY <2>1, <3>1, <3>2, <3>3, HappensGood
  <2>8. CASE SpaceFreed(s)
    <3> DEFINE to == [conn[s] EXCEPT !.net = "up", !.edge = Edge]
    <3>1. conn' = [conn EXCEPT ![s] = to] /\ conn[s].net = "up"
          /\ UNCHANGED <<objects, task, freed, user, closing, kfd, history>>
      BY <1>1, <2>1, <2>8 DEF SpaceFreed, Happens, Connections
    <3>2. to \in Connections
      BY <1>1, <2>1 DEF Connections
    <3>3. /\ to.net \in {"up", "failed", "reset"} /\ (to.err => to.net \in {"failed", "reset"})
          /\ conn[s].eof => to.eof /\ (to.unread => conn[s].unread)
      BY <1>1, <2>1, <2>2, <3>1 DEF Connections
    <3> HIDE DEF to
    <3>4. QED
      BY <2>1, <3>1, <3>2, <3>3, HappensGood
  <2>9. QED
    BY <1>2, <2>3, <2>4, <2>5, <2>6, <2>7, <2>8 DEF ConnectEnds
<1>3. ASSUME NEW v \in Servers, PeerConnects(v)
      PROVE  Good'
  <2>1. conn[v] \in Connections /\ v \in Targets /\ v \notin Sockets
    BY ReactorAssumption DEF Types, Targets
  <2> DEFINE to == [conn[v] EXCEPT !.backlog = conn[v].backlog + 1, !.edge = Edge]
  <2>2. /\ conn' = [conn EXCEPT ![v] = to]
        /\ UNCHANGED <<objects, task, freed, user, closing, kfd, history>>
    BY <1>1, <1>3, <2>1 DEF PeerConnects, Happens, Connections
  <2>3. to \in Connections
    <3>1. PICK b \in Nat : b = conn[v].backlog + 1
      BY <2>1 DEF Connections
    <3>2. to = [conn[v] EXCEPT !.backlog = b, !.edge = Edge]
      BY <3>1
    <3> HIDE DEF to
    <3>3. QED
      BY <1>1, <2>1, <3>2 DEF Connections
  <2> HIDE DEF to
  <2>4. QED
    BY <2>1, <2>2, <2>3, HappensGood
<1>4. QED
  BY <1>2, <1>3, TalkFacts DEF Network

-----------------------------------------------------------------------------
(* The types.                                                               *)
Statuses ==
  {"NONE", "NEW", "IDLE", "CONNECTING", "CONNECTED", "HALF_CLOSED", "LISTENING", "CLOSED"}

ObjTypes ==
  /\ status \in [Targets -> Statuses]
  /\ fd \in [Targets -> Fds \cup {0}]
  /\ table \in [Fds -> Targets \cup {Absent}] /\ kfd \in [Fds -> Targets \cup {Absent}]

TaskTypes ==
  /\ batch \subseteq [fd : Fds, in : BOOLEAN, out : BOOLEAN]
  /\ step \in Step
  /\ T \in Targets \cup {Absent} /\ now.out \in BOOLEAN
  /\ step \in {"read", "ended", "unreg", "write"} => T \in Sockets
  /\ step = "accept" => T \in Servers
  /\ freed \in BOOLEAN /\ user \in BOOLEAN /\ (step = "idle" => user)

OtherTypes ==
  /\ platform \in Platforms /\ closing \in Seq(Sockets)
  /\ state \in {"ok", "undefined", "stolen"}
  /\ conn \in [Targets -> Connections]
  /\ events \in [Sockets -> Seq(LifeEvents)]

LEMMA TypesAre == Types <=> ObjTypes /\ TaskTypes /\ OtherTypes
BY DEF Types, TypeOK, ObjTypes, Statuses, TaskTypes, OtherTypes, T

LEMMA TypesAreNext == Types' <=> ObjTypes' /\ TaskTypes' /\ OtherTypes'
BY DEF Types, TypeOK, ObjTypes, Statuses, TaskTypes, OtherTypes, T

LEMMA ConstructTypes ==
  ASSUME ObjTypes, NEW t \in Targets, NEW st \in {"IDLE", "CONNECTED"}, Construct(t, st)
  PROVE  ObjTypes'
<1> DEFINE n == Min(Free)
<1>1. /\ Free # {}
      /\ fd' = [fd EXCEPT ![t] = n] /\ kfd' = [kfd EXCEPT ![n] = t]
      /\ table' = [table EXCEPT ![n] = t]
      /\ status' = [status EXCEPT ![t] = st]
  BY DEF Construct
<1>2. n \in Fds
  BY <1>1, MinFree
<1> HIDE DEF n
<1>3. QED
  BY <1>1, <1>2 DEF ObjTypes, Statuses

LEMMA UnregTypes ==
  ASSUME ObjTypes, NEW n, reactor_unreg(n)
  PROVE  table' \in [Fds -> Targets \cup {Absent}] /\ freed' \in BOOLEAN
<1>1. table' \in [Fds -> Targets \cup {Absent}]
  BY DEF ObjTypes, reactor_unreg
<1>2. freed' = (freed \/ (now.target # Absent /\ n \in Fds /\ table[n] = now.target))
  BY DEF reactor_unreg
<1>3. freed' \in BOOLEAN
  BY ONLY <1>2
<1>4. QED
  BY <1>1, <1>3

LEMMA StatusTypes ==
  ASSUME ObjTypes, NEW t, NEW st \in Statuses, status' = [status EXCEPT ![t] = st],
         UNCHANGED <<fd, table, kfd>>
  PROVE  ObjTypes'
BY DEF ObjTypes

LEMMA ConnTypes ==
  ASSUME OtherTypes, NEW c
  PROVE  /\ \A net \in {"listen", "syn", "up"} :
              [conn EXCEPT ![c].net = net] \in [Targets -> Connections]
         /\ \A edge \in BOOLEAN : [conn EXCEPT ![c].edge = edge] \in [Targets -> Connections]
         /\ [conn EXCEPT ![c].unread = FALSE] \in [Targets -> Connections]
         /\ [conn EXCEPT ![c].err = FALSE] \in [Targets -> Connections]
         /\ [conn EXCEPT ![c] = NoConn] \in [Targets -> Connections]
<1>1. ASSUME NEW net \in {"listen", "syn", "up"}
      PROVE  [conn EXCEPT ![c].net = net] \in [Targets -> Connections]
  BY DEF OtherTypes, Connections
<1>2. ASSUME NEW edge \in BOOLEAN
      PROVE  [conn EXCEPT ![c].edge = edge] \in [Targets -> Connections]
  BY DEF OtherTypes, Connections
<1>3. [conn EXCEPT ![c].unread = FALSE] \in [Targets -> Connections]
  BY DEF OtherTypes, Connections
<1>4. [conn EXCEPT ![c].err = FALSE] \in [Targets -> Connections]
  BY DEF OtherTypes, Connections
<1>5. [conn EXCEPT ![c] = NoConn] \in [Targets -> Connections]
  BY DEF OtherTypes, Connections, NoConn
<1>6. QED
  BY <1>1, <1>2, <1>3, <1>4, <1>5

LEMMA TwoTypes ==
  ASSUME OtherTypes, NEW c, NEW edge \in BOOLEAN
  PROVE  /\ [conn EXCEPT ![c].net = "up", ![c].edge = edge] \in [Targets -> Connections]
         /\ [conn EXCEPT ![c].unread = FALSE, ![c].err = FALSE] \in [Targets -> Connections]
         /\ [conn EXCEPT ![c].err = FALSE] \in [Targets -> Connections]
<1>1. [conn EXCEPT ![c].net = "up", ![c].edge = edge] \in [Targets -> Connections]
  BY ZenonT(40) DEF OtherTypes, Connections
<1>2. [conn EXCEPT ![c].unread = FALSE, ![c].err = FALSE] \in [Targets -> Connections]
  BY ZenonT(40) DEF OtherTypes, Connections
<1>3. QED
  BY <1>1, <1>2, ConnTypes

LEMMA FiresTypes ==
  ASSUME OtherTypes, NEW s, NEW e \in LifeEvents
  PROVE  [events EXCEPT ![s] = Append(events[s], e)] \in [Sockets -> Seq(LifeEvents)]
BY AppendProperties DEF OtherTypes

LEMMA EscapesTypes ==
  ASSUME Escapes, freed \in BOOLEAN, freed' = freed
  PROVE  TaskTypes' /\ closing' \in Seq(Sockets)
<1>1. closing' \in Seq(Sockets)
  BY EmptySeq DEF Escapes
<1>2. QED
  BY <1>1 DEF Escapes, TaskTypes, NoEvent, Step, T

LEMMA GoesTypes ==
  ASSUME TaskTypes, NEW st \in {"dispatch", "ended", "unreg", "write"}, Goes(st),
         st # "dispatch" => step \in {"read", "ended", "unreg", "write"},
         batch' = batch, freed' \in BOOLEAN, user' \in BOOLEAN
  PROVE  TaskTypes'
BY FdFacts DEF Goes, TaskTypes, NoEvent, Step, T

LEMMA NewSocketTypes ==
  ASSUME ObjTypes, TaskTypes, OtherTypes, NewSocket
  PROVE  ObjTypes' /\ TaskTypes' /\ OtherTypes'
<1> DEFINE s == CHOOSE x \in Unallocated : TRUE
<1>1. /\ Unallocated # {} /\ Construct(s, "IDLE") /\ conn' = [conn EXCEPT ![s].edge = Edge]
      /\ UNCHANGED <<platform, task, freed, user, closing, state, events>>
  BY DEF NewSocket
<1>2. s \in Targets
  BY <1>1, NewObject DEF Targets
<1>3. Edge \in BOOLEAN
  BY DEF Edge
<1> HIDE DEF s
<1>4. ObjTypes'
  BY <1>1, <1>2, ConstructTypes
<1>5. conn' \in [Targets -> Connections]
  BY <1>1, <1>3, ConnTypes
<1>6. QED
  BY <1>1, <1>4, <1>5 DEF TaskTypes, OtherTypes, task, T

LEMMA NewServerTypes ==
  ASSUME ObjTypes, TaskTypes, OtherTypes, NEW v \in Servers, NewServer(v)
  PROVE  ObjTypes' /\ TaskTypes' /\ OtherTypes'
<1>1. /\ Construct(v, "IDLE") /\ conn' = [conn EXCEPT ![v].edge = Edge]
      /\ UNCHANGED <<platform, task, freed, user, closing, state, events>>
  BY DEF NewServer
<1>2. Edge \in BOOLEAN
  BY DEF Edge
<1>3. ObjTypes'
  BY <1>1, ConstructTypes DEF Targets
<1>4. conn' \in [Targets -> Connections]
  BY <1>1, <1>2, ConnTypes
<1>5. QED
  BY <1>1, <1>3, <1>4 DEF TaskTypes, OtherTypes, task, T

LEMMA AcceptTypes ==
  ASSUME ObjTypes, TaskTypes, OtherTypes, Accept
  PROVE  ObjTypes' /\ TaskTypes' /\ OtherTypes'
<1> DEFINE s == CHOOSE x \in Unallocated : TRUE
           c == Conn(T)
<1>1. /\ Unallocated # {} /\ Construct(s, "CONNECTED") /\ c # Absent
      /\ conn[c].backlog > 0 /\ step # "idle"
      /\ conn' = [conn EXCEPT ![c].backlog = conn[c].backlog - 1,
                              ![s].net = "up", ![s].edge = Edge]
      /\ user' = TRUE /\ UNCHANGED <<platform, task, freed, closing, state, events>>
  BY DEF Accept, Listening, T
<1>2. s \in Targets
  BY <1>1, NewObject DEF Targets
<1>3. c \in Targets
  BY <1>1 DEF Conn, ObjTypes
<1>4. Edge \in BOOLEAN
  BY DEF Edge
<1> HIDE DEF s, c
<1>5. ObjTypes'
  BY <1>1, <1>2, ConstructTypes
<1>6. conn' \in [Targets -> Connections]
  <2>1. conn[c] \in Connections /\ conn \in [Targets -> Connections]
    BY <1>3 DEF OtherTypes
  <2>2. conn[c].backlog \in Nat
    BY <2>1 DEF Connections
  <2>3. PICK b \in Nat : b = conn[c].backlog - 1
    BY <1>1, <2>2
  <2>4. conn' = [conn EXCEPT ![c].backlog = b, ![s].net = "up", ![s].edge = Edge]
    BY <1>1, <2>3
  <2>5. [conn EXCEPT ![c].backlog = b] \in [Targets -> Connections]
    BY <2>1 DEF Connections
  <2>6. PICK d \in [Targets -> Connections] : d = [conn EXCEPT ![c].backlog = b]
    BY <2>5
  <2>7. conn' = [d EXCEPT ![s].net = "up", ![s].edge = Edge]
    BY <2>4, <2>6
  <2>8. QED
    BY ZenonT(40), <1>4, <2>7 DEF Connections
<1>7. QED
  BY <1>1, <1>5, <1>6 DEF TaskTypes, OtherTypes, task, T

LEMMA ListenTypes ==
  ASSUME ObjTypes, TaskTypes, OtherTypes, NEW v \in Servers, Listen(v)
  PROVE  ObjTypes' /\ TaskTypes' /\ OtherTypes'
<1>1. /\ status' = [status EXCEPT ![v] = "LISTENING"]
      /\ conn' = [conn EXCEPT ![Conn(v)].net = "listen"]
      /\ UNCHANGED <<platform, fd, table, task, freed, user, closing, state, kfd, events>>
  BY DEF Listen, history
<1>2. ObjTypes'
  BY <1>1, StatusTypes DEF Statuses
<1>3. conn' \in [Targets -> Connections]
  BY <1>1, ConnTypes
<1>4. QED
  BY <1>1, <1>2, <1>3 DEF TaskTypes, OtherTypes, task, T

LEMMA ConnectTypes ==
  ASSUME ObjTypes, TaskTypes, OtherTypes, NEW s \in Sockets, Connect(s)
  PROVE  ObjTypes' /\ TaskTypes' /\ OtherTypes'
<1>1. /\ \/ /\ status' = [status EXCEPT ![s] = "CONNECTED"]
            /\ conn' = [conn EXCEPT ![Conn(s)].net = "up", ![Conn(s)].edge = Edge]
            /\ events' = [events EXCEPT ![s] = Append(events[s], "connect")]
         \/ /\ status' = [status EXCEPT ![s] = "CONNECTING"]
            /\ conn' = [conn EXCEPT ![Conn(s)].net = "syn"]
            /\ events' = events
      /\ UNCHANGED <<platform, fd, table, task, freed, user, closing, state, kfd>>
  BY DEF Connect, Fires
<1>2. ObjTypes'
  BY <1>1, StatusTypes DEF Statuses
<1>3. Edge \in BOOLEAN
  BY DEF Edge
<1>4. conn' \in [Targets -> Connections]
  <2>1. CASE conn' = [conn EXCEPT ![Conn(s)].net = "up", ![Conn(s)].edge = Edge]
    BY <1>3, <2>1, TwoTypes
  <2>2. CASE conn' = [conn EXCEPT ![Conn(s)].net = "syn"]
    BY <2>2, ConnTypes
  <2>3. QED
    BY <1>1, <2>1, <2>2
<1>5. events' \in [Sockets -> Seq(LifeEvents)]
  <2>1. "connect" \in LifeEvents
    BY DEF LifeEvents
  <2>2. CASE events' = events
    BY <2>2 DEF OtherTypes
  <2>3. CASE events' = [events EXCEPT ![s] = Append(events[s], "connect")]
    BY <2>1, <2>3, FiresTypes
  <2>4. QED
    BY <1>1, <2>2, <2>3
<1>6. QED
  BY <1>1, <1>2, <1>4, <1>5 DEF TaskTypes, OtherTypes, task, T

LEMMA CloseTypes ==
  ASSUME ObjTypes, TaskTypes, OtherTypes, NEW s \in Sockets, Close(s)
  PROVE  ObjTypes' /\ TaskTypes' /\ OtherTypes'
<1>1. /\ fd[s] \in Fds /\ kfd' = [kfd EXCEPT ![fd[s]] = Absent]
      /\ conn' = [conn EXCEPT ![kfd[fd[s]]] = NoConn]
      /\ \/ /\ fd' = [fd EXCEPT ![s] = 0] /\ status' = [status EXCEPT ![s] = "HALF_CLOSED"]
            /\ closing' = closing /\ events' = events
         \/ /\ fd' = fd /\ status' = [status EXCEPT ![s] = "CLOSED"]
            /\ closing' = Append(closing, s)
            /\ events' = [events EXCEPT ![s] = Append(events[s], "close")]
      /\ UNCHANGED <<platform, table, task, freed, user, state>>
  BY DEF Close, CloseFd, Conn, Fires
<1>2. ObjTypes'
  BY <1>1 DEF ObjTypes, Statuses
<1>3. conn' \in [Targets -> Connections]
  BY <1>1, ConnTypes
<1>4. events' \in [Sockets -> Seq(LifeEvents)]
  <2>1. "close" \in LifeEvents
    BY DEF LifeEvents
  <2>2. CASE events' = events
    BY <2>2 DEF OtherTypes
  <2>3. CASE events' = [events EXCEPT ![s] = Append(events[s], "close")]
    BY <2>1, <2>3, FiresTypes
  <2>4. QED
    BY <1>1, <2>2, <2>3
<1>5. closing' \in Seq(Sockets)
  <2>1. closing \in Seq(Sockets)
    BY DEF OtherTypes
  <2>2. Append(closing, s) \in Seq(Sockets)
    BY <2>1, AppendProperties
  <2>3. QED
    BY <1>1, <2>1, <2>2
<1>6. QED
  BY <1>1, <1>2, <1>3, <1>4, <1>5 DEF TaskTypes, OtherTypes, task, T

LEMMA CloseServerTypes ==
  ASSUME ObjTypes, TaskTypes, OtherTypes, NEW v \in Servers, CloseServer(v)
  PROVE  ObjTypes' /\ TaskTypes' /\ OtherTypes'
<1>1. /\ reactor_unreg(fd[v])
      /\ \/ /\ kfd' = [kfd EXCEPT ![fd[v]] = Absent]
            /\ conn' = [conn EXCEPT ![kfd[fd[v]]] = NoConn]
            /\ status' = [status EXCEPT ![v] = "CLOSED"] /\ state' \in {"ok", "stolen"}
         \/ UNCHANGED <<status, state, kfd, conn>>
      /\ UNCHANGED <<platform, fd, task, user, closing, events>>
  BY DEF CloseServer, CloseFd, kernel
<1>2. table' \in [Fds -> Targets \cup {Absent}] /\ freed' \in BOOLEAN
  BY <1>1, UnregTypes
<1>3. ObjTypes'
  BY <1>1, <1>2 DEF ObjTypes, Statuses
<1>4. conn' \in [Targets -> Connections]
  <2>1. CASE conn' = [conn EXCEPT ![kfd[fd[v]]] = NoConn]
    BY <2>1, ConnTypes
  <2>2. CASE conn' = conn
    BY <2>2 DEF OtherTypes
  <2>3. QED
    BY <1>1, <2>1, <2>2
<1>5. QED
  BY <1>1, <1>2, <1>3, <1>4 DEF TaskTypes, OtherTypes, task, T

LEMMA PollTypes ==
  ASSUME ObjTypes, TaskTypes, OtherTypes, Poll
  PROVE  ObjTypes' /\ TaskTypes' /\ OtherTypes'
<1>1. /\ step = "idle" /\ batch' = Ready /\ step' = "dispatch" /\ user' = FALSE
      /\ UNCHANGED <<platform, objects, now, freed, closing, state, kfd, events>>
  BY DEF Poll, history
<1>2. conn' \in [Targets -> Connections]
  <2>1. /\ \A c \in Targets : conn[c] \in Connections
        /\ \A c \in Targets : [conn[c] EXCEPT !.edge = FALSE] \in Connections
    BY DEF OtherTypes, Connections
  <2>2. conn' = [c \in Targets |->
                   IF \E e \in Ready : kfd[e.fd] = c THEN [conn[c] EXCEPT !.edge = FALSE]
                                                     ELSE conn[c]]
    BY DEF Poll
  <2>3. QED
    BY <2>1, <2>2
<1>3. QED
  BY <1>1, <1>2, ReadyFacts DEF ObjTypes, TaskTypes, OtherTypes, objects, Step, T

LEMMA DispatchTypes ==
  ASSUME ObjTypes, TaskTypes, OtherTypes, NEW e \in batch, Dispatch(e)
  PROVE  ObjTypes' /\ TaskTypes' /\ OtherTypes'
<1>1. /\ ~user /\ step = "dispatch" /\ batch' = batch \ {e}
      /\ UNCHANGED <<platform, objects, user, closing, kernel, events>>
      /\ state' \in {state, "undefined", "ok"}
  BY DEF Dispatch, Code, history
<1>2. e.fd \in Fds /\ e.out \in BOOLEAN
  BY DEF TaskTypes
<1>3. CASE table[e.fd] # Absent
  <2>1. /\ T' = table[e.fd] /\ now'.out = e.out /\ freed' = FALSE
        /\ step' = IF table[e.fd] \in Servers THEN "accept" ELSE IF e.in THEN "read" ELSE "write"
    BY <1>3 DEF Dispatch, T
  <2>2. table[e.fd] \in Targets
    BY <1>2, <1>3 DEF ObjTypes
  <2>3. TaskTypes'
    BY <1>1, <1>2, <2>1, <2>2 DEF TaskTypes, Step, Targets
  <2>4. QED
    BY <1>1, <2>3 DEF ObjTypes, OtherTypes, objects, kernel
<1>4. CASE table[e.fd] = Absent
  <2>1. UNCHANGED <<step, now, freed>>
    BY <1>4 DEF Dispatch
  <2>2. QED
    BY <1>1, <2>1 DEF ObjTypes, TaskTypes, OtherTypes, objects, kernel, T
<1>5. QED
  BY <1>3, <1>4

LEMMA BatchEndTypes ==
  ASSUME ObjTypes, TaskTypes, OtherTypes, BatchEnd
  PROVE  ObjTypes' /\ TaskTypes' /\ OtherTypes'
<1>1. /\ step = "dispatch" /\ step' = "idle" /\ user' = TRUE
      /\ UNCHANGED <<platform, objects, batch, now, freed, closing, state, kernel, events>>
  BY DEF BatchEnd, history
<1>2. QED
  BY <1>1 DEF ObjTypes, TaskTypes, OtherTypes, objects, kernel, Step, T

LEMMA ThrowsTypes ==
  ASSUME ObjTypes, TaskTypes, OtherTypes, ReadThrows \/ FlushThrows \/ AcceptThrows
  PROVE  ObjTypes' /\ TaskTypes' /\ OtherTypes'
<1>1. Escapes /\ UNCHANGED <<platform, objects, freed, state, kfd, events>>
  BY DEF ReadThrows, FlushThrows, AcceptThrows, kernel
<1>2. TaskTypes' /\ closing' \in Seq(Sockets)
  BY <1>1, EscapesTypes DEF TaskTypes
<1>3. conn' \in [Targets -> Connections]
  <2>1. \/ conn' = conn
        \/ conn' = [conn EXCEPT ![Conn(T)].unread = FALSE, ![Conn(T)].err = FALSE]
        \/ conn' = [conn EXCEPT ![Conn(T)].err = FALSE]
    BY DEF ReadThrows, FlushThrows, AcceptThrows, kernel, T
  <2>2. CASE conn' = conn
    BY <2>2 DEF OtherTypes
  <2>3. CASE conn' = [conn EXCEPT ![Conn(T)].unread = FALSE, ![Conn(T)].err = FALSE]
    BY <2>3, TwoTypes
  <2>4. CASE conn' = [conn EXCEPT ![Conn(T)].err = FALSE]
    BY <2>4, ConnTypes
  <2>5. QED
    BY <2>1, <2>2, <2>3, <2>4
<1>4. QED
  BY <1>1, <1>2, <1>3 DEF ObjTypes, OtherTypes, objects

LEMMA ReadTypes ==
  ASSUME ObjTypes, TaskTypes, OtherTypes, Read
  PROVE  ObjTypes' /\ TaskTypes' /\ OtherTypes'
<1> DEFINE c == Conn(T)
<1>1. /\ step = "read" /\ c # Absent /\ conn' = [conn EXCEPT ![c].unread = FALSE]
      /\ user' = conn[c].unread /\ Goes(IF conn[c].eof THEN "ended" ELSE AfterRead)
      /\ UNCHANGED <<platform, objects, batch, freed, closing, state, kfd, events>>
  BY DEF Read, CanRead, history, T
<1>2. c \in Targets
  BY <1>1 DEF Conn, ObjTypes
<1> HIDE DEF c
<1>3. user' \in BOOLEAN
  BY <1>1, <1>2 DEF OtherTypes, Connections
<1>4. (IF conn[c].eof THEN "ended" ELSE AfterRead) \in {"dispatch", "ended", "write"}
  BY DEF AfterRead
<1>5. freed' \in BOOLEAN
  BY <1>1 DEF TaskTypes
<1>6. TaskTypes'
  BY <1>1, <1>3, <1>4, <1>5, GoesTypes
<1>7. conn' \in [Targets -> Connections]
  BY <1>1, ConnTypes
<1>8. QED
  BY <1>1, <1>6, <1>7 DEF ObjTypes, OtherTypes, objects

LEMMA EndedTypes ==
  ASSUME ObjTypes, TaskTypes, OtherTypes, Ended
  PROVE  ObjTypes' /\ TaskTypes' /\ OtherTypes'
<1>1. /\ step = "ended" /\ user' = TRUE
      /\ UNCHANGED <<platform, fd, table, batch, freed, closing, state, kfd, conn>>
      /\ \/ /\ status' = [status EXCEPT ![T] = "CLOSED"]
            /\ Goes("unreg") /\ events' = [events EXCEPT ![T] = Append(events[T], "close")]
         \/ /\ status' = [status EXCEPT ![T] = "HALF_CLOSED"]
            /\ Goes(AfterRead) /\ events' = [events EXCEPT ![T] = Append(events[T], "end")]
  BY DEF Ended, kernel, T, Fires
<1>2. ObjTypes'
  BY <1>1, StatusTypes DEF Statuses
<1>3. freed' \in BOOLEAN /\ user' \in BOOLEAN
  BY <1>1 DEF TaskTypes
<1>4. TaskTypes'
  <2>1. CASE Goes("unreg")
    BY <1>1, <1>3, <2>1, GoesTypes
  <2>2. CASE Goes(AfterRead)
    <3>1. AfterRead \in {"dispatch", "write"}
      BY DEF AfterRead
    <3>2. QED
      BY <1>1, <1>3, <2>2, <3>1, GoesTypes
  <2>3. QED
    BY <1>1, <2>1, <2>2
<1>5. events' \in [Sockets -> Seq(LifeEvents)]
  <2>1. PICK e \in LifeEvents : events' = [events EXCEPT ![T] = Append(events[T], e)]
    BY <1>1 DEF LifeEvents
  <2>2. QED
    BY <2>1, FiresTypes
<1>6. QED
  BY <1>1, <1>2, <1>4, <1>5 DEF OtherTypes

LEMMA UnregisterTypes ==
  ASSUME ObjTypes, TaskTypes, OtherTypes, Unregister
  PROVE  ObjTypes' /\ TaskTypes' /\ OtherTypes'
<1>1. /\ step = "unreg" /\ reactor_unreg(fd[T]) /\ Goes(AfterRead)
      /\ UNCHANGED <<platform, status, fd, batch, user, closing, state, kfd, conn, events>>
  BY DEF Unregister, kernel, history, T
<1>2. table' \in [Fds -> Targets \cup {Absent}] /\ freed' \in BOOLEAN
  BY <1>1, UnregTypes
<1>3. AfterRead \in {"dispatch", "write"} /\ user' \in BOOLEAN
  BY <1>1 DEF AfterRead, TaskTypes
<1>4. TaskTypes'
  BY <1>1, <1>2, <1>3, GoesTypes
<1>5. QED
  BY <1>1, <1>2, <1>4 DEF ObjTypes, OtherTypes

LEMMA ConnectedTypes ==
  ASSUME ObjTypes, TaskTypes, OtherTypes, Connected
  PROVE  ObjTypes' /\ TaskTypes' /\ OtherTypes'
<1> DEFINE failed == Conn(T) = Absent \/ conn[Conn(T)].err
<1>1. /\ step = "write" /\ status[T] = "CONNECTING"
      /\ status' = [status EXCEPT ![T] = IF failed THEN status[T] ELSE "CONNECTED"]
      /\ conn' = IF Conn(T) = Absent THEN conn ELSE [conn EXCEPT ![Conn(T)].err = FALSE]
      /\ events' = [events EXCEPT ![T] = Append(events[T], IF failed THEN "error" ELSE "connect")]
      /\ Goes("dispatch") /\ user' = TRUE
      /\ UNCHANGED <<platform, fd, table, batch, freed, closing, state, kfd>>
  BY DEF Connected, T, Fires
<1> HIDE DEF failed
<1>2. PICK st \in Statuses : status' = [status EXCEPT ![T] = st]
  BY <1>1 DEF Statuses
<1>3. PICK e \in LifeEvents : events' = [events EXCEPT ![T] = Append(events[T], e)]
  BY <1>1 DEF LifeEvents
<1>4. ObjTypes'
  BY <1>1, <1>2, StatusTypes
<1>5. freed' \in BOOLEAN /\ user' \in BOOLEAN
  BY <1>1 DEF TaskTypes
<1>6. TaskTypes'
  BY <1>1, <1>5, GoesTypes
<1>7. conn' \in [Targets -> Connections]
  BY <1>1, ConnTypes DEF OtherTypes
<1>8. events' \in [Sockets -> Seq(LifeEvents)]
  BY <1>3, FiresTypes
<1>9. QED
  BY <1>1, <1>4, <1>6, <1>7, <1>8 DEF OtherTypes

LEMMA DispatchesTypes ==
  ASSUME ObjTypes, TaskTypes, OtherTypes, Flush \/ AcceptEnd
  PROVE  ObjTypes' /\ TaskTypes' /\ OtherTypes'
<1>1. /\ Goes("dispatch")
      /\ UNCHANGED <<platform, objects, batch, freed, user, closing, state, kernel, events>>
  BY DEF Flush, AcceptEnd, history
<1>2. freed' \in BOOLEAN /\ user' \in BOOLEAN
  BY <1>1 DEF TaskTypes
<1>3. TaskTypes'
  BY <1>1, <1>2, GoesTypes
<1>4. QED
  BY <1>1, <1>3 DEF ObjTypes, OtherTypes, objects, kernel

LEMMA UseFreedTypes ==
  ASSUME ObjTypes, TaskTypes, OtherTypes, UseFreed
  PROVE  ObjTypes' /\ TaskTypes' /\ OtherTypes'
<1>1. /\ state' = "undefined"
      /\ UNCHANGED <<platform, objects, task, freed, user, closing, kernel, history>>
  BY DEF UseFreed
<1>2. QED
  BY <1>1 DEF ObjTypes, TaskTypes, OtherTypes, objects, task, kernel, history, T

LEMMA ReturnsTypes ==
  ASSUME ObjTypes, TaskTypes, OtherTypes, HandlerReturns
  PROVE  ObjTypes' /\ TaskTypes' /\ OtherTypes'
<1>1. UNCHANGED <<platform, status, fd, batch, step, now, state, kfd, conn, events>>
  BY DEF HandlerReturns, task, kernel, history
<1>2. CASE /\ closing # <<>> /\ reactor_unreg(fd[Last(closing)])
           /\ closing' = Front(closing) /\ UNCHANGED user
  <2>1. table' \in [Fds -> Targets \cup {Absent}] /\ freed' \in BOOLEAN
    BY <1>2, UnregTypes
  <2>2. closing' \in Seq(Sockets)
    BY <1>2, FrontFacts, TypesAre
  <2>3. QED
    BY <1>1, <1>2, <2>1, <2>2 DEF ObjTypes, TaskTypes, OtherTypes, T
<1>3. CASE closing = <<>> /\ step # "idle" /\ user' = FALSE /\ UNCHANGED <<table, freed, closing>>
  BY <1>1, <1>3 DEF ObjTypes, TaskTypes, OtherTypes, T
<1>4. QED
  BY <1>2, <1>3 DEF HandlerReturns

LEMMA HandlerThrowsTypes ==
  ASSUME ObjTypes, TaskTypes, OtherTypes, HandlerThrows
  PROVE  ObjTypes' /\ TaskTypes' /\ OtherTypes'
<1>1. UNCHANGED <<platform, objects, freed, state, kernel, events>>
  BY DEF HandlerThrows
<1>2. CASE closing # <<>> /\ closing' = Front(closing) /\ UNCHANGED <<task, user, seen>>
  <2>1. closing' \in Seq(Sockets)
    BY <1>2, FrontFacts, TypesAre
  <2>2. QED
    BY <1>1, <1>2, <2>1 DEF ObjTypes, TaskTypes, OtherTypes, objects, task, kernel, T
<1>3. CASE Escapes
  <2>1. TaskTypes' /\ closing' \in Seq(Sockets)
    BY <1>1, <1>3, EscapesTypes DEF TaskTypes
  <2>2. QED
    BY <1>1, <2>1 DEF ObjTypes, OtherTypes, objects, kernel
<1>4. QED
  BY <1>2, <1>3 DEF HandlerThrows

(* The network changes connections only. *)
LEMMA NetworkTypes ==
  ASSUME ObjTypes, TaskTypes, OtherTypes, Network
  PROVE  ObjTypes' /\ TaskTypes' /\ OtherTypes'
<1>1. Edge \in BOOLEAN /\ \A c \in Targets : conn[c] \in Connections
  BY DEF Edge, OtherTypes
<1>2. PICK c \in Targets :
        \/ conn[c].net = "syn" /\ Happens(c, [conn[c] EXCEPT !.net = "up"])
        \/ Happens(c, [conn[c] EXCEPT !.net = "failed", !.eof = TRUE, !.err = TRUE])
        \/ Happens(c, [conn[c] EXCEPT !.unread = TRUE])
        \/ Happens(c, [conn[c] EXCEPT !.eof = TRUE])
        \/ Happens(c, [conn[c] EXCEPT !.net = "reset", !.eof = TRUE, !.err = TRUE])
        \/ Happens(c, conn[c])
        \/ Happens(c, [conn[c] EXCEPT !.backlog = conn[c].backlog + 1])
  BY TalkFacts DEF Network, ConnectEnds, PeerSends, PeerEnds, PeerResets, SpaceFreed,
     PeerConnects, Targets
<1>3. PICK to \in Connections : Happens(c, to)
  <2>1. /\ conn[c] \in Connections
        /\ [conn[c] EXCEPT !.net = "up"] \in Connections
        /\ [conn[c] EXCEPT !.net = "failed", !.eof = TRUE, !.err = TRUE] \in Connections
        /\ [conn[c] EXCEPT !.unread = TRUE] \in Connections
        /\ [conn[c] EXCEPT !.eof = TRUE] \in Connections
        /\ [conn[c] EXCEPT !.net = "reset", !.eof = TRUE, !.err = TRUE] \in Connections
    BY <1>1 DEF Connections
  <2>2. [conn[c] EXCEPT !.backlog = conn[c].backlog + 1] \in Connections
    <3>1. conn[c] \in Connections
      BY <1>1
    <3>2. conn[c].backlog \in Nat
      BY <3>1 DEF Connections
    <3>3. PICK b \in Nat : b = conn[c].backlog + 1
      BY <3>2
    <3>4. [conn[c] EXCEPT !.backlog = b] \in Connections
      BY <3>1 DEF Connections
    <3>5. QED
      BY <3>3, <3>4
  <2>3. QED
    BY <1>2, <2>1, <2>2
<1>4. /\ conn' = [conn EXCEPT ![c] = [to EXCEPT !.edge = Edge]]
      /\ UNCHANGED <<platform, objects, task, freed, user, closing, state, kfd, history>>
  BY <1>3 DEF Happens
<1>5. [to EXCEPT !.edge = Edge] \in Connections
  BY <1>1 DEF Connections
<1>6. conn' \in [Targets -> Connections]
  BY <1>4, <1>5 DEF OtherTypes
<1>7. QED
  BY <1>4, <1>6 DEF ObjTypes, TaskTypes, OtherTypes, objects, task, history, T

-----------------------------------------------------------------------------
(* The invariant.                                                           *)
LEMMA TypesInit == Init => Types
<1>1. SUFFICES ASSUME Init PROVE Types
  OBVIOUS
<1>2. ObjTypes
  BY <1>1, FdFacts DEF Init, ObjTypes, Statuses
<1>3. TaskTypes
  <2>1. freed \in BOOLEAN /\ user \in BOOLEAN
    BY Zenon, <1>1 DEF Init
  <2>2. QED
    BY <1>1, <2>1 DEF Init, TaskTypes, Step, NoEvent, T
<1>4. OtherTypes
  <2>1. NoConn \in Connections
    BY DEF NoConn, Connections
  <2>2. QED
    BY <1>1, <2>1, EmptySeq DEF Init, OtherTypes
<1>5. QED
  BY <1>2, <1>3, <1>4, TypesAre

LEMMA TypesNext ==
  ASSUME Types, Next
  PROVE  Types'
<1>1. ObjTypes /\ TaskTypes /\ OtherTypes
  BY TypesAre
<1>2. ObjTypes' /\ TaskTypes' /\ OtherTypes'
  <2>1. CASE Api
    BY <1>1, <2>1, NewSocketTypes, NewServerTypes, ListenTypes, ConnectTypes, CloseTypes,
       CloseServerTypes DEF Api
  <2>2. CASE ReactorStep
    BY <1>1, <2>2, PollTypes, DispatchTypes, BatchEndTypes, ThrowsTypes, ReadTypes, EndedTypes,
       UnregisterTypes, ConnectedTypes, DispatchesTypes, AcceptTypes, UseFreedTypes
       DEF ReactorStep
  <2>3. CASE HandlerReturns \/ HandlerThrows
    BY <1>1, <2>3, ReturnsTypes, HandlerThrowsTypes
  <2>4. CASE Network
    BY <1>1, <2>4, NetworkTypes
  <2>5. QED
    BY <2>1, <2>2, <2>3, <2>4 DEF Next
<1>3. QED
  BY <1>2, TypesAreNext

(* A step from a state that goes on, or none at all. *)
LEMMA StepsFromOk == Next => state = "ok"
BY DEF Next, Api, ReactorStep, HandlerReturns, HandlerThrows, Network, UserCode, Code,
       NewSocket, NewServer, Listen, Connect, Close, CloseServer, Poll, Dispatch, BatchEnd,
       Read, ReadThrows, Ended, Unregister, Connected, Flush, FlushThrows, Accept, AcceptEnd,
       AcceptThrows, UseFreed, ConnectEnds, PeerSends, PeerEnds, PeerResets, SpaceFreed,
       PeerConnects, Happens

LEMMA GoodNext ==
  ASSUME Types, Good, Next, state' # "stolen"
  PROVE  Good'
<1>1. CASE Api
  BY <1>1, NewSocketGood, NewServerGood, ListenGood, ConnectGood, CloseGood, CloseServerGood,
     CloseAgainGood DEF Api
<1>2. CASE ReactorStep
  BY <1>2, PollGood, DispatchGood, BatchEndGood, ThrowsGood, ReadGood,
     EndedGood, UnregisterGood, ConnectedGood, DispatchesGood, AcceptGood, UseFreedGood
     DEF ReactorStep
<1>3. CASE HandlerReturns \/ HandlerThrows
  BY <1>3, ReturnsGood, HandlerThrowsGood
<1>4. CASE Network
  BY <1>4, NetworkGood
<1>5. QED
  BY <1>1, <1>2, <1>3, <1>4 DEF Next

(* The two ways into undefined behaviour. *)
LEMMA UndefinedBy ==
  ASSUME Next, state' = "undefined"
  PROVE  \/ UseFreed
         \/ \E e \in batch : Dispatch(e) /\ table[e.fd] = Absent /\ platform = "epoll"
<1>1. state = "ok"
  BY StepsFromOk
<1>2. CASE Api
  BY <1>1, <1>2 DEF Api, NewSocket, NewServer, Listen, Connect, Close, CloseServer
<1>3. CASE ReactorStep
  BY <1>1, <1>3 DEF ReactorStep, Poll, Dispatch, BatchEnd,
       Read, ReadThrows, Ended, Unregister, Connected, Flush, FlushThrows, Accept, AcceptEnd,
       AcceptThrows
<1>4. CASE HandlerReturns \/ HandlerThrows \/ Network
  BY <1>1, <1>4 DEF HandlerReturns, HandlerThrows, Network, ConnectEnds, PeerSends, PeerEnds,
       PeerResets, SpaceFreed, PeerConnects, Happens
<1>5. QED
  BY <1>2, <1>3, <1>4 DEF Next

LEMMA SafeNext ==
  ASSUME Types, Good, Next
  PROVE  SafeDispatch'
<1>1. SUFFICES ASSUME state' = "undefined"
               PROVE  \/ step' = "accept"
                      \/ step' = "ended" /\ "closed_again" \in seen'
                      \/ /\ platform' = "epoll"
                         /\ \/ seen' \cap {"closed_in_batch", "opened_in_close"} # {}
                            \/ \E s \in Sockets : status'[s] = "CLOSED" /\ Conn(s)' = s
  BY DEF SafeDispatch
<1>2. CASE UseFreed
  <2>1. step' = step /\ seen' = seen
    BY <1>2 DEF UseFreed, task, history
  <2>2. /\ freed
        /\ \/ step = "ended"
           \/ step = "write" /\ status[T] = "CONNECTING"
           \/ step = "accept"
    <3>1. freed /\ Code
      BY <1>2 DEF UseFreed
    <3>2. \/ step = "ended"
          \/ step = "write" /\ status[now.target] = "CONNECTING"
          \/ \E v \in Servers : AcceptsFreed(v)
      BY Zenon, <1>2 DEF UseFreed
    <3>3. (\E v \in Servers : AcceptsFreed(v)) => step = "accept"
      BY Zenon DEF AcceptsFreed
    <3>4. QED
      BY Zenon, <3>1, <3>2, <3>3 DEF T
  <2>3. step \in {"ended", "write"} => T \in Sockets
    BY DEF Types, TypeOK, T
  <2>4. step = "accept" \/ (step = "ended" /\ "closed_again" \in seen)
    BY <2>2, <2>3 DEF Good, TaskInv, NowInv
  <2>5. QED
    BY <2>1, <2>4
<1>3. ASSUME NEW e \in batch, Dispatch(e), table[e.fd] = Absent, platform = "epoll"
      PROVE  \/ seen' \cap {"closed_in_batch", "opened_in_close"} # {}
             \/ \E s \in Sockets : status'[s] = "CLOSED" /\ Conn(s)' = s
  <2>1. UNCHANGED <<platform, status, fd, kfd, seen>>
    BY <1>3 DEF Dispatch, objects, kernel, history
  <2>2. SUFFICES ASSUME "closed_in_batch" \notin seen, "opened_in_close" \notin seen
                 PROVE  \E s \in Sockets : status[s] = "CLOSED" /\ Conn(s) = s
    BY <2>1 DEF Conn
  <2>3. e.fd \in Fds
    BY DEF Types, TypeOK
  <2>4. kfd[e.fd] # Absent
    BY <2>2 DEF Good, TaskInv, BatchInv
  <2>5. PICK t \in Targets : t = kfd[e.fd]
    BY <2>3, <2>4 DEF Types, TypeOK
  <2>6. /\ fd[t] = e.fd /\ status[t] # "NEW" /\ (t \in Servers => status[t] # "CLOSED")
    BY <2>3, <2>4, <2>5 DEF Good, ObjInv, KernelInv
  <2>7. table[fd[t]] # t
    BY <1>3, <2>6, FdFacts
  <2>8. ~Open(t)
    BY <2>2, <2>7 DEF Good, ObjInv, Found
  <2>9. status[t] = "CLOSED" /\ t \in Sockets
    BY <2>3, <2>6, <2>8, FdFacts DEF Open, Targets
  <2>10. Conn(t) = t
    BY <2>3, <2>5, <2>6 DEF Conn
  <2>11. QED
    BY <2>9, <2>10
<1>4. platform' = platform
  BY <1>1, UndefinedBy DEF UseFreed, Dispatch
<1>5. QED
  BY <1>1, <1>2, <1>3, <1>4, UndefinedBy

LEMMA InitInv == Init => Inv
<1>1. SUFFICES ASSUME Init PROVE Inv
  OBVIOUS
<1>2. Types
  BY <1>1, TypesInit
<1>3. /\ \A t \in Targets : status[t] \in {"NEW", "NONE"} /\ fd[t] = 0 /\ conn[t] = NoConn
      /\ \A n \in Fds : table[n] = Absent /\ kfd[n] = Absent
      /\ batch = {} /\ step = "idle" /\ T = Absent /\ freed = FALSE /\ user = TRUE
      /\ closing = <<>> /\ state = "ok" /\ \A s \in Sockets : events[s] = <<>>
  BY <1>1 DEF Init, NoEvent, T
<1>4. ObjInv
  BY <1>3 DEF ObjInv, KernelInv, TableInv, NumberInv, Owned, Found, Open
<1>5. ConnInv
  BY <1>3, FdFacts DEF ConnInv, ConnOf, NoConn, Targets
<1>6. NowInv /\ ReadInv /\ EndedInv /\ UnregInv
  BY <1>3, FdFacts DEF NowInv, ReadInv, EndedInv, UnregInv, Targets
<1>7. ClosingInv
  BY <1>3, EmptySeq DEF ClosingInv
<1>8. BatchInv /\ ClosedInv
  BY <1>3 DEF BatchInv, ClosedInv, Targets
<1>9. EventsInv
  BY <1>3, EmptySeq DEF EventsInv, EventsOf, Targets
<1>10. SafeDispatch
  BY <1>3 DEF SafeDispatch
<1>11. QED
  BY <1>2, <1>4, <1>5, <1>6, <1>7, <1>8, <1>9, <1>10 DEF Inv, Good, TaskInv

LEMMA NextInv == Inv /\ [Next]_vars => Inv'
<1>1. SUFFICES ASSUME Inv, [Next]_vars PROVE Inv'
  OBVIOUS
<1>2. CASE Next
  <2>1. state = "ok" /\ Types /\ Good
    BY <1>1, <1>2, StepsFromOk DEF Inv
  <2>2. QED
    BY <1>2, <2>1, TypesNext, GoodNext, SafeNext DEF Inv
<1>3. CASE UNCHANGED vars
  <2>1. UNCHANGED <<platform, status, fd, table, batch, step, now, freed, user, closing, state,
                    kfd, conn, events, seen>>
    BY <1>3 DEF vars, objects, task, kernel, history
  <2>2. Types'
    BY <1>1, <2>1 DEF Inv, Types, TypeOK
  <2>3. SafeDispatch'
    BY <1>1, <2>1 DEF Inv, SafeDispatch, Conn
  <2>4. ASSUME state # "stolen" PROVE Good'
    <3>1. Types /\ Good
      BY <1>1, <2>4 DEF Inv
    <3>2. ObjInv' /\ ConnInv' /\ EventsInv'
      BY <2>1, <3>1, ObjStays, ConnOnly DEF Good
    <3>3. step = "ended" /\ fd[T] # 0 => conn'[T].eof /\ ~conn'[T].unread
      BY <2>1, <3>1 DEF Good, TaskInv, EndedInv
    <3>4. TaskInv'
      BY <2>1, <3>1, <3>3, TaskStays DEF Good
    <3>5. QED
      BY <3>2, <3>4 DEF Good
  <2>5. QED
    BY <2>1, <2>2, <2>3, <2>4 DEF Inv
<1>4. QED
  BY <1>1, <1>2, <1>3

LEMMA AlwaysInv == Spec => []Inv
BY InitInv, NextInv, PTL DEF Spec

(* The variables hold what the objects, the reactor and the kernel hold,    *)
(* for any number of sockets and descriptors.                               *)
THEOREM TypeCorrect == Spec => []TypeOK
<1>1. Inv => TypeOK
  BY DEF Inv, Types
<1>2. QED
  BY <1>1, AlwaysInv, PTL

(* No system call of a socket that is not closed reaches another's          *)
(* connection (socket.cpp:219-242), however numbers are used again.         *)
THEOREM DescriptorsAreOwn == Spec => []OwnDescriptor
<1>1. Inv => OwnDescriptor
  BY DEF Inv, Good, ObjInv, Owned, OwnDescriptor
<1>2. QED
  BY <1>1, AlwaysInv, PTL

(* The table has every socket that is not closed under its own number       *)
(* (socket.cpp:236-240), but for the one exception.                         *)
THEOREM EventsFindTheirSocket == Spec => []Registered
<1>1. Inv => Registered
  BY DEF Inv, Good, ObjInv, Found, Registered
<1>2. QED
  BY <1>1, AlwaysInv, PTL

(* Undefined behaviour takes one of the causes that the property names      *)
(* (reactor1.cpp:25-28, socket1.cpp:171-204).                               *)
THEOREM DispatchIsSafe == Spec => []SafeDispatch
<1>1. Inv => SafeDispatch
  BY DEF Inv
<1>2. QED
  BY <1>1, AlwaysInv, PTL

(* A socket is told the stages of its life in order, each of them once      *)
(* (socket1.cpp:67-109), unless an exception escaped from the reactor.      *)
THEOREM StagesInOrder == Spec => []LifeCycle
<1>1. Inv => LifeCycle
  BY DEF Inv, Good, EventsInv, EventsOf, LifeCycle
<1>2. QED
  BY <1>1, AlwaysInv, PTL

-----------------------------------------------------------------------------
(* What becomes of a connection attempt.  Only an event that was reported   *)
(* after the attempt ended comes to the test of SO_ERROR; and a failed one  *)
(* whose error has been read there, which only kqueue allows, has its end   *)
(* of stream to be read, which makes the socket HALF_CLOSED, before another *)
(* event can call it writable.                                              *)
InDue(s) == \E e \in batch : e.fd = fd[s] /\ e.in

OutDue(s) == \E e \in batch : e.fd = fd[s] /\ e.out

FailedOf(s) ==
  /\ conn[s].eof
  /\ platform = "epoll" =>
       /\ conn[s].err /\ ~(T = s /\ step \in {"ended", "write"})
       /\ \A e \in batch : e.fd = fd[s] => e.in
  /\ platform = "kqueue" =>
       /\ OutDue(s) /\ table[fd[s]] = s => conn[s].err /\ (InDue(s) \/ (T = s /\ step = "read"))
       /\ T = s /\ step = "write" => conn[s].err /\ InDue(s) /\ ~OutDue(s)
       /\ conn[s].err \/ table[fd[s]] # s \/ InDue(s) \/ (T = s /\ step \in {"read", "ended"})

AttemptOf(s) ==
  /\ status[s] = "CONNECTED" => conn[s].net \in {"up", "reset"}
  /\ status[s] = "CONNECTING" =>
       /\ conn[s].net \in {"syn", "up", "failed", "reset"}
       /\ conn[s].net = "syn" => T # s /\ \A e \in batch : e.fd # fd[s]
       /\ conn[s].net = "failed" => FailedOf(s)

Calm == seen \cap {"connected_in_batch", "threw"} = {}

FormInv ==
  /\ step = "idle" => batch = {}
  /\ platform = "kqueue" => \A e \in batch : e.in = ~e.out
  /\ \A s \in Sockets : conn[s].net # "listen" /\ conn[s].backlog = 0

AttemptInv == FormInv /\ (state # "stolen" /\ Calm => \A s \in Sockets : AttemptOf(s))

(* A socket that a step does not concern. *)
LEMMA AttemptStays ==
  ASSUME NEW s \in Sockets, AttemptOf(s), status'[s] = status[s], fd'[s] = fd[s],
         UNCHANGED <<platform, batch>>,
         conn'[s].net = conn[s].net, conn'[s].eof = conn[s].eof, conn'[s].err = conn[s].err,
         status[s] = "CONNECTING" /\ table'[fd[s]] = s => table[fd[s]] = s,
         (T' = T /\ step' = step) \/ (T # s /\ T' # s)
  PROVE  AttemptOf(s)'
<1>1. (OutDue(s)' <=> OutDue(s)) /\ (InDue(s)' <=> InDue(s))
  BY DEF OutDue, InDue
<1>2. ASSUME status[s] = "CONNECTING", FailedOf(s)
      PROVE  FailedOf(s)'
  BY <1>1, <1>2 DEF FailedOf
<1>3. QED
  BY <1>2 DEF AttemptOf

(* One that is not, or no longer, making a connection. *)
LEMMA AttemptOver ==
  ASSUME NEW s \in Sockets, status'[s] # "CONNECTING",
         status'[s] = "CONNECTED" => conn'[s].net \in {"up", "reset"}
  PROVE  AttemptOf(s)'
BY DEF AttemptOf

(* A socket that is making a connection is open, and nobody else's step     *)
(* changes its entry to itself.                                             *)
LEMMA AttemptOpen ==
  ASSUME Types, Good, NEW s \in Sockets, status[s] \in {"CONNECTING", "CONNECTED"}
  PROVE  s \in Targets /\ fd[s] \in Fds /\ kfd[fd[s]] = s /\ Conn(s) = s /\ Open(s)
<1>1. s \in Targets /\ Open(s)
  BY DEF Targets, Open, Good, ObjInv, NumberInv
<1>2. QED
  BY <1>1, OpenFacts DEF Good

LEMMA NewAttempts ==
  ASSUME Types, Good, \A s \in Sockets : AttemptOf(s),
         NEW t \in Targets, NEW st \in {"IDLE", "CONNECTED"}, Construct(t, st),
         status[t] = "NEW", UNCHANGED <<platform, task>>,
         st = "CONNECTED" => conn'[t].net = "up",
         \A s \in Sockets \ {t} :
           status[s] \in {"CONNECTING", "CONNECTED"} =>
             /\ conn'[s].net = conn[s].net /\ conn'[s].eof = conn[s].eof
             /\ conn'[s].err = conn[s].err
  PROVE  \A s \in Sockets : AttemptOf(s)'
<1>1. PICK n \in Fds :
        /\ fd' = [fd EXCEPT ![t] = n] /\ table' = [table EXCEPT ![n] = t]
        /\ status' = [status EXCEPT ![t] = st]
  BY ConstructObj DEF Good
<1>2. T' = T /\ UNCHANGED <<platform, batch, step>>
  BY DEF task, T
<1>3. ASSUME NEW s \in Sockets PROVE AttemptOf(s)'
  <2>1. s \in Targets
    BY DEF Targets
  <2>2. CASE s = t
    BY <1>1, <2>1, <2>2, AttemptOver DEF Types, TypeOK
  <2>3. CASE s # t /\ status[s] \notin {"CONNECTING", "CONNECTED"}
    BY <1>1, <2>1, <2>3, AttemptOver DEF Types, TypeOK
  <2>4. CASE s # t /\ status[s] \in {"CONNECTING", "CONNECTED"}
    <3>1. status'[s] = status[s] /\ fd'[s] = fd[s] /\ fd[s] \in Fds
      BY <1>1, <2>1, <2>4, AttemptOpen DEF Types, TypeOK
    <3>2. table'[fd[s]] = s => table[fd[s]] = s
      BY <1>1, <2>4, <3>1 DEF Types, TypeOK
    <3>3. QED
      BY <1>2, <2>4, <3>1, <3>2, AttemptStays
  <2>5. QED
    BY <2>2, <2>3, <2>4
<1>4. QED
  BY <1>3

LEMMA NewSocketAttempts ==
  ASSUME Types, Good, \A s \in Sockets : AttemptOf(s), NewSocket
  PROVE  \A s \in Sockets : AttemptOf(s)'
<1> DEFINE t == CHOOSE x \in Unallocated : TRUE
<1>1. /\ Unallocated # {} /\ Construct(t, "IDLE") /\ UNCHANGED <<platform, task>>
      /\ conn' = [conn EXCEPT ![t].edge = Edge]
  BY DEF NewSocket
<1>2. t \in Targets /\ status[t] = "NEW"
  BY <1>1, NewObject DEF Targets
<1> HIDE DEF t
<1>3. \A s \in Sockets \ {t} : conn'[s] = conn[s]
  BY <1>1, <1>2 DEF Types, Targets
<1>4. QED
  BY <1>1, <1>2, <1>3, NewAttempts

LEMMA NewServerAttempts ==
  ASSUME Types, Good, \A s \in Sockets : AttemptOf(s), NEW v \in Servers, NewServer(v)
  PROVE  \A s \in Sockets : AttemptOf(s)'
<1>1. /\ v \in Targets /\ status[v] = "NEW" /\ Construct(v, "IDLE") /\ UNCHANGED <<platform, task>>
      /\ conn' = [conn EXCEPT ![v].edge = Edge]
  BY DEF NewServer, Targets
<1>2. \A s \in Sockets \ {v} : conn'[s] = conn[s]
  BY <1>1 DEF Types, Targets
<1>3. QED
  BY <1>1, <1>2, NewAttempts

LEMMA AcceptAttempts ==
  ASSUME Types, Good, \A s \in Sockets : AttemptOf(s), Accept
  PROVE  \A s \in Sockets : AttemptOf(s)'
<1> DEFINE t == CHOOSE x \in Unallocated : TRUE
           c == Conn(T)
<1>1. /\ Unallocated # {} /\ Construct(t, "CONNECTED") /\ UNCHANGED <<platform, task>>
      /\ conn[c].net = "listen"
      /\ conn' = [conn EXCEPT ![c].backlog = conn[c].backlog - 1,
                              ![t].net = "up", ![t].edge = Edge]
  BY DEF Accept, Listening, T
<1>2. t \in Targets /\ status[t] = "NEW"
  BY <1>1, NewObject DEF Targets
<1> HIDE DEF t, c
<1>3. conn'[t].net = "up"
  BY <1>1, <1>2 DEF Types, Connections
<1>4. \A s \in Sockets \ {t} :
        /\ conn'[s].net = conn[s].net /\ conn'[s].eof = conn[s].eof
        /\ conn'[s].err = conn[s].err
  BY <1>1, <1>2 DEF Types, Connections, Targets
<1>5. QED
  BY <1>1, <1>2, <1>3, <1>4, NewAttempts

LEMMA ListenAttempts ==
  ASSUME Types, Good, \A s \in Sockets : AttemptOf(s), NEW v \in Servers, Listen(v)
  PROVE  \A s \in Sockets : AttemptOf(s)'
<1>1. /\ status[v] = "IDLE" /\ status' = [status EXCEPT ![v] = "LISTENING"]
      /\ conn' = [conn EXCEPT ![Conn(v)].net = "listen"]
      /\ T' = T /\ UNCHANGED <<platform, fd, table, batch, step>>
  BY DEF Listen, task, T
<1>2. v \in Targets /\ v \notin Sockets /\ Open(v)
  BY <1>1, ReactorAssumption DEF Targets, Open, Good, ObjInv, NumberInv
<1>3. Conn(v) = v
  BY <1>2, OpenFacts DEF Good
<1>4. \A s \in Sockets : status'[s] = status[s] /\ conn'[s] = conn[s]
  BY <1>1, <1>2, <1>3 DEF Types, TypeOK, Targets
<1>5. QED
  BY <1>1, <1>4, AttemptStays

LEMMA ConnectAttempts ==
  ASSUME Types, Good, \A s \in Sockets : AttemptOf(s), FormInv, NEW s \in Sockets, Connect(s),
         Calm'
  PROVE  \A r \in Sockets : AttemptOf(r)'
<1>1. step = "idle"
  BY DEF Connect, Did, Calm
<1>2. s \in Targets /\ Open(s)
  BY DEF Targets, Connect, Open, Good, ObjInv, NumberInv
<1>3. Conn(s) = s
  BY <1>2, OpenFacts DEF Good
<1>4. PICK st \in {"CONNECTING", "CONNECTED"}, net \in {"syn", "up"} :
        /\ status' = [status EXCEPT ![s] = st]
        /\ st = "CONNECTED" <=> net = "up"
        /\ \/ conn' = [conn EXCEPT ![s].net = net, ![s].edge = Edge]
           \/ conn' = [conn EXCEPT ![s].net = net]
  BY <1>3 DEF Connect
<1>5. T' = T /\ UNCHANGED <<platform, fd, table, batch, step>>
  BY DEF Connect, task, T
<1>6. batch = {} /\ T = Absent
  BY <1>1 DEF FormInv, Good, TaskInv, NowInv
<1>7. conn'[s].net = net /\ \A r \in Sockets \ {s} : conn'[r] = conn[r]
  BY <1>2, <1>4 DEF Types, Connections, Targets
<1>8. AttemptOf(s)'
  BY <1>2, <1>4, <1>5, <1>6, <1>7, FdFacts DEF AttemptOf, Types, TypeOK
<1>9. ASSUME NEW r \in Sockets, r # s PROVE AttemptOf(r)'
  BY <1>4, <1>5, <1>7, <1>9, AttemptStays DEF Types, TypeOK, Targets
<1>10. QED
  BY <1>8, <1>9

LEMMA CloseAttempts ==
  ASSUME Types, Good, \A s \in Sockets : AttemptOf(s), NEW s \in Sockets, Close(s)
  PROVE  \A r \in Sockets : AttemptOf(r)'
<1>1. s \in Targets /\ Open(s)
  BY FdFacts DEF Targets, Close, Open, Conn
<1>2. fd[s] \in Fds /\ kfd[fd[s]] = s
  BY <1>1, OpenFacts DEF Good
<1>3. /\ status' = [status EXCEPT ![s] = "HALF_CLOSED"] \/ status' = [status EXCEPT ![s] = "CLOSED"]
      /\ fd' = fd \/ fd' = [fd EXCEPT ![s] = 0]
      /\ conn' = [conn EXCEPT ![s] = NoConn]
      /\ T' = T /\ UNCHANGED <<platform, table, batch, step>>
  BY <1>2 DEF Close, CloseFd, task, T
<1>4. AttemptOf(s)'
  BY <1>1, <1>3, AttemptOver DEF Types, TypeOK
<1>5. ASSUME NEW r \in Sockets, r # s PROVE AttemptOf(r)'
  <2>1. status'[r] = status[r] /\ fd'[r] = fd[r] /\ conn'[r] = conn[r]
    BY <1>1, <1>3, <1>5 DEF Types, TypeOK, Targets
  <2>2. QED
    BY <1>3, <2>1, AttemptStays
<1>6. QED
  BY <1>4, <1>5

LEMMA CloseServerAttempts ==
  ASSUME Types, Good, \A s \in Sockets : AttemptOf(s), NEW v \in Servers, CloseServer(v),
         Conn(v) # Absent, state' # "stolen"
  PROVE  \A s \in Sockets : AttemptOf(s)'
<1>1. /\ status[v] # "CLOSED" /\ Conn(v) # Absent /\ reactor_unreg(fd[v])
      /\ status' = [status EXCEPT ![v] = "CLOSED"]
      /\ conn' = [conn EXCEPT ![kfd[fd[v]]] = NoConn]
      /\ T' = T /\ UNCHANGED <<platform, fd, batch, step>>
  BY DEF CloseServer, CloseFd, task, T
<1>2. v \in Targets /\ v \notin Sockets /\ Open(v)
  BY <1>1, ReactorAssumption, FdFacts DEF Targets, Conn, Good, ObjInv, NumberInv, Open
<1>3. fd[v] \in Fds /\ kfd[fd[v]] = v
  BY <1>2, OpenFacts DEF Good
<1>4. \A m \in Fds : table'[m] = IF m = fd[v] THEN Absent ELSE table[m]
  BY <1>1, UnregFacts
<1>5. ASSUME NEW s \in Sockets PROVE AttemptOf(s)'
  <2>1. status'[s] = status[s] /\ conn'[s] = conn[s]
    BY <1>1, <1>2, <1>3 DEF Types, TypeOK, Targets
  <2>2. status[s] = "CONNECTING" /\ table'[fd[s]] = s => table[fd[s]] = s
    BY <1>4, AttemptOpen, FdFacts
  <2>3. QED
    BY <1>1, <2>1, <2>2, AttemptStays
<1>6. QED
  BY <1>5

LEMMA CloseAgainAttempts ==
  ASSUME Types, Good, \A s \in Sockets : AttemptOf(s), NEW v \in Servers, CloseServer(v),
         Conn(v) = Absent
  PROVE  \A s \in Sockets : AttemptOf(s)'
<1>1. /\ fd[v] \in Fds /\ reactor_unreg(fd[v])
      /\ UNCHANGED <<platform, status, fd, batch, step, now, conn>>
  BY CloseAgainFacts DEF Good
<1>2. T' = T
  BY <1>1 DEF T
<1>3. \A m \in Fds : table'[m] \in {Absent, table[m]}
  BY <1>1, UnregFacts
<1>4. ASSUME NEW s \in Sockets PROVE AttemptOf(s)'
  <2>1. s # Absent
    BY FdFacts DEF Targets
  <2>2. status[s] = "CONNECTING" /\ table'[fd[s]] = s => table[fd[s]] = s
    BY <1>3, <2>1, AttemptOpen
  <2>3. QED
    BY <1>1, <1>2, <2>1, <2>2, AttemptStays
<1>5. QED
  BY <1>4

-----------------------------------------------------------------------------
(* What is reported of a socket that is making a connection. *)
LEMMA ReadyOf ==
  ASSUME Types, Good, FormInv, NEW s \in Sockets, status[s] = "CONNECTING"
  PROVE  /\ conn[s].net = "syn" => \A e \in Ready : e.fd # fd[s]
         /\ conn[s].eof /\ platform = "epoll" => \A e \in Ready : e.fd = fd[s] => e.in
         /\ conn[s].eof /\ platform # "epoll" => \E e \in Ready : e.fd = fd[s] /\ e.in
<1>1. s \in Targets /\ fd[s] \in Fds /\ kfd[fd[s]] = s
  BY AttemptOpen
<1>2. fd[s] \in Fds \ Free
  BY <1>1, FdFacts DEF Free
<1>3. conn[s].eof => Readable(kfd[fd[s]])
  BY <1>1 DEF Readable
<1>4. conn[s].net = "syn" => ~Readable(kfd[fd[s]])
  BY <1>1 DEF Good, ConnInv, ConnOf, Readable, FormInv
<1>5. ASSUME platform = "epoll", NEW e \in Ready, e.fd = fd[s]
      PROVE  conn[s].net # "syn" /\ (conn[s].eof => e.in)
  <2>1. PICK n \in {m \in Fds \ Free :
                      /\ conn[kfd[m]].edge
                      /\ conn[kfd[m]].net # "syn"
                      /\ conn[kfd[m]].net = "listen" => Readable(kfd[m])} :
          e = [fd |-> n, in |-> Readable(kfd[n]), out |-> kfd[n] \in Sockets]
    BY Zenon, <1>5 DEF Ready, EpollReady
  <2>2. n = fd[s] /\ e.in = Readable(kfd[n])
    BY <1>5, <2>1
  <2>3. QED
    BY <1>1, <1>3, <2>1, <2>2
<1>6. ASSUME platform # "epoll", NEW e \in Ready, e.fd = fd[s]
      PROVE  conn[s].net # "syn"
  <2>1. \/ \E n \in {m \in Fds \ Free : Readable(kfd[m])} :
             e = [fd |-> n, in |-> TRUE, out |-> FALSE]
        \/ \E n \in {m \in Fds \ Free : kfd[m] \in Sockets /\ conn[kfd[m]].net \notin {"none", "syn"}} :
             e = [fd |-> n, in |-> FALSE, out |-> TRUE]
    BY Zenon, <1>6 DEF Ready, KqueueReady
  <2>2. QED
    BY <1>1, <1>4, <1>6, <2>1
<1>7. ASSUME platform # "epoll", conn[s].eof
      PROVE  \E e \in Ready : e.fd = fd[s] /\ e.in
  <2> DEFINE e == [fd |-> fd[s], in |-> TRUE, out |-> FALSE]
  <2>1. e \in KqueueReady
    BY <1>2, <1>3, <1>7 DEF KqueueReady
  <2>2. QED
    BY <1>7, <2>1 DEF Ready
<1>8. QED
  BY <1>5, <1>6, <1>7

LEMMA PollAttempts ==
  ASSUME Types, Good, FormInv, \A s \in Sockets : AttemptOf(s), Poll
  PROVE  \A s \in Sockets : AttemptOf(s)'
<1>1. /\ step = "idle" /\ batch' = Ready /\ step' = "dispatch" /\ T' = T
      /\ UNCHANGED <<platform, status, fd, table>>
  BY DEF Poll, objects, T
<1>2. batch = {} /\ T = Absent
  BY <1>1 DEF FormInv, Good, TaskInv, NowInv
<1>3. \A c \in Targets : conn'[c] = conn[c] \/ conn'[c] = [conn[c] EXCEPT !.edge = FALSE]
  BY DEF Poll
<1>4. ASSUME NEW s \in Sockets PROVE AttemptOf(s)'
  <2>1. s \in Targets /\ s # Absent /\ conn[s] \in Connections
    BY FdFacts DEF Targets, Types
  <2>2. /\ conn'[s].net = conn[s].net /\ conn'[s].eof = conn[s].eof /\ conn'[s].err = conn[s].err
    BY <1>3, <2>1 DEF Connections
  <2>3. CASE status[s] # "CONNECTING"
    BY <1>1, <2>2, <2>3, AttemptOver DEF AttemptOf
  <2>4. CASE status[s] = "CONNECTING"
    <3>1. conn[s].net \in {"syn", "up", "failed", "reset"}
      BY <2>4 DEF AttemptOf
    <3>2. conn[s].net = "syn" => \A e \in batch' : e.fd # fd[s]
      BY <1>1, <2>4, ReadyOf
    <3>3. ASSUME conn[s].net = "failed" PROVE FailedOf(s)'
      <4>1. FailedOf(s)
        BY <2>4, <3>3 DEF AttemptOf
      <4>2. conn'[s].eof /\ conn[s].eof
        BY <2>2, <4>1 DEF FailedOf
      <4>3. platform = "epoll" => conn'[s].err /\ \A e \in batch' : e.fd = fd[s] => e.in
        BY <1>1, <2>2, <2>4, <4>1, <4>2, ReadyOf DEF FailedOf
      <4>4. platform = "kqueue" => InDue(s)' /\ (conn[s].err \/ table[fd[s]] # s)
        <5>1. platform = "kqueue" => InDue(s)'
          BY <1>1, <2>4, <4>2, ReadyOf DEF InDue
        <5>2. ~InDue(s)
          BY <1>2 DEF InDue
        <5>3. QED
          BY <1>2, <2>1, <4>1, <5>1, <5>2 DEF FailedOf
      <4>5. QED
        BY <1>1, <1>2, <2>1, <2>2, <4>2, <4>3, <4>4 DEF FailedOf
    <3>4. QED
      BY <1>1, <1>2, <2>1, <2>2, <2>4, <3>1, <3>2, <3>3 DEF AttemptOf
  <2>5. QED
    BY <2>3, <2>4
<1>5. QED
  BY <1>4

(* An event is taken from the batch, for its socket or another. *)
LEMMA DispatchAttempts ==
  ASSUME Types, Good, FormInv, \A s \in Sockets : AttemptOf(s), NEW e \in batch, Dispatch(e)
  PROVE  \A s \in Sockets : AttemptOf(s)'
<1>1. /\ step = "dispatch" /\ batch' = batch \ {e} /\ e.fd \in Fds
      /\ e \in [fd : Fds, in : BOOLEAN, out : BOOLEAN]
      /\ UNCHANGED <<platform, status, fd, table, conn>>
  BY DEF Dispatch, Code, objects, kernel, Types, TypeOK
<1>2. T = Absent
  BY <1>1 DEF Good, TaskInv, NowInv
<1>3. \/ table[e.fd] # Absent /\ T' = table[e.fd]
         /\ (T' \in Sockets => step' = IF e.in THEN "read" ELSE "write")
      \/ table[e.fd] = Absent /\ T' = Absent /\ step' = step
  <2>1. Sockets \cap Servers = {}
    BY ReactorAssumption
  <2>2. QED
    BY <1>2, <2>1 DEF Dispatch, T
<1>4. ASSUME NEW s \in Sockets PROVE AttemptOf(s)'
  <2>1. s # Absent /\ s \in Targets
    BY FdFacts DEF Targets
  <2>2. CASE status[s] # "CONNECTING"
    BY <1>1, <1>4, <2>2, AttemptOver DEF AttemptOf
  <2>3. CASE status[s] = "CONNECTING"
    <3>1. AttemptOf(s) /\ fd[s] \in Fds /\ fd[s] # 0
      BY <2>3, AttemptOpen, FdFacts
    <3>2. T' = s => table[fd[s]] = s /\ e.fd = fd[s]
      BY <1>1, <1>3, <2>1, <3>1 DEF Good, ObjInv, TableInv
    <3>3. conn[s].net = "syn" => T' # s /\ \A d \in batch' : d.fd # fd[s]
      BY <1>1, <2>3, <3>1, <3>2 DEF AttemptOf
    <3>4. ASSUME conn[s].net = "failed" PROVE FailedOf(s)'
      <4>1. FailedOf(s)
        BY <2>3, <3>1, <3>4 DEF AttemptOf
      <4>2. ASSUME platform = "epoll"
            PROVE  ~(T' = s /\ step' \in {"ended", "write"})
        BY <1>3, <2>1, <3>2, <4>1, <4>2 DEF FailedOf
      <4>3. ASSUME platform = "kqueue"
            PROVE  /\ OutDue(s)' /\ table[fd[s]] = s =>
                        conn[s].err /\ (InDue(s)' \/ (T' = s /\ step' = "read"))
                   /\ T' = s /\ step' = "write" => conn[s].err /\ InDue(s)' /\ ~OutDue(s)'
                   /\ \/ conn[s].err \/ table[fd[s]] # s \/ InDue(s)'
                      \/ (T' = s /\ step' \in {"read", "ended"})
        <5>1. OutDue(s)' => OutDue(s)
          BY <1>1 DEF OutDue
        <5>2. CASE e.fd # fd[s] \/ table[fd[s]] # s
          <6>1. T' # s
            BY <3>2, <5>2
          <6>2. e.fd # fd[s] => (InDue(s)' <=> InDue(s))
            BY <1>1 DEF InDue
          <6>3. QED
            BY <1>2, <2>1, <4>1, <4>3, <5>1, <5>2, <6>1, <6>2 DEF FailedOf
        <5>3. CASE e.fd = fd[s] /\ table[fd[s]] = s /\ e.in
          <6>1. T' = s /\ step' = "read"
            BY <1>3, <2>1, <5>3
          <6>2. QED
            BY <4>1, <4>3, <5>1, <5>3, <6>1 DEF FailedOf
        <5>4. CASE e.fd = fd[s] /\ table[fd[s]] = s /\ ~e.in
          <6>1. T' = s /\ step' = "write"
            BY <1>3, <2>1, <5>4
          <6>2. e.out /\ OutDue(s)
            BY <1>1, <4>3, <5>4 DEF FormInv, OutDue
          <6>3. conn[s].err /\ InDue(s)
            BY <1>2, <2>1, <4>1, <4>3, <5>4, <6>2 DEF FailedOf
          <6>4. InDue(s)'
            BY <1>1, <5>4, <6>3 DEF InDue
          <6>5. ~OutDue(s)'
            <7>1. ASSUME NEW d \in batch, d.fd = fd[s], d.out PROVE d = e
              <8>1. d \in [fd : Fds, in : BOOLEAN, out : BOOLEAN] /\ ~d.in
                BY <4>3, <7>1 DEF FormInv, Types, TypeOK
              <8>2. QED
                BY <1>1, <5>4, <6>2, <7>1, <8>1
            <7>2. QED
              BY <1>1, <7>1 DEF OutDue
          <6>6. QED
            BY <6>1, <6>3, <6>4, <6>5
        <5>5. QED
          BY <5>2, <5>3, <5>4
      <4>4. QED
        BY <1>1, <4>1, <4>2, <4>3 DEF FailedOf
    <3>5. QED
      BY <1>1, <2>3, <3>1, <3>3, <3>4 DEF AttemptOf
  <2>4. QED
    BY <2>2, <2>3
<1>5. QED
  BY <1>4

(* The handler goes on, for a socket that is not making a connection. *)
LEMMA GoesAttempts ==
  ASSUME Types, \A s \in Sockets : AttemptOf(s), NEW st, Goes(st),
         T # Absent, T \in Sockets => status[T] # "CONNECTING",
         UNCHANGED <<platform, status, fd, table, batch, conn>>
  PROVE  \A s \in Sockets : AttemptOf(s)'
<1>1. T' = T \/ T' = Absent
  BY GoesFacts
<1>2. ASSUME NEW s \in Sockets PROVE AttemptOf(s)'
  <2>1. s # Absent
    BY FdFacts DEF Targets
  <2>2. CASE T = s
    BY <1>2, <2>2, AttemptOver DEF AttemptOf
  <2>3. CASE T # s
    BY <1>1, <2>1, <2>3, AttemptStays
  <2>4. QED
    BY <2>2, <2>3
<1>3. QED
  BY <1>2

LEMMA ReadAttempts ==
  ASSUME Types, Good, \A s \in Sockets : AttemptOf(s), Read
  PROVE  \A s \in Sockets : AttemptOf(s)'
<1>1. /\ step = "read" /\ Conn(T) # Absent /\ ~conn[Conn(T)].err
      /\ conn' = [conn EXCEPT ![Conn(T)].unread = FALSE]
      /\ Goes(IF conn[Conn(T)].eof THEN "ended" ELSE AfterRead)
      /\ UNCHANGED <<platform, status, fd, table, batch>>
  BY DEF Read, CanRead, objects, T
<1>2. T \in Sockets /\ T \in Targets /\ table[fd[T]] = T /\ Conn(T) = T
  BY <1>1, ReadFacts
<1>3. \A s \in Sockets :
        /\ conn'[s].net = conn[s].net /\ conn'[s].eof = conn[s].eof /\ conn'[s].err = conn[s].err
  BY <1>1, <1>2 DEF Types, Connections, Targets
<1>4. (T' = T \/ T' = Absent) /\ (conn[T].eof => T' = T /\ step' = "ended")
  BY <1>1, <1>2, GoesFacts
<1>5. ASSUME NEW s \in Sockets, s # T PROVE AttemptOf(s)'
  <2>1. s # Absent
    BY FdFacts DEF Targets
  <2>2. QED
    BY <1>1, <1>3, <1>4, <1>5, <2>1, AttemptStays
<1>6. ASSUME NEW s \in Sockets, s = T PROVE AttemptOf(s)'
  <2>1. AttemptOf(s) /\ fd'[s] = fd[s] /\ status'[s] = status[s] /\ table[fd[s]] = s
    BY <1>1, <1>2, <1>6
  <2>2. OutDue(s)' <=> OutDue(s)
    BY <1>1 DEF OutDue
  <2>3. ASSUME status[s] = "CONNECTING", conn[s].net = "failed"
        PROVE  FailedOf(s)'
    <3>1. FailedOf(s) /\ ~conn[s].err
      BY <1>1, <1>2, <1>6, <2>1, <2>3 DEF AttemptOf
    <3>2. T' = s /\ step' = "ended"
      BY <1>4, <1>6, <3>1 DEF FailedOf
    <3>3. platform # "epoll" /\ (platform = "kqueue" => ~OutDue(s))
      BY <1>6, <2>1, <3>1 DEF FailedOf
    <3>4. QED
      BY <1>1, <1>3, <2>2, <3>1, <3>2, <3>3 DEF FailedOf
  <2>4. status[s] = "CONNECTING" => conn[s].net # "syn"
    BY <1>6, <2>1 DEF AttemptOf
  <2>5. QED
    BY <1>1, <1>3, <2>1, <2>3, <2>4 DEF AttemptOf
<1>7. QED
  BY <1>5, <1>6

LEMMA EndedAttempts ==
  ASSUME Types, \A s \in Sockets : AttemptOf(s), Ended
  PROVE  \A s \in Sockets : AttemptOf(s)'
<1>1. /\ T \in Sockets /\ T \in Targets
      /\ \/ status' = [status EXCEPT ![T] = "HALF_CLOSED"]
         \/ status' = [status EXCEPT ![T] = "CLOSED"]
      /\ UNCHANGED <<platform, fd, table, batch, conn>>
  BY DEF Ended, kernel, Types, TypeOK, T, Targets
<1>2. T' = T \/ T' = Absent
  BY DEF Ended, Goes, NoEvent, T
<1>3. ASSUME NEW s \in Sockets PROVE AttemptOf(s)'
  <2>1. s # Absent /\ s \in Targets
    BY FdFacts DEF Targets
  <2>2. CASE s = T
    BY <1>1, <2>2, AttemptOver DEF Types, TypeOK
  <2>3. CASE s # T
    BY <1>1, <1>2, <2>1, <2>3, AttemptStays DEF Types, TypeOK
  <2>4. QED
    BY <2>2, <2>3
<1>4. QED
  BY <1>3

LEMMA UnregisterAttempts ==
  ASSUME Types, Good, \A s \in Sockets : AttemptOf(s), Unregister
  PROVE  \A s \in Sockets : AttemptOf(s)'
<1>1. /\ step = "unreg" /\ reactor_unreg(fd[T]) /\ (T' = T \/ T' = Absent)
      /\ UNCHANGED <<platform, status, fd, batch, conn>>
  BY DEF Unregister, kernel, Goes, NoEvent, T
<1>2. status[T] = "CLOSED"
  BY <1>1 DEF Good, TaskInv, UnregInv
<1>3. \A m \in Fds : table'[m] = IF m = fd[T] THEN Absent ELSE table[m]
  BY <1>1, UnregFacts
<1>4. ASSUME NEW s \in Sockets PROVE AttemptOf(s)'
  <2>1. s # Absent
    BY FdFacts DEF Targets
  <2>2. CASE s = T
    BY <1>1, <1>2, <2>2, AttemptOver
  <2>3. CASE s # T
    <3>1. status[s] = "CONNECTING" /\ table'[fd[s]] = s => table[fd[s]] = s
      BY <1>3, <2>1, AttemptOpen
    <3>2. QED
      BY <1>1, <2>1, <2>3, <3>1, AttemptStays
  <2>4. QED
    BY <2>2, <2>3
<1>5. QED
  BY <1>4

(* The test of SO_ERROR: without an error the connection stands. *)
LEMMA ConnectedAttempts ==
  ASSUME Types, Good, \A s \in Sockets : AttemptOf(s), Connected
  PROVE  \A s \in Sockets : AttemptOf(s)'
<1>1. step = "write" /\ status[T] = "CONNECTING" /\ T \in Sockets
  BY DEF Connected, Types, TypeOK, T
<1>2. T \in Targets /\ Conn(T) = T /\ T # Absent
  BY <1>1, AttemptOpen, FdFacts
<1>3. /\ status' = [status EXCEPT ![T] = IF conn[T].err THEN status[T] ELSE "CONNECTED"]
      /\ conn' = [conn EXCEPT ![T].err = FALSE]
      /\ step' = "dispatch" /\ T' = Absent
      /\ UNCHANGED <<platform, fd, table, batch>>
  BY <1>2, GoesFacts DEF Connected, T
<1>4. \A s \in Sockets : conn'[s].net = conn[s].net /\ conn'[s].eof = conn[s].eof
  BY <1>2, <1>3 DEF Types, Connections, Targets
<1>5. ASSUME NEW s \in Sockets, s # T PROVE AttemptOf(s)'
  <2>1. s \in Targets /\ s # Absent
    BY FdFacts DEF Targets
  <2>2. status'[s] = status[s] /\ conn'[s] = conn[s]
    BY <1>2, <1>3, <1>5, <2>1 DEF Types, TypeOK
  <2>3. QED
    BY <1>3, <1>5, <2>1, <2>2, AttemptStays
<1>6. ASSUME NEW s \in Sockets, s = T PROVE AttemptOf(s)'
  <2>1. /\ conn[s].net \in {"up", "failed", "reset"}
        /\ conn[s].net = "failed" => FailedOf(s)
    BY <1>1, <1>6 DEF AttemptOf
  <2>2. conn[s].net = "failed" =>
          /\ conn[s].eof /\ platform # "epoll"
          /\ platform = "kqueue" => conn[s].err /\ InDue(s) /\ ~OutDue(s)
    BY <1>1, <1>6, <2>1 DEF FailedOf
  <2>3. platform \in {"epoll", "kqueue"}
    BY ReactorAssumption DEF Types, TypeOK
  <2>4. CASE conn[s].err
    <3>1. status'[s] = "CONNECTING"
      BY <1>1, <1>2, <1>3, <1>6, <2>4 DEF Types, TypeOK
    <3>2. (OutDue(s)' <=> OutDue(s)) /\ (InDue(s)' <=> InDue(s))
      BY <1>3 DEF OutDue, InDue
    <3>3. conn[s].net = "failed" => FailedOf(s)'
      BY <1>2, <1>3, <1>4, <1>6, <2>2, <2>4, <3>2 DEF FailedOf
    <3>4. QED
      BY <1>4, <2>1, <3>1, <3>3 DEF AttemptOf
  <2>5. CASE ~conn[s].err
    BY <1>2, <1>3, <1>4, <1>6, <2>1, <2>2, <2>3, <2>5, AttemptOver DEF Types, TypeOK
  <2>6. QED
    BY <2>4, <2>5
<1>7. QED
  BY <1>5, <1>6

LEMMA DispatchesAttempts ==
  ASSUME Types, \A s \in Sockets : AttemptOf(s), Flush \/ AcceptEnd
  PROVE  \A s \in Sockets : AttemptOf(s)'
<1>1. /\ Goes("dispatch") /\ UNCHANGED <<platform, status, fd, table, batch, conn>>
      /\ step = "accept" \/ (step = "write" /\ status[T] # "CONNECTING")
  BY DEF Flush, AcceptEnd, objects, kernel, T
<1>2. T # Absent /\ (T \in Sockets => status[T] # "CONNECTING")
  BY <1>1, FdFacts, ReactorAssumption DEF Types, TypeOK, T, Targets
<1>3. QED
  BY <1>1, <1>2, GoesAttempts

LEMMA QuietAttempts ==
  ASSUME Types, Good, \A s \in Sockets : AttemptOf(s),
         UseFreed \/ BatchEnd \/ HandlerReturns \/ HandlerThrows, Calm'
  PROVE  \A s \in Sockets : AttemptOf(s)'
<1>1. /\ UNCHANGED <<platform, status, fd, batch, now, conn>>
      /\ step' = step \/ T = Absent
      /\ UNCHANGED table \/ \E n : reactor_unreg(n)
  <2>1. CASE UseFreed
    BY <2>1 DEF UseFreed, objects, task, kernel
  <2>2. CASE BatchEnd
    <3>1. T = Absent
      BY <2>2 DEF BatchEnd, Good, TaskInv, NowInv
    <3>2. QED
      BY <2>2, <3>1 DEF BatchEnd, objects, kernel
  <2>3. CASE HandlerReturns
    BY <2>3 DEF HandlerReturns, task, kernel
  <2>4. CASE HandlerThrows
    BY <2>4 DEF HandlerThrows, Escapes, Calm, objects, task, kernel
  <2>5. QED
    BY <2>1, <2>2, <2>3, <2>4
<1>2. T' = T
  BY <1>1 DEF T
<1>3. \A m \in Fds : table'[m] \in {Absent, table[m]}
  BY <1>1, UnregFacts
<1>4. ASSUME NEW s \in Sockets PROVE AttemptOf(s)'
  <2>1. s # Absent
    BY FdFacts DEF Targets
  <2>2. status[s] = "CONNECTING" /\ table'[fd[s]] = s => table[fd[s]] = s
    BY <1>3, <2>1, AttemptOpen
  <2>3. QED
    BY <1>1, <1>2, <2>1, <2>2, AttemptStays
<1>5. QED
  BY <1>4

(* The network ends an attempt before anything is reported of it, and       *)
(* resets only a connection that stood.                                     *)
LEMMA NetworkAttempts ==
  ASSUME Types, Good, \A s \in Sockets : AttemptOf(s), Network
  PROVE  \A s \in Sockets : AttemptOf(s)'
<1>1. Edge \in BOOLEAN /\ T' = T /\ UNCHANGED <<platform, status, fd, table, batch, step>>
  <2>1. PICK c, to : Happens(c, to)
    <3>1. \A s : ConnectEnds(s) \/ PeerSends(s) \/ PeerEnds(s) \/ PeerResets(s) \/ SpaceFreed(s)
                   \/ PeerConnects(s) => \E to : Happens(s, to)
      BY Zenon DEF ConnectEnds, PeerSends, PeerEnds, PeerResets, SpaceFreed, PeerConnects
    <3>2. QED
      BY <3>1 DEF Network
  <2>2. QED
    BY <2>1 DEF Edge, Happens, objects, task, T
<1>2. ASSUME NEW v \in Servers, PeerConnects(v)
      PROVE  \A s \in Sockets : AttemptOf(s)'
  <2>1. \A s \in Sockets : conn'[s] = conn[s]
    BY <1>2, ReactorAssumption DEF PeerConnects, Happens, Types, Targets
  <2>2. QED
    BY <1>1, <2>1, AttemptStays
<1>3. ASSUME NEW c \in Sockets,
             ConnectEnds(c) \/ PeerSends(c) \/ PeerEnds(c) \/ PeerResets(c) \/ SpaceFreed(c)
      PROVE  \A s \in Sockets : AttemptOf(s)'
  <2>1. c \in Targets /\ conn[c] \in Connections
    BY DEF Targets, Types
  <2>2. /\ \A s \in Sockets \ {c} : conn'[s] = conn[s]
        /\ \/ conn[c].net = "syn"
              /\ \/ conn'[c].net = "up"
                 \/ conn'[c].net = "failed" /\ conn'[c].eof /\ conn'[c].err
           \/ conn[c].net = "up" /\ conn'[c].net \in {"up", "reset"}
    <3>1. ASSUME NEW to, Happens(c, to), to \in Connections
          PROVE  /\ \A s \in Sockets \ {c} : conn'[s] = conn[s]
                 /\ conn'[c].net = to.net /\ conn'[c].eof = to.eof /\ conn'[c].err = to.err
      BY <1>1, <2>1, <3>1 DEF Happens, Types, Connections, Targets
    <3>2. CASE conn[c].net = "syn" /\ Happens(c, [conn[c] EXCEPT !.net = "up"])
      <4>1. PICK to \in Connections : to = [conn[c] EXCEPT !.net = "up"]
        BY <2>1 DEF Connections
      <4>2. Happens(c, to) /\ to.net = "up"
        BY <2>1, <3>2, <4>1 DEF Connections
      <4>3. QED
        BY <3>1, <3>2, <4>2
    <3>3. CASE /\ conn[c].net = "syn"
              /\ Happens(c, [conn[c] EXCEPT !.net = "failed", !.eof = TRUE, !.err = TRUE])
      <4>1. PICK to \in Connections :
              to = [conn[c] EXCEPT !.net = "failed", !.eof = TRUE, !.err = TRUE]
        BY <2>1 DEF Connections
      <4>2. Happens(c, to) /\ to.net = "failed" /\ to.eof /\ to.err
        BY <2>1, <3>3, <4>1 DEF Connections
      <4>3. QED
        BY <3>1, <3>3, <4>2
    <3>4. CASE conn[c].net = "up" /\ Happens(c, [conn[c] EXCEPT !.unread = TRUE])
      <4>1. PICK to \in Connections : to = [conn[c] EXCEPT !.unread = TRUE]
        BY <2>1 DEF Connections
      <4>2. Happens(c, to) /\ to.net = "up"
        BY <2>1, <3>4, <4>1 DEF Connections
      <4>3. QED
        BY <3>1, <3>4, <4>2
    <3>5. CASE conn[c].net = "up" /\ Happens(c, [conn[c] EXCEPT !.eof = TRUE])
      <4>1. PICK to \in Connections : to = [conn[c] EXCEPT !.eof = TRUE]
        BY <2>1 DEF Connections
      <4>2. Happens(c, to) /\ to.net = "up"
        BY <2>1, <3>5, <4>1 DEF Connections
      <4>3. QED
        BY <3>1, <3>5, <4>2
    <3>6. CASE /\ conn[c].net = "up"
              /\ Happens(c, [conn[c] EXCEPT !.net = "reset", !.eof = TRUE, !.err = TRUE])
      <4>1. PICK to \in Connections :
              to = [conn[c] EXCEPT !.net = "reset", !.eof = TRUE, !.err = TRUE]
        BY <2>1 DEF Connections
      <4>2. Happens(c, to) /\ to.net = "reset"
        BY <2>1, <3>6, <4>1 DEF Connections
      <4>3. QED
        BY <3>1, <3>6, <4>2
    <3>7. CASE conn[c].net = "up" /\ Happens(c, conn[c])
      BY <2>1, <3>1, <3>7
    <3>8. QED
      BY <1>3, <3>2, <3>3, <3>4, <3>5, <3>6, <3>7
         DEF ConnectEnds, PeerSends, PeerEnds, PeerResets, SpaceFreed
  <2>3. ASSUME NEW s \in Sockets, s # c PROVE AttemptOf(s)'
    BY <1>1, <2>2, <2>3, AttemptStays
  <2>4. AttemptOf(c)'
    <3>1. AttemptOf(c)
      OBVIOUS
    <3>2. ASSUME status[c] = "CONNECTING", conn'[c].net = "failed"
          PROVE  FailedOf(c)'
      <4>1. T # c /\ \A e \in batch : e.fd # fd[c]
        BY <2>2, <3>1, <3>2 DEF AttemptOf
      <4>2. ~OutDue(c)'
        BY <1>1, <4>1 DEF OutDue
      <4>3. QED
        BY <1>1, <2>2, <3>2, <4>1, <4>2 DEF FailedOf
    <3>3. QED
      BY <1>1, <2>2, <3>1, <3>2 DEF AttemptOf
  <2>5. QED
    BY <2>3, <2>4
<1>4. QED
  BY <1>2, <1>3, TalkFacts DEF Network

-----------------------------------------------------------------------------
LEMMA AttemptsNext ==
  ASSUME Types, Good, FormInv, \A s \in Sockets : AttemptOf(s), Next, state' # "stolen", Calm'
  PROVE  \A s \in Sockets : AttemptOf(s)'
<1>1. CASE Api
  BY <1>1, NewSocketAttempts, NewServerAttempts, ListenAttempts, ConnectAttempts, CloseAttempts,
     CloseServerAttempts, CloseAgainAttempts DEF Api
<1>2. CASE ReactorStep
  <2>1. ~Escapes
    BY DEF Escapes, Calm
  <2>2. ~ReadThrows /\ ~FlushThrows /\ ~AcceptThrows
    BY <2>1 DEF ReadThrows, FlushThrows, AcceptThrows
  <2>3. QED
    BY <1>2, <2>2, PollAttempts, DispatchAttempts, QuietAttempts, ReadAttempts, EndedAttempts,
       UnregisterAttempts, ConnectedAttempts, DispatchesAttempts, AcceptAttempts DEF ReactorStep
<1>3. CASE HandlerReturns \/ HandlerThrows
  BY <1>3, QuietAttempts
<1>4. CASE Network
  BY <1>4, NetworkAttempts
<1>5. QED
  BY <1>1, <1>2, <1>3, <1>4 DEF Next

(* The three facts about batches and connections that hold without more.    *)
LEMMA ReadyForm == platform = "kqueue" => \A e \in Ready : e.in = ~e.out
<1>1. SUFFICES ASSUME platform = "kqueue", NEW e \in Ready PROVE e.in = ~e.out
  OBVIOUS
<1>2. PICK n : \/ e = [fd |-> n, in |-> TRUE, out |-> FALSE]
               \/ e = [fd |-> n, in |-> FALSE, out |-> TRUE]
  BY Zenon, <1>1 DEF Ready, KqueueReady
<1>3. CASE e = [fd |-> n, in |-> TRUE, out |-> FALSE]
  BY <1>3
<1>4. CASE e = [fd |-> n, in |-> FALSE, out |-> TRUE]
  BY <1>4
<1>5. QED
  BY <1>2, <1>3, <1>4

LEMMA BatchFormNext ==
  ASSUME Types, Good, FormInv, Next
  PROVE  /\ step' = "idle" => batch' = {}
         /\ platform' = "kqueue" => \A e \in batch' : e.in = ~e.out
<1>1. CASE UNCHANGED <<platform, batch, step>>
  BY <1>1 DEF FormInv
<1>2. CASE Poll
  BY <1>2, ReadyForm DEF Poll
<1>3. CASE Escapes
  BY <1>3 DEF Escapes
<1>4. CASE BatchEnd
  BY <1>4 DEF BatchEnd, FormInv
<1>5. ASSUME NEW e \in batch, Dispatch(e)
      PROVE  platform' = platform /\ batch' \subseteq batch /\ step' # "idle"
  BY <1>5 DEF Dispatch
<1>6. ASSUME NEW st, st # "idle", Goes(st), UNCHANGED <<platform, batch>>
      PROVE  platform' = platform /\ batch' \subseteq batch /\ step' # "idle"
  BY <1>6 DEF Goes
<1>7. CASE Read \/ Ended \/ Unregister \/ Connected \/ Flush \/ AcceptEnd
  <2>1. AfterRead \in {"write", "dispatch"}
    BY DEF AfterRead
  <2>2. \E st : st # "idle" /\ Goes(st) /\ UNCHANGED <<platform, batch>>
    BY <1>7, <2>1 DEF Read, Ended, Unregister, Connected, Flush, AcceptEnd
  <2>3. QED
    BY <1>6, <2>2 DEF FormInv
<1>8. CASE Api \/ HandlerReturns \/ Network
  <2>1. CASE Api
    BY <1>1, <2>1 DEF Api, NewSocket, NewServer, Listen, Connect, Close, CloseServer, task
  <2>2. CASE HandlerReturns
    BY <1>1, <2>2 DEF HandlerReturns, task
  <2>3. CASE Network
    <3>1. \A s : ConnectEnds(s) \/ PeerSends(s) \/ PeerEnds(s) \/ PeerResets(s) \/ SpaceFreed(s)
                   \/ PeerConnects(s) => \E to : Happens(s, to)
      BY Zenon DEF ConnectEnds, PeerSends, PeerEnds, PeerResets, SpaceFreed, PeerConnects
    <3>2. PICK c, to : Happens(c, to)
      BY <2>3, <3>1 DEF Network
    <3>3. QED
      BY <1>1, <3>2 DEF Happens, task
  <2>4. QED
    BY <1>8, <2>1, <2>2, <2>3
<1>9. CASE HandlerThrows
  BY <1>1, <1>3, <1>9 DEF HandlerThrows, task
<1>10. CASE ReactorStep
  <2>1. CASE UseFreed \/ Accept
    BY <1>1, <2>1 DEF UseFreed, Accept, task
  <2>2. CASE ReadThrows \/ FlushThrows \/ AcceptThrows
    BY <1>3, <2>2 DEF ReadThrows, FlushThrows, AcceptThrows
  <2>3. CASE \E e \in batch : Dispatch(e)
    BY <1>5, <2>3 DEF FormInv
  <2>4. QED
    BY <1>2, <1>4, <1>7, <1>10, <2>1, <2>2, <2>3 DEF ReactorStep
<1>11. QED
  BY <1>8, <1>9, <1>10 DEF Next

(* Nobody connects to a socket. *)
LEMMA ConnFormNext ==
  ASSUME Types, Good, FormInv, Next
  PROVE  \A s \in Sockets : conn'[s].net # "listen" /\ conn'[s].backlog = 0
<1>1. SUFFICES ASSUME NEW s \in Sockets
               PROVE  conn'[s].net # "listen" /\ conn'[s].backlog = 0
  OBVIOUS
<1>2. /\ s \in Targets /\ s \notin Servers /\ conn[s] \in Connections
      /\ conn[s].net # "listen" /\ conn[s].backlog = 0
  BY ReactorAssumption DEF Targets, Types, FormInv
<1>3. CASE conn' = conn
  BY <1>2, <1>3
<1>4. NoConn.net # "listen" /\ NoConn.backlog = 0
  BY DEF NoConn
<1>5. CASE Api
  <2>1. ASSUME NEW t \in Targets, CloseFd(t)
        PROVE  conn'[s].net # "listen" /\ conn'[s].backlog = 0
    BY <1>2, <1>4, <2>1 DEF CloseFd, Types
  <2>2. CASE NewSocket
    BY <1>2, <2>2 DEF NewSocket, Types, Connections
  <2>3. ASSUME NEW r \in Sockets, Connect(r)
        PROVE  conn'[s].net # "listen" /\ conn'[s].backlog = 0
    <3> DEFINE c == Conn(r)
    <3>1. PICK net \in {"up", "syn"} :
            \/ conn' = [conn EXCEPT ![c].net = net, ![c].edge = Edge]
            \/ conn' = [conn EXCEPT ![c].net = net]
      BY <2>3 DEF Connect
    <3> HIDE DEF c
    <3>2. CASE conn' = [conn EXCEPT ![c].net = net]
      BY <1>2, <3>2 DEF Types, Connections
    <3>3. CASE conn' = [conn EXCEPT ![c].net = net, ![c].edge = Edge]
      <4>1. c # s => conn'[s] = conn[s]
        BY <1>2, <3>3 DEF Types
      <4>2. c = s => conn'[s].net = net /\ conn'[s].backlog = conn[s].backlog
        BY <1>2, <3>3 DEF Types, Connections
      <4>3. QED
        BY <1>2, <4>1, <4>2
    <3>4. QED
      BY <3>1, <3>2, <3>3
  <2>4. ASSUME NEW v \in Servers, NewServer(v)
        PROVE  conn'[s].net # "listen" /\ conn'[s].backlog = 0
    BY <1>2, <2>4 DEF NewServer, Types, Connections
  <2>5. ASSUME NEW v \in Servers, Listen(v)
        PROVE  conn'[s].net # "listen" /\ conn'[s].backlog = 0
    <3>1. v \in Targets /\ Open(v)
      BY <2>5 DEF Listen, Targets, Open, Good, ObjInv, NumberInv
    <3>2. Conn(v) = v
      BY <3>1, OpenFacts DEF Good
    <3>3. QED
      BY <1>2, <2>5, <3>1, <3>2 DEF Listen, Types, Connections
  <2>6. ASSUME NEW v \in Servers, CloseServer(v)
        PROVE  conn'[s].net # "listen" /\ conn'[s].backlog = 0
    <3>1. conn' = conn \/ conn' = [conn EXCEPT ![kfd[fd[v]]] = NoConn]
      BY <2>6 DEF CloseServer, CloseFd, kernel
    <3>2. QED
      BY <1>2, <3>1 DEF Types, NoConn
  <2>7. QED
    BY <1>5, <2>1, <2>2, <2>3, <2>4, <2>5, <2>6 DEF Api, Close, Targets
<1>6. CASE ReactorStep
  <2>1. CASE Poll
    <3>1. conn'[s] = conn[s] \/ conn'[s] = [conn[s] EXCEPT !.edge = FALSE]
      BY <1>2, <2>1 DEF Poll
    <3>2. QED
      BY <1>2, <3>1 DEF Connections
  <2>2. CASE Accept
    <3> DEFINE t == CHOOSE x \in Unallocated : TRUE
               c == Conn(T)
    <3>1. /\ conn[c].net = "listen"
          /\ conn' = [conn EXCEPT ![c].backlog = conn[c].backlog - 1,
                                  ![t].net = "up", ![t].edge = Edge]
      BY <2>2 DEF Accept, Listening, T
    <3>2. c # s
      BY <1>2, <3>1
    <3> HIDE DEF t, c
    <3>3. QED
      BY <1>2, <3>1, <3>2 DEF Types, Connections
  <2>3. CASE ReadThrows \/ FlushThrows
    <3> DEFINE c == Conn(T)
    <3>1. \/ conn' = conn
          \/ conn' = [conn EXCEPT ![c].unread = FALSE, ![c].err = FALSE]
          \/ conn' = [conn EXCEPT ![c].err = FALSE]
      BY <2>3 DEF ReadThrows, FlushThrows, T
    <3> HIDE DEF c
    <3>2. CASE conn' = [conn EXCEPT ![c].unread = FALSE, ![c].err = FALSE]
      BY <1>2, <3>2 DEF Types, Connections
    <3>3. CASE conn' = [conn EXCEPT ![c].err = FALSE]
      BY <1>2, <3>3 DEF Types, Connections
    <3>4. CASE conn' = conn
      BY <1>2, <3>4
    <3>5. QED
      BY <3>1, <3>2, <3>3, <3>4
  <2>4. CASE Read
    BY <1>2, <2>4 DEF Read, Types, Connections
  <2>5. CASE Connected
    BY <1>2, <2>5 DEF Connected, Types, Connections
  <2>6. CASE \/ \E e \in batch : Dispatch(e)
             \/ BatchEnd \/ Ended \/ Unregister \/ Flush \/ AcceptEnd
             \/ AcceptThrows \/ UseFreed
    BY <1>3, <2>6 DEF Dispatch, BatchEnd, Ended, Unregister, Flush, AcceptEnd,
       AcceptThrows, UseFreed, kernel
  <2>7. QED
    BY <1>6, <2>1, <2>2, <2>3, <2>4, <2>5, <2>6 DEF ReactorStep
<1>7. CASE HandlerReturns \/ HandlerThrows
  BY <1>3, <1>7 DEF HandlerReturns, HandlerThrows, kernel
<1>8. CASE Network
  <2>1. CASE \E v \in Servers : PeerConnects(v)
    BY <1>2, <2>1 DEF PeerConnects, Happens, Types
  <2>2. CASE \E c \in Sockets : ConnectEnds(c) \/ PeerSends(c) \/ PeerEnds(c) \/ PeerResets(c)
                                  \/ SpaceFreed(c)
    <3>1. PICK c \in Sockets : ConnectEnds(c) \/ PeerSends(c) \/ PeerEnds(c) \/ PeerResets(c)
                                  \/ SpaceFreed(c)
      BY <2>2
    <3>2. \E to : /\ conn' = [conn EXCEPT ![c] = to]
                  /\ c = s => to.net # "listen" /\ to.backlog = 0
      <4>1. c \in Targets /\ conn[c] \in Connections /\ conn[c].net # "listen"
            /\ conn[c].backlog = 0
        BY DEF Targets, Types, FormInv
      <4>2. PICK to :
              /\ Happens(c, to)
              /\ \/ to = [conn[c] EXCEPT !.net = "up"]
                 \/ to = [conn[c] EXCEPT !.net = "failed", !.eof = TRUE, !.err = TRUE]
                 \/ to = [conn[c] EXCEPT !.unread = TRUE]
                 \/ to = [conn[c] EXCEPT !.eof = TRUE]
                 \/ to = [conn[c] EXCEPT !.net = "reset", !.eof = TRUE, !.err = TRUE]
                 \/ to = conn[c]
        BY Zenon, <3>1 DEF ConnectEnds, PeerSends, PeerEnds, PeerResets, SpaceFreed
      <4>3. to.net # "listen" /\ to.backlog = 0 /\ to \in Connections
        BY <4>1, <4>2 DEF Connections
      <4>4. conn' = [conn EXCEPT ![c] = [to EXCEPT !.edge = Edge]]
        BY <4>2 DEF Happens
      <4>5. [to EXCEPT !.edge = Edge].net # "listen" /\ [to EXCEPT !.edge = Edge].backlog = 0
        BY <4>3 DEF Connections
      <4>6. QED
        BY <4>4, <4>5
    <3>3. QED
      BY <1>2, <3>2 DEF Types
  <2>3. QED
    BY <1>8, <2>1, <2>2, TalkFacts DEF Network
<1>9. QED
  BY <1>5, <1>6, <1>7, <1>8 DEF Next

LEMMA SeenGrows == Next => seen \subseteq seen'
<1>1. Api => seen \subseteq seen'
  BY DEF Api, NewSocket, NewServer, Listen, Connect, Close, CloseServer, Construct, Did, history
<1>2. ReactorStep => seen \subseteq seen'
  BY DEF ReactorStep, Poll, Dispatch, BatchEnd, Read, ReadThrows, Ended, Unregister, Connected,
         Flush, FlushThrows, Accept, AcceptEnd, AcceptThrows, UseFreed, Construct, Did, Escapes,
         history
<1>3. HandlerReturns \/ HandlerThrows => seen \subseteq seen'
  BY DEF HandlerReturns, HandlerThrows, Escapes, history
<1>4. Network => seen \subseteq seen'
  <2>1. \A s : ConnectEnds(s) \/ PeerSends(s) \/ PeerEnds(s) \/ PeerResets(s) \/ SpaceFreed(s)
                 \/ PeerConnects(s) => \E to : Happens(s, to)
    BY Zenon DEF ConnectEnds, PeerSends, PeerEnds, PeerResets, SpaceFreed, PeerConnects
  <2>2. \A s, to : Happens(s, to) => seen' = seen
    BY DEF Happens, history
  <2>3. QED
    BY <2>1, <2>2 DEF Network
<1>5. QED
  BY <1>1, <1>2, <1>3, <1>4 DEF Next

LEMMA AttemptInit == Init => AttemptInv
<1>1. SUFFICES ASSUME Init PROVE AttemptInv
  OBVIOUS
<1>2. FormInv
  BY <1>1 DEF Init, FormInv, NoConn, Targets
<1>3. \A s \in Sockets : AttemptOf(s)
  BY <1>1 DEF Init, AttemptOf, Targets
<1>4. QED
  BY <1>2, <1>3 DEF AttemptInv

LEMMA AttemptNext == Inv /\ AttemptInv /\ [Next]_vars => AttemptInv'
<1>1. SUFFICES ASSUME Inv, AttemptInv, [Next]_vars PROVE AttemptInv'
  OBVIOUS
<1>2. CASE Next
  <2>1. state = "ok" /\ Types /\ Good /\ FormInv
    BY <1>1, <1>2, StepsFromOk DEF Inv, AttemptInv
  <2>2. FormInv'
    BY <1>2, <2>1, BatchFormNext, ConnFormNext DEF FormInv
  <2>3. Calm' => Calm
    <3>1. seen \subseteq seen'
      BY <1>2, SeenGrows
    <3>2. QED
      BY <3>1 DEF Calm
  <2>4. QED
    BY <1>1, <1>2, <2>1, <2>2, <2>3, AttemptsNext DEF AttemptInv
<1>3. CASE UNCHANGED vars
  <2>1. UNCHANGED <<platform, status, fd, table, batch, step, now, state, conn, seen>>
    BY <1>3 DEF vars, objects, task, kernel, history
  <2>2. T' = T
    BY <2>1 DEF T
  <2>3. \A s \in Sockets : AttemptOf(s) => AttemptOf(s)'
    BY <2>1, <2>2, AttemptStays
  <2>4. QED
    BY <1>1, <2>1, <2>3 DEF AttemptInv, FormInv, Calm
<1>4. QED
  BY <1>1, <1>2, <1>3

LEMMA AlwaysAttempts == Spec => []AttemptInv
BY AttemptInit, AttemptNext, AlwaysInv, PTL DEF Spec

(* A socket that says CONNECTED has a connection: whatever order the events *)
(* of a batch come in, an attempt that is under way or has failed does not  *)
(* pass the test of SO_ERROR (socket1.cpp:85-109), with the two exceptions  *)
(* that the property names.                                                 *)
THEOREM ConnectionsAreReal == Spec => []ConnectedIsReal
<1>1. AttemptInv => ConnectedIsReal
  BY DEF AttemptInv, AttemptOf, Calm, ConnectedIsReal
<1>2. QED
  BY <1>1, AlwaysAttempts, PTL

=============================================================================
