------------------------- MODULE SocketWriteProofs -------------------------
(***************************************************************************)
(* The write path delivers the submitted bytes once and in order, and      *)
(* resolves no promise early, for every buffer size, capacity and number   *)
(* of writes (SocketWrite).  The invariant numbers the bytes: what the     *)
(* kernel has and what the buffer holds are consecutive, and bytes_written *)
(* is where the buffer starts.                                             *)
(***************************************************************************)
EXTENDS SocketWrite, SequenceTheorems, WellFoundedInduction, TLAPS

(* The bytes the kernel took, and the buffer: its first InLoop bytes have   *)
(* been taken by the loop that is running.                                  *)
StreamInv ==
  /\ InLoop <= Len(buffer)
  /\ bytes_written + InLoop = Len(sent)
  /\ bytes_written + Len(buffer) = submitted
  /\ \A i \in 1 .. Len(sent) : sent[i] = i
  /\ \A i \in 1 .. Len(buffer) : buffer[i] = bytes_written + i

(* Nothing was taken before the connection was there, so that an exception  *)
(* never leaves a half-written buffer.                                      *)
NetInv ==
  /\ net # "established" => Len(sent) = 0
  /\ status = "IDLE" => net = "none"

(* A queued item waits for the last byte of its write; a resolved promise's *)
(* bytes are with the kernel.                                               *)
FateInv ==
  /\ Len(promise) <= MaxWrites
  /\ pc = "write" => Len(promise) > 0
  /\ Len(promise) > 0 => promise[Len(promise)].last = submitted
  /\ \A i \in 1 .. Len(write_promise_queue) :
       /\ write_promise_queue[i].write \in 1 .. Len(promise)
       /\ promise[write_promise_queue[i].write].last = write_promise_queue[i].target
  /\ \A w \in 1 .. Len(promise) :
       promise[w].fate = "resolved" => promise[w].last <= Len(sent)

Inv == TypeOK /\ StreamInv /\ NetInv /\ FateInv

Items == [target : Nat, write : 1 .. MaxWrites]

Promises == [fate : {"writing", "queued", "resolved", "threw"}, last : Nat, early : BOOLEAN]

-----------------------------------------------------------------------------
(* Arithmetic and sequences. *)
NatLess == {p \in Nat \X Nat : p[1] < p[2]}

(* Every non-empty set of natural numbers has a least element.              *)
LEMMA LeastOf ==
  ASSUME NEW S \in SUBSET Nat, S # {}
  PROVE  \E m \in S : \A k \in S : m <= k
<1>1. IsWellFoundedOn(NatLess, Nat)
  BY NatLessThanWellFounded DEF OpToRel, NatLess
<1>2. PICK m \in S : \A k \in S : ~(<<k, m>> \in NatLess)
  BY <1>1, WFMin
<1>3. ASSUME NEW k \in S PROVE m <= k
  <2>1. k \in Nat /\ m \in Nat
    OBVIOUS
  <2>2. k < m => <<k, m>> \in NatLess
    BY <2>1 DEF NatLess
  <2>3. QED
    BY <1>2, <2>1, <2>2
<1>4. QED
  BY <1>3

(* Consecutive numbers. *)
LEMMA NumbersFacts ==
  ASSUME NEW n \in Nat, NEW m \in Nat
  PROVE  /\ [i \in 1 .. n |-> m + i] \in Seq(Nat)
         /\ Len([i \in 1 .. n |-> m + i]) = n
         /\ \A i \in 1 .. n : [j \in 1 .. n |-> m + j][i] = m + i
OBVIOUS

(* A slice of a sequence. *)
LEMMA SliceFacts ==
  ASSUME NEW S, NEW seq \in Seq(S), NEW k \in 0 .. Len(seq), NEW n \in 0 .. Len(seq) - k
  PROVE  /\ SubSeq(seq, k + 1, k + n) \in Seq(S)
         /\ Len(SubSeq(seq, k + 1, k + n)) = n
         /\ \A i \in 1 .. n : SubSeq(seq, k + 1, k + n)[i] = seq[k + i]
<1>1. Len(seq) \in Nat
  BY LenProperties
<1>2. \A i \in k + 1 .. k + n : seq[i] \in S
  BY <1>1, ElementOfSeq
<1>3. k + 1 \in Int /\ k + n \in Int
  BY <1>1
<1> DEFINE r == SubSeq(seq, k + 1, k + n)
<1>4. /\ r \in Seq(S)
      /\ Len(r) = IF k + 1 <= k + n THEN k + n - (k + 1) + 1 ELSE 0
      /\ \A i \in 1 .. k + n - (k + 1) + 1 : r[i] = seq[k + 1 + i - 1]
  BY <1>2, <1>3, SubSeqProperties
<1> HIDE DEF r
<1>5. Len(r) = n
  BY <1>1, <1>4
<1>6. \A i \in 1 .. n : r[i] = seq[k + i]
  BY <1>1, <1>4
<1>7. QED
  BY <1>4, <1>5, <1>6 DEF r

(* What is left of a sequence when its first k elements are dropped. *)
LEMMA RestFacts ==
  ASSUME NEW S, NEW seq \in Seq(S), NEW k \in 0 .. Len(seq)
  PROVE  /\ SubSeq(seq, k + 1, Len(seq)) \in Seq(S)
         /\ Len(SubSeq(seq, k + 1, Len(seq))) = Len(seq) - k
         /\ \A i \in 1 .. Len(seq) - k : SubSeq(seq, k + 1, Len(seq))[i] = seq[k + i]
<1> DEFINE n == Len(seq) - k
<1>1. Len(seq) \in Nat
  BY LenProperties
<1>2. n \in 0 .. Len(seq) - k /\ k + n = Len(seq)
  BY <1>1
<1> HIDE DEF n
<1>3. /\ SubSeq(seq, k + 1, k + n) \in Seq(S)
      /\ Len(SubSeq(seq, k + 1, k + n)) = n
      /\ \A i \in 1 .. n : SubSeq(seq, k + 1, k + n)[i] = seq[k + i]
  BY <1>2, SliceFacts
<1>4. /\ SubSeq(seq, k + 1, Len(seq)) \in Seq(S)
      /\ Len(SubSeq(seq, k + 1, Len(seq))) = n
      /\ \A i \in 1 .. n : SubSeq(seq, k + 1, Len(seq))[i] = seq[k + i]
  BY <1>2, <1>3
<1>5. QED
  BY <1>4 DEF n

(* Unreached finds the first item whose target is not reached: all before   *)
(* it are.                                                                  *)
LEMMA UnreachedFacts ==
  ASSUME NEW queue \in Seq(Items), NEW count \in Nat
  PROVE  /\ Unreached(queue, count) \in 1 .. Len(queue) + 1
         /\ \A i \in 1 .. Unreached(queue, count) - 1 :
              i \in 1 .. Len(queue) /\ queue[i].target <= count
<1> DEFINE open == {i \in 1 .. Len(queue) : queue[i].target > count}
           next == Unreached(queue, count)
<1>1. Len(queue) \in Nat
  BY LenProperties
<1>2. \A i \in 1 .. Len(queue) : queue[i].target \in Nat
  <2>1. \A i \in 1 .. Len(queue) : queue[i] \in Items
    BY ElementOfSeq
  <2>2. QED
    BY <2>1 DEF Items
<1>3. \A i \in 1 .. Len(queue) : i \notin open => queue[i].target <= count
  BY <1>2
<1>4. CASE open = {}
  <2>1. next = Len(queue) + 1
    BY <1>4 DEF Unreached
  <2>2. QED
    BY <1>1, <1>3, <1>4, <2>1
<1>5. CASE open # {}
  <2>1. open \in SUBSET Nat
    BY <1>1
  <2>2. \E m \in open : \A k \in open : m <= k
    <3> HIDE DEF open
    <3>1. QED
      BY <1>5, <2>1, LeastOf
  <2>3. next = CHOOSE i \in open : \A j \in open : i <= j
    BY <1>5 DEF Unreached
  <2>4. next \in open /\ \A j \in open : next <= j
    <3> HIDE DEF open, next
    <3>1. QED
      BY <2>2, <2>3
  <2>5. ASSUME NEW i \in 1 .. next - 1
        PROVE  i \in 1 .. Len(queue) /\ i \notin open
    <3>1. next \in 1 .. Len(queue)
      BY <2>4
    <3>2. i \notin open
      <4> HIDE DEF open
      <4>1. QED
        BY <1>1, <2>4, <3>1
    <3>3. QED
      BY <1>1, <3>1, <3>2
  <2>6. QED
    <3>1. next \in 1 .. Len(queue) + 1
      BY <1>1, <2>4
    <3>2. QED
      BY <1>3, <2>5, <3>1
<1>6. QED
  BY <1>4, <1>5

-----------------------------------------------------------------------------
(* TypeOK in terms of the sets named here. *)
Types ==
  /\ status \in {"IDLE", "CONNECTING", "CONNECTED"}
  /\ buffer \in Seq(Nat) /\ bytes_written \in Nat
  /\ write_promise_queue \in Seq(Items)
  /\ connect_promise \in {"none", "pending", "resolved"}
  /\ pc \in {"user", "write", "flush"} /\ offset \in 0 .. submitted
  /\ net \in {"none", "syn", "established", "failed"}
  /\ room \in 0 .. Capacity /\ nospace \in BOOLEAN /\ edge \in BOOLEAN
  /\ submitted \in Nat /\ sent \in Seq(Nat)
  /\ promise \in Seq(Promises)

LEMMA TypesOK == TypeOK <=> Types
BY DEF TypeOK, Types, Items, Promises

LEMMA InitInv == Init => Inv
<1> SUFFICES ASSUME Init PROVE Inv
  OBVIOUS
<1>1. /\ buffer = <<>> /\ sent = <<>> /\ promise = <<>> /\ write_promise_queue = <<>>
      /\ Len(buffer) = 0 /\ Len(sent) = 0 /\ Len(promise) = 0 /\ Len(write_promise_queue) = 0
  BY EmptySeq DEF Init
<1>2. TypeOK
  <2>1. buffer \in Seq(Nat) /\ sent \in Seq(Nat)
    BY <1>1, EmptySeq
  <2>2. write_promise_queue \in Seq(Items) /\ promise \in Seq(Promises)
    BY <1>1, EmptySeq
  <2>3. /\ status = "IDLE" /\ bytes_written = 0 /\ connect_promise = "none" /\ pc = "user"
        /\ offset = 0 /\ net = "none" /\ room \in 0 .. Capacity
        /\ submitted = 0
    BY SocketWriteAssumption DEF Init
  <2>4. nospace \in BOOLEAN /\ edge \in BOOLEAN
    BY Zenon DEF Init
  <2>5. QED
    BY <2>1, <2>2, <2>3, <2>4, TypesOK DEF Types
<1>3. StreamInv /\ NetInv
  BY <1>1 DEF Init, StreamInv, NetInv, InLoop
<1>4. FateInv
  BY <1>1, SocketWriteAssumption DEF Init, FateInv
<1>5. QED
  BY <1>2, <1>3, <1>4 DEF Inv

(* The lengths, as natural numbers. *)
LEMMA Lengths ==
  ASSUME Inv
  PROVE  /\ Len(buffer) \in Nat /\ Len(sent) \in Nat /\ Len(promise) \in Nat
         /\ Len(write_promise_queue) \in Nat
         /\ bytes_written \in Nat /\ submitted \in Nat /\ offset \in Nat /\ InLoop \in Nat
         /\ InLoop <= Len(buffer) /\ Len(buffer) <= submitted
         /\ bytes_written <= Len(sent) /\ Len(sent) <= submitted
<1>1. /\ Len(buffer) \in Nat /\ Len(sent) \in Nat /\ Len(promise) \in Nat
      /\ Len(write_promise_queue) \in Nat
  BY LenProperties DEF Inv, TypeOK
<1>2. bytes_written \in Nat /\ submitted \in Nat /\ offset \in Nat
  BY DEF Inv, TypeOK
<1>3. InLoop \in Nat
  BY <1>2 DEF InLoop
<1>4. /\ InLoop <= Len(buffer)
      /\ bytes_written + InLoop = Len(sent)
      /\ bytes_written + Len(buffer) = submitted
  BY DEF Inv, StreamInv
<1>5. QED
  BY <1>1, <1>2, <1>3, <1>4

LEMMA PromiseTypes ==
  ASSUME Inv, NEW w \in 1 .. Len(promise)
  PROVE  /\ promise[w] \in Promises
         /\ promise[w].fate \in {"writing", "queued", "resolved", "threw"}
         /\ promise[w].last \in Nat /\ promise[w].early \in BOOLEAN
<1>1. promise \in Seq(Promises)
  BY TypesOK DEF Inv, Types
<1>2. promise[w] \in Promises
  BY <1>1, ElementOfSeq
<1>3. QED
  BY <1>2 DEF Promises

(* Steps that move no byte and decide no promise. *)
LEMMA QuietKeeps ==
  ASSUME Inv,
         UNCHANGED <<buffer, bytes_written, write_promise_queue, submitted, sent, promise>>,
         pc' \in {"user", "flush"}, offset' \in 0 .. submitted, InLoop' = InLoop,
         status' \in {"IDLE", "CONNECTING", "CONNECTED"},
         connect_promise' \in {"none", "pending", "resolved"},
         net' \in {"none", "syn", "established", "failed"},
         room' \in 0 .. Capacity, nospace' \in BOOLEAN, edge' \in BOOLEAN,
         NetInv'
  PROVE  Inv'
<1>1. TypeOK'
  BY DEF Inv, TypeOK
<1>2. StreamInv'
  BY DEF Inv, StreamInv
<1>3. FateInv'
  BY DEF Inv, FateInv
<1>4. QED
  BY <1>1, <1>2, <1>3 DEF Inv

(* The fate of the write that is running. *)
LEMMA FateFacts ==
  ASSUME Inv, Len(promise) > 0, NEW f \in {"writing", "queued", "resolved", "threw"}, Fate(f)
  PROVE  /\ promise' \in Seq(Promises) /\ Len(promise') = Len(promise)
         /\ \A w \in 1 .. Len(promise) :
              /\ promise'[w].last = promise[w].last
              /\ promise'[w].fate = IF w = Len(promise) THEN f ELSE promise[w].fate
<1> DEFINE n == Len(promise)
           e == [promise[n] EXCEPT !.fate = f]
<1>1. promise \in Seq(Promises) /\ n \in 1 .. Len(promise)
  BY Lengths, TypesOK DEF Inv, Types
<1>2. promise[n] \in Promises
  BY <1>1, ElementOfSeq
<1>3. e \in Promises /\ e.last = promise[n].last /\ e.fate = f
  BY <1>2 DEF Promises
<1>4. promise' = [promise EXCEPT ![n] = e]
  BY DEF Fate
<1> HIDE DEF e, n
<1>5. /\ promise' \in Seq(Promises) /\ Len(promise') = Len(promise)
      /\ \A w \in 1 .. Len(promise) : promise'[w] = IF w = n THEN e ELSE promise[w]
  BY <1>1, <1>3, <1>4, ExceptSeq
<1>6. QED
  BY <1>3, <1>5 DEF n

(* The kernel takes n bytes of the buffer. *)
LEMMA TakeFacts ==
  ASSUME Inv, pc # "user", NEW n \in Nat, NEW most, Take(n, most)
  PROVE  /\ offset' = offset + n /\ offset' \in 0 .. Len(buffer)
         /\ room' \in 0 .. Capacity /\ net = "established"
         /\ sent' \in Seq(Nat) /\ Len(sent') = bytes_written + offset'
         /\ \A i \in 1 .. Len(sent') : sent'[i] = i
<1> DEFINE s == SubSeq(buffer, offset + 1, offset + n)
<1>1. /\ net = "established" /\ n <= Len(buffer) - offset /\ n <= room
      /\ offset' = offset + n /\ room' = room - n /\ sent' = sent \o s
  BY DEF Take, Remaining
<1>2. /\ InLoop = offset /\ offset \in Nat /\ bytes_written \in Nat
      /\ Len(buffer) \in Nat /\ Len(sent) = bytes_written + offset
  BY Lengths DEF InLoop, Inv, StreamInv
<1>3. offset' \in 0 .. Len(buffer) /\ room' \in 0 .. Capacity
  BY <1>1, <1>2, SocketWriteAssumption DEF Inv, TypeOK
<1>4. \A i \in 1 .. Len(buffer) : buffer[i] = bytes_written + i
  BY DEF Inv, StreamInv
<1>5. /\ s \in Seq(Nat) /\ Len(s) = n
      /\ \A i \in 1 .. n : s[i] = bytes_written + offset + i
  <2>1. buffer \in Seq(Nat) /\ offset \in 0 .. Len(buffer) /\ n \in 0 .. Len(buffer) - offset
    BY <1>1, <1>2, Lengths DEF Inv, TypeOK
  <2>2. /\ s \in Seq(Nat) /\ Len(s) = n
        /\ \A i \in 1 .. n : s[i] = buffer[offset + i]
    BY <2>1, SliceFacts
  <2> HIDE DEF s
  <2>3. QED
    BY SMTT(30), <1>1, <1>2, <1>4, <2>2
<1>6. sent \in Seq(Nat)
  BY DEF Inv, TypeOK
<1> HIDE DEF s
<1>7. /\ sent' \in Seq(Nat) /\ Len(sent') = Len(sent) + n
      /\ \A i \in 1 .. Len(sent) + n :
           sent'[i] = IF i <= Len(sent) THEN sent[i] ELSE s[i - Len(sent)]
  BY <1>1, <1>5, <1>6, ConcatProperties
<1>8. \A i \in 1 .. Len(sent) : sent[i] = i
  BY DEF Inv, StreamInv
<1>9. ASSUME NEW i \in 1 .. Len(sent') PROVE sent'[i] = i
  <2>1. CASE i <= Len(sent)
    BY <1>2, <1>7, <1>8, <2>1
  <2>2. CASE ~(i <= Len(sent))
    <3>1. i - Len(sent) \in 1 .. n
      BY <1>2, <1>7, <2>2
    <3>2. s[i - Len(sent)] = bytes_written + offset + (i - Len(sent))
      BY <1>5, <3>1
    <3>3. sent'[i] = s[i - Len(sent)]
      BY <1>7, <2>2
    <3>4. QED
      BY <1>2, <1>7, <3>2, <3>3
  <2>3. QED
    BY <2>1, <2>2
<1>10. QED
  BY <1>1, <1>2, <1>3, <1>7, <1>9

(* A loop ends: the written prefix leaves the buffer. *)
LEMMA ShiftFacts ==
  ASSUME Inv, NEW upto \in InLoop .. Len(buffer),
         bytes_written' = bytes_written + upto,
         buffer' = SubSeq(buffer, upto + 1, Len(buffer)),
         submitted' = submitted, pc' = "user",
         sent' \in Seq(Nat), Len(sent') = bytes_written + upto,
         \A i \in 1 .. Len(sent') : sent'[i] = i
  PROVE  /\ StreamInv' /\ buffer' \in Seq(Nat) /\ bytes_written' \in Nat
         /\ Len(sent') >= Len(sent)
<1>1. /\ Len(buffer) \in Nat /\ bytes_written \in Nat /\ InLoop \in Nat
      /\ bytes_written + InLoop = Len(sent)
      /\ bytes_written + Len(buffer) = submitted
      /\ \A i \in 1 .. Len(buffer) : buffer[i] = bytes_written + i
  BY Lengths DEF Inv, StreamInv
<1>2. buffer \in Seq(Nat) /\ upto \in 0 .. Len(buffer)
  BY <1>1 DEF Inv, TypeOK
<1>3. /\ buffer' \in Seq(Nat) /\ Len(buffer') = Len(buffer) - upto
      /\ \A i \in 1 .. Len(buffer) - upto : buffer'[i] = buffer[upto + i]
  BY <1>2, RestFacts
<1>4. \A i \in 1 .. Len(buffer') : buffer'[i] = bytes_written' + i
  BY <1>1, <1>3
<1>5. InLoop' = 0
  BY DEF InLoop
<1>6. StreamInv'
  <2>1. InLoop' <= Len(buffer') /\ bytes_written' + InLoop' = Len(sent')
    BY <1>1, <1>3, <1>5
  <2>2. bytes_written' + Len(buffer') = submitted'
    <3> DEFINE n == Len(buffer')
    <3>1. n = Len(buffer) - upto
      BY <1>3
    <3> HIDE DEF n
    <3>2. bytes_written' + n = submitted'
      BY <1>1, <1>2, <3>1
    <3>3. QED
      BY <3>2 DEF n
  <2>3. QED
    BY <1>4, <2>1, <2>2 DEF StreamInv
<1>7. QED
  BY <1>1, <1>3, <1>6

(* write returns: its bytes are all with the kernel, or its promise is      *)
(* queued with the number of its last byte.                                 *)
LEMMA WriteEndKeeps ==
  ASSUME Inv, pc = "write", NEW upto \in InLoop .. Len(buffer), NEW completed \in BOOLEAN,
         completed => upto = Len(buffer),
         WriteEnd(upto, completed),
         net = "established" \/ UNCHANGED sent,
         net' = net, offset' \in 0 .. submitted, room' \in 0 .. Capacity,
         nospace' \in BOOLEAN, edge' \in BOOLEAN,
         sent' \in Seq(Nat), Len(sent') = bytes_written + upto,
         \A i \in 1 .. Len(sent') : sent'[i] = i
  PROVE  Inv'
<1> DEFINE n == Len(promise)
           item == [target |-> bytes_written' + Len(buffer'), write |-> n]
<1>1. /\ bytes_written' = bytes_written + upto
      /\ buffer' = SubSeq(buffer, upto + 1, Len(buffer))
      /\ submitted' = submitted /\ pc' = "user"
      /\ UNCHANGED <<status, connect_promise>>
  BY DEF WriteEnd
<1>2. /\ StreamInv' /\ buffer' \in Seq(Nat) /\ bytes_written' \in Nat
      /\ Len(sent') >= Len(sent)
  BY <1>1, ShiftFacts
<1>3. /\ n \in Nat /\ n > 0 /\ n <= MaxWrites /\ n \in 1 .. n
      /\ promise[n].last = submitted
  BY Lengths DEF Inv, FateInv
<1>4. \E f \in {"queued", "resolved"} :
        /\ Fate(f)
        /\ f = "resolved" => completed /\ UNCHANGED write_promise_queue
        /\ f = "queued" => write_promise_queue' = Append(write_promise_queue, item)
  BY DEF WriteEnd
<1>5. PICK f \in {"queued", "resolved"} :
        /\ Fate(f)
        /\ f = "resolved" => completed /\ UNCHANGED write_promise_queue
        /\ f = "queued" => write_promise_queue' = Append(write_promise_queue, item)
  BY <1>4
<1>6. /\ promise' \in Seq(Promises) /\ Len(promise') = n
      /\ \A w \in 1 .. n : /\ promise'[w].last = promise[w].last
                           /\ promise'[w].fate = IF w = n THEN f ELSE promise[w].fate
  BY <1>3, <1>5, FateFacts
<1>7. bytes_written' + Len(buffer') = submitted /\ submitted \in Nat
  BY <1>1, <1>2, Lengths DEF StreamInv
<1>8. item \in Items /\ item.target = submitted /\ item.write = n
  BY <1>3, <1>7, SocketWriteAssumption DEF Items
<1>9. write_promise_queue \in Seq(Items)
  BY TypesOK DEF Inv, Types
<1>10. \A i \in 1 .. Len(write_promise_queue) :
         /\ write_promise_queue[i].write \in 1 .. n
         /\ promise[write_promise_queue[i].write].last = write_promise_queue[i].target
  BY DEF Inv, FateInv
<1> HIDE DEF item
<1>11. /\ write_promise_queue' \in Seq(Items)
       /\ \A i \in 1 .. Len(write_promise_queue') :
            write_promise_queue'[i] = item \/
            (i \in 1 .. Len(write_promise_queue) /\ write_promise_queue'[i] = write_promise_queue[i])
  <2>1. CASE f = "resolved"
    BY <1>5, <1>9, <2>1
  <2>2. CASE f = "queued"
    <3>1. write_promise_queue' = Append(write_promise_queue, item)
      BY <1>5, <2>2
    <3>2. /\ write_promise_queue' \in Seq(Items)
          /\ Len(write_promise_queue') = Len(write_promise_queue) + 1
          /\ \A i \in 1 .. Len(write_promise_queue) :
               write_promise_queue'[i] = write_promise_queue[i]
          /\ write_promise_queue'[Len(write_promise_queue) + 1] = item
      BY <1>8, <1>9, <3>1, AppendProperties
    <3>3. QED
      BY SMTT(30), <3>2, Lengths
  <2>3. QED
    BY <2>1, <2>2
<1>12. TypeOK'
  <2>1. Types'
    BY <1>1, <1>2, <1>6, <1>7, <1>11 DEF Types, Inv, TypeOK
  <2>2. QED
    BY <2>1 DEF TypeOK, Types, Items, Promises
<1>13. NetInv'
  <2>1. net # "established" => Len(sent') = 0
    BY DEF Inv, NetInv
  <2>2. QED
    BY <1>1, <2>1 DEF Inv, NetInv
<1>14. FateInv'
  <2>1. ASSUME NEW i \in 1 .. Len(write_promise_queue')
        PROVE  /\ write_promise_queue'[i].write \in 1 .. n
               /\ promise'[write_promise_queue'[i].write].last = write_promise_queue'[i].target
    <3>1. CASE write_promise_queue'[i] = item
      BY <1>3, <1>6, <1>8, <3>1
    <3>2. CASE i \in 1 .. Len(write_promise_queue) /\ write_promise_queue'[i] = write_promise_queue[i]
      BY <1>6, <1>10, <3>2
    <3>3. QED
      BY <1>11, <3>1, <3>2
  <2>2. ASSUME NEW w \in 1 .. n, promise'[w].fate = "resolved"
        PROVE  promise'[w].last <= Len(sent')
    <3>1. CASE w = n
      <4>1. f = "resolved"
        BY <1>6, <2>2, <3>1
      <4>2. Len(sent') = submitted
        BY <1>5, <4>1 DEF Inv, StreamInv
      <4>3. promise'[w].last = submitted
        BY <1>3, <1>6, <3>1
      <4>4. QED
        BY <1>7, <4>2, <4>3
    <3>2. CASE w # n
      <4>1. promise[w].fate = "resolved" /\ promise'[w].last = promise[w].last
        BY <1>6, <2>2, <3>2
      <4>2. promise[w].last <= Len(sent) /\ promise[w].last \in Nat
        BY <4>1, PromiseTypes DEF Inv, FateInv
      <4>3. Len(sent) \in Nat /\ Len(sent') \in Nat
        BY <1>7, Lengths, LenProperties
      <4>4. QED
        BY <1>2, <4>1, <4>2, <4>3
    <3>3. QED
      BY <3>1, <3>2
  <2>3. n > 0 => promise'[n].last = submitted'
    BY <1>1, <1>3, <1>6
  <2>4. Len(promise') = n /\ n <= MaxWrites /\ pc' # "write"
    BY <1>1, <1>3, <1>6
  <2>5. QED
    BY <2>1, <2>2, <2>3, <2>4 DEF FateInv
<1>15. QED
  BY <1>2, <1>12, <1>13, <1>14 DEF Inv

(* A round of either loop that goes on. *)
LEMMA RoundKeeps ==
  ASSUME Inv, pc # "user", NEW n \in Nat, NEW most, Take(n, most),
         UNCHANGED socket, UNCHANGED <<pc, net, nospace, edge, submitted, promise>>
  PROVE  Inv'
<1>1. /\ offset' = offset + n /\ offset' \in 0 .. Len(buffer)
      /\ room' \in 0 .. Capacity /\ net = "established"
      /\ sent' \in Seq(Nat) /\ Len(sent') = bytes_written + offset'
      /\ \A i \in 1 .. Len(sent') : sent'[i] = i
  BY TakeFacts
<1>2. UNCHANGED <<status, buffer, bytes_written, write_promise_queue, connect_promise>>
  BY DEF socket
<1>3. InLoop' = offset'
  BY DEF InLoop
<1>4. offset' \in 0 .. submitted
  BY SMTT(30), <1>1, Lengths
<1>5. TypeOK'
  BY <1>1, <1>2, <1>4 DEF Inv, TypeOK
<1>6. StreamInv'
  BY <1>1, <1>2, <1>3 DEF Inv, StreamInv
<1>7. NetInv'
  BY <1>1, <1>2 DEF Inv, NetInv
<1>8. Len(sent') >= Len(sent) /\ Len(sent') \in Nat
  <2>1. Len(sent) = bytes_written + offset /\ bytes_written \in Nat /\ offset \in Nat
    BY Lengths DEF Inv, StreamInv, InLoop
  <2>2. QED
    BY <1>1, <2>1
<1>9. \A w \in 1 .. Len(promise) : promise[w].fate = "resolved" => promise[w].last <= Len(sent')
  <2>1. ASSUME NEW w \in 1 .. Len(promise), promise[w].fate = "resolved"
        PROVE  promise[w].last <= Len(sent')
    BY SMTT(30), <1>8, <2>1, Lengths, PromiseTypes DEF Inv, FateInv
  <2>2. QED
    BY <2>1
<1>10. FateInv'
  BY <1>2, <1>9 DEF Inv, FateInv
<1>11. QED
  BY <1>5, <1>6, <1>7, <1>10 DEF Inv

LEMMA WriteSomeKeeps ==
  ASSUME Inv, NEW n \in 0 .. N_BYTES_PER_ROUND, WriteSome(n)
  PROVE  Inv'
<1>1. /\ pc = "write" /\ n \in Nat /\ Take(n, N_BYTES_PER_ROUND)
      /\ UNCHANGED <<net, nospace, edge>>
  BY SocketWriteAssumption DEF WriteSome
<1>2. CASE offset' >= Len(buffer)
  <2>1. /\ offset' = offset + n /\ offset' \in 0 .. Len(buffer)
        /\ room' \in 0 .. Capacity /\ net = "established"
        /\ sent' \in Seq(Nat) /\ Len(sent') = bytes_written + offset'
        /\ \A i \in 1 .. Len(sent') : sent'[i] = i
    BY <1>1, TakeFacts
  <2>2. offset' = Len(buffer) /\ offset' \in InLoop .. Len(buffer) /\ offset' \in 0 .. submitted
    BY SMTT(30), <1>1, <1>2, <2>1, Lengths DEF InLoop
  <2>3. WriteEnd(offset', TRUE)
    BY <1>2 DEF WriteSome
  <2>4. nospace' \in BOOLEAN /\ edge' \in BOOLEAN
    BY <1>1 DEF Inv, TypeOK
  <2>5. QED
    BY <1>1, <2>1, <2>2, <2>3, <2>4, WriteEndKeeps
<1>3. CASE ~(offset' >= Len(buffer))
  <2>1. UNCHANGED socket /\ UNCHANGED <<pc, submitted, promise>>
    BY <1>3 DEF WriteSome
  <2>2. QED
    BY <1>1, <2>1, RoundKeeps
<1>4. QED
  BY <1>2, <1>3

LEMMA WriteBlocksKeeps ==
  ASSUME Inv, WriteBlocks
  PROVE  Inv'
<1>1. /\ pc = "write" /\ WriteEnd(offset, FALSE) /\ UNCHANGED <<net, room, edge, offset, sent>>
      /\ nospace' \in BOOLEAN
  BY DEF WriteBlocks, Blocks, Inv, TypeOK
<1>2. offset \in InLoop .. Len(buffer) /\ offset' \in 0 .. submitted
  BY <1>1, Lengths DEF InLoop
<1>3. /\ sent \in Seq(Nat) /\ Len(sent) = bytes_written + offset
      /\ \A i \in 1 .. Len(sent) : sent[i] = i
  BY <1>1 DEF Inv, TypeOK, StreamInv, InLoop
<1>4. room' \in 0 .. Capacity /\ edge' \in BOOLEAN
  BY <1>1 DEF Inv, TypeOK
<1>5. QED
  BY <1>1, <1>2, <1>3, <1>4, WriteEndKeeps

(* write is called: the new bytes continue the numbering. *)
LEMMA WriteKeeps ==
  ASSUME Inv, NEW n \in 0 .. MaxLength, Write(n)
  PROVE  Inv'
<1> DEFINE new == [i \in 1 .. n |-> submitted + i]
           p == [fate |-> "writing", last |-> submitted + n, early |-> status # "CONNECTED"]
           k == Len(promise)
<1>1. /\ pc = "user" /\ pc' = "write" /\ offset' = 0 /\ Len(promise) < MaxWrites
      /\ buffer' = buffer \o new /\ submitted' = submitted + n
      /\ promise' = Append(promise, p)
      /\ UNCHANGED <<status, bytes_written, write_promise_queue, connect_promise, sent>>
      /\ UNCHANGED kernel
  BY DEF Write
<1>2. n \in Nat /\ submitted \in Nat /\ k \in Nat /\ MaxWrites \in Nat
  BY SocketWriteAssumption, Lengths
<1>3. new \in Seq(Nat) /\ Len(new) = n /\ \A i \in 1 .. n : new[i] = submitted + i
  BY <1>2, NumbersFacts
<1>4. p \in Promises /\ p.last = submitted + n /\ p.fate = "writing"
  <2>1. (status # "CONNECTED") \in BOOLEAN
    OBVIOUS
  <2>2. QED
    BY <1>2, <2>1 DEF Promises
<1>5. buffer \in Seq(Nat) /\ promise \in Seq(Promises)
  BY TypesOK DEF Inv, Types
<1>6. /\ Len(buffer) \in Nat /\ bytes_written \in Nat
      /\ bytes_written = Len(sent)
      /\ bytes_written + Len(buffer) = submitted
      /\ \A i \in 1 .. Len(buffer) : buffer[i] = bytes_written + i
  BY <1>1, Lengths DEF Inv, StreamInv, InLoop
<1> HIDE DEF new, p, k
<1>7. /\ buffer' \in Seq(Nat) /\ Len(buffer') = Len(buffer) + n
      /\ \A i \in 1 .. Len(buffer) + n :
           buffer'[i] = IF i <= Len(buffer) THEN buffer[i] ELSE new[i - Len(buffer)]
  BY <1>1, <1>3, <1>5, ConcatProperties
<1>8. ASSUME NEW i \in 1 .. Len(buffer') PROVE buffer'[i] = bytes_written + i
  <2>1. CASE i <= Len(buffer)
    BY SMTT(30), <1>6, <1>7, <2>1
  <2>2. CASE ~(i <= Len(buffer))
    <3>1. i - Len(buffer) \in 1 .. n
      BY <1>2, <1>6, <1>7, <2>2
    <3>2. buffer'[i] = submitted + (i - Len(buffer))
      BY <1>3, <1>7, <2>2, <3>1
    <3>3. /\ i \in Nat /\ Len(buffer) \in Nat /\ bytes_written \in Nat
          /\ bytes_written + Len(buffer) = submitted
      BY <1>2, <1>6, <1>7
    <3>4. QED
      BY <3>2, <3>3
  <2>3. QED
    BY <2>1, <2>2
<1>9. /\ promise' \in Seq(Promises) /\ Len(promise') = k + 1
      /\ \A w \in 1 .. k : promise'[w] = promise[w]
      /\ promise'[k + 1] = p
  BY <1>1, <1>4, <1>5, AppendProperties DEF k
<1>10. TypeOK'
  <2>1. submitted' \in Nat /\ offset' \in 0 .. submitted'
    BY <1>1, <1>2
  <2>2. Types'
    BY <1>1, <1>7, <1>9, <2>1 DEF Types, Inv, TypeOK, Items, kernel
  <2>3. QED
    BY <2>2 DEF TypeOK, Types, Items, Promises
<1>11. StreamInv'
  <2>1. InLoop' = 0
    BY <1>1 DEF InLoop
  <2>2. /\ InLoop' <= Len(buffer') /\ bytes_written + InLoop' = Len(sent)
        /\ bytes_written + Len(buffer') = submitted'
    <3>1. /\ Len(buffer') = Len(buffer) + n /\ submitted' = submitted + n
          /\ Len(buffer) \in Nat /\ bytes_written \in Nat /\ n \in Nat
          /\ bytes_written = Len(sent) /\ bytes_written + Len(buffer) = submitted
      BY <1>1, <1>2, <1>6, <1>7
    <3>2. QED
      BY <2>1, <3>1
  <2>3. \A i \in 1 .. Len(sent) : sent[i] = i
    BY DEF Inv, StreamInv
  <2>4. QED
    BY <1>1, <1>8, <2>2, <2>3 DEF StreamInv
<1>12. NetInv'
  BY <1>1 DEF Inv, NetInv, kernel
<1>13. FateInv'
  <2>1. Len(promise') <= MaxWrites /\ Len(promise') > 0
    BY <1>1, <1>2, <1>9 DEF k
  <2>2. promise'[Len(promise')].last = submitted'
    BY <1>1, <1>4, <1>9
  <2>3. ASSUME NEW i \in 1 .. Len(write_promise_queue)
        PROVE  /\ write_promise_queue[i].write \in 1 .. k + 1
               /\ promise'[write_promise_queue[i].write].last = write_promise_queue[i].target
    <3>1. /\ write_promise_queue[i].write \in 1 .. k
          /\ promise[write_promise_queue[i].write].last = write_promise_queue[i].target
      BY DEF Inv, FateInv, k
    <3>2. QED
      BY <1>2, <1>9, <3>1
  <2>4. ASSUME NEW w \in 1 .. k + 1, promise'[w].fate = "resolved"
        PROVE  promise'[w].last <= Len(sent)
    <3>1. w \in 1 .. k
      BY <1>2, <1>4, <1>9, <2>4
    <3>2. QED
      BY <1>9, <2>4, <3>1 DEF Inv, FateInv, k
  <2>5. QED
    BY <1>1, <1>9, <2>1, <2>2, <2>3, <2>4 DEF FateInv
<1>14. QED
  BY <1>10, <1>11, <1>12, <1>13 DEF Inv

(* An exception in write: nothing had been taken. *)
LEMMA WriteThrowsKeeps ==
  ASSUME Inv, WriteThrows
  PROVE  Inv'
<1>1. /\ pc = "write" /\ net # "established" /\ Fate("threw") /\ pc' = "user"
      /\ UNCHANGED <<status, buffer, bytes_written, write_promise_queue, connect_promise,
                     offset, net, room, nospace, edge, submitted, sent>>
  BY DEF WriteThrows, Breaks, socket, kernel
<1>2. Len(sent) = 0 /\ InLoop = 0 /\ Len(promise) > 0
  <2>1. Len(sent) = 0 /\ Len(promise) > 0
    BY <1>1 DEF Inv, NetInv, FateInv
  <2>2. bytes_written + InLoop = Len(sent)
    BY DEF Inv, StreamInv
  <2>3. QED
    BY <2>1, <2>2, Lengths
<1>3. /\ promise' \in Seq(Promises) /\ Len(promise') = Len(promise)
      /\ \A w \in 1 .. Len(promise) :
           /\ promise'[w].last = promise[w].last
           /\ promise'[w].fate = IF w = Len(promise) THEN "threw" ELSE promise[w].fate
  BY <1>1, <1>2, FateFacts
<1>4. InLoop' = 0
  BY <1>1 DEF InLoop
<1>5. TypeOK'
  <2>1. Types'
    BY <1>1, <1>3, TypesOK DEF Types, Inv
  <2>2. QED
    BY <2>1 DEF TypeOK, Types, Items, Promises
<1>6. StreamInv' /\ NetInv'
  BY <1>1, <1>2, <1>4 DEF Inv, StreamInv, NetInv
<1>7. FateInv'
  <2>1. \A i \in 1 .. Len(write_promise_queue) :
          /\ write_promise_queue[i].write \in 1 .. Len(promise)
          /\ promise'[write_promise_queue[i].write].last = write_promise_queue[i].target
    BY <1>3 DEF Inv, FateInv
  <2>2. \A w \in 1 .. Len(promise) :
          promise'[w].fate = "resolved" => promise'[w].last <= Len(sent)
    BY <1>3 DEF Inv, FateInv
  <2>3. promise'[Len(promise)].last = submitted /\ Len(promise) <= MaxWrites
    BY <1>2, <1>3, Lengths DEF Inv, FateInv
  <2>4. QED
    BY <1>1, <1>3, <2>1, <2>2, <2>3 DEF FateInv
<1>8. QED
  BY <1>5, <1>6, <1>7 DEF Inv

(* reactor_on_event is through: the items whose bytes are with the kernel   *)
(* leave the queue, their promises resolved.                                *)
LEMMA FlushEndKeeps ==
  ASSUME Inv, FlushEnd
  PROVE  Inv'
<1> DEFINE count == bytes_written + offset
           next == Unreached(write_promise_queue, count)
           reached == {write_promise_queue[i].write : i \in 1 .. next - 1}
           k == Len(promise)
<1>1. /\ pc = "flush" /\ pc' = "user" /\ offset' = 0
      /\ buffer' = SubSeq(buffer, offset + 1, Len(buffer))
      /\ bytes_written' = bytes_written + offset
      /\ write_promise_queue' = SubSeq(write_promise_queue, next, Len(write_promise_queue))
      /\ promise' = [w \in 1 .. k |->
                       IF w \in reached THEN [promise[w] EXCEPT !.fate = "resolved"]
                                        ELSE promise[w]]
      /\ UNCHANGED <<status, connect_promise, net, room, edge, submitted, sent>>
      /\ nospace' \in BOOLEAN
  BY DEF FlushEnd, Blocks, Inv, TypeOK
<1>2. /\ offset \in InLoop .. Len(buffer) /\ count \in Nat
      /\ sent \in Seq(Nat) /\ Len(sent) = bytes_written + offset
      /\ \A i \in 1 .. Len(sent) : sent[i] = i
  BY <1>1, Lengths DEF InLoop, Inv, StreamInv, TypeOK
<1>3. StreamInv' /\ buffer' \in Seq(Nat) /\ bytes_written' \in Nat
  BY <1>1, <1>2, ShiftFacts
<1>4. /\ write_promise_queue \in Seq(Items) /\ promise \in Seq(Promises)
      /\ Len(write_promise_queue) \in Nat /\ k \in Nat
  BY Lengths, TypesOK DEF Inv, Types
<1>5. /\ next \in 1 .. Len(write_promise_queue) + 1
      /\ \A i \in 1 .. next - 1 :
           i \in 1 .. Len(write_promise_queue) /\ write_promise_queue[i].target <= count
  <2> HIDE DEF count
  <2>1. QED
    BY <1>2, <1>4, UnreachedFacts
<1> HIDE DEF next
<1>6. \A i \in 1 .. Len(write_promise_queue) :
        /\ write_promise_queue[i].write \in 1 .. k
        /\ promise[write_promise_queue[i].write].last = write_promise_queue[i].target
  BY DEF Inv, FateInv
<1>7. \A w \in reached : w \in 1 .. k /\ promise[w].last <= Len(sent)
  BY <1>2, <1>5, <1>6
<1> HIDE DEF reached, count
<1>8. \A w \in 1 .. k : promise[w] \in Promises
  BY <1>4, ElementOfSeq
<1>9. ASSUME NEW w \in 1 .. k
      PROVE  /\ promise'[w] \in Promises /\ promise'[w].last = promise[w].last
             /\ promise'[w].fate = "resolved" => w \in reached \/ promise[w].fate = "resolved"
  <2>1. CASE w \in reached
    <3>1. promise'[w] = [promise[w] EXCEPT !.fate = "resolved"]
      BY <1>1, <2>1
    <3>2. QED
      BY <1>8, <2>1, <3>1 DEF Promises
  <2>2. CASE w \notin reached
    BY <1>1, <1>8, <2>2
  <2>3. QED
    BY <2>1, <2>2
<1>10. promise' \in Seq(Promises) /\ Len(promise') = k
  <2>1. promise' \in [1 .. k -> Promises]
    BY <1>1, <1>9
  <2>2. QED
    BY <1>4, <2>1
<1>11. /\ write_promise_queue' \in Seq(Items)
       /\ \A i \in 1 .. Len(write_promise_queue') :
            \E j \in 1 .. Len(write_promise_queue) :
              write_promise_queue'[i] = write_promise_queue[j]
  <2> DEFINE d == next - 1
  <2>1. d \in 0 .. Len(write_promise_queue) /\ next = d + 1
    BY <1>4, <1>5
  <2> HIDE DEF d
  <2>2. write_promise_queue' = SubSeq(write_promise_queue, d + 1, Len(write_promise_queue))
    BY <1>1, <2>1
  <2>3. /\ write_promise_queue' \in Seq(Items)
        /\ Len(write_promise_queue') = Len(write_promise_queue) - d
        /\ \A i \in 1 .. Len(write_promise_queue) - d :
             write_promise_queue'[i] = write_promise_queue[d + i]
    BY <1>4, <2>1, <2>2, RestFacts
  <2>4. ASSUME NEW i \in 1 .. Len(write_promise_queue')
        PROVE  \E j \in 1 .. Len(write_promise_queue) :
                 write_promise_queue'[i] = write_promise_queue[j]
    <3>1. i \in 1 .. Len(write_promise_queue) - d
      BY <2>3
    <3>2. d + i \in 1 .. Len(write_promise_queue)
      BY <1>4, <2>1, <3>1
    <3>3. QED
      BY <2>3, <3>1, <3>2
  <2>5. QED
    BY <2>3, <2>4
<1>12. TypeOK'
  <2>1. offset' \in 0 .. submitted'
    BY <1>1, Lengths
  <2>2. Types'
    BY <1>1, <1>3, <1>10, <1>11, <2>1, TypesOK DEF Types, Inv
  <2>3. QED
    BY <2>2 DEF TypeOK, Types, Items, Promises
<1>13. NetInv'
  BY <1>1 DEF Inv, NetInv
<1>14. FateInv'
  <2>1. ASSUME NEW i \in 1 .. Len(write_promise_queue')
        PROVE  /\ write_promise_queue'[i].write \in 1 .. k
               /\ promise'[write_promise_queue'[i].write].last = write_promise_queue'[i].target
    <3>1. PICK j \in 1 .. Len(write_promise_queue) :
            write_promise_queue'[i] = write_promise_queue[j]
      BY <1>11
    <3>2. QED
      BY <1>6, <1>9, <3>1
  <2>2. ASSUME NEW w \in 1 .. k, promise'[w].fate = "resolved"
        PROVE  promise'[w].last <= Len(sent)
    <3>1. CASE w \in reached
      BY <1>7, <1>9, <3>1
    <3>2. CASE promise[w].fate = "resolved"
      BY <1>9, <3>2 DEF Inv, FateInv
    <3>3. QED
      BY <1>9, <2>2, <3>1, <3>2
  <2>3. k > 0 => promise'[k].last = submitted
    <3>1. k > 0 => k \in 1 .. k /\ promise[k].last = submitted
      BY <1>4 DEF Inv, FateInv
    <3>2. QED
      BY <1>9, <3>1
  <2>4. k <= MaxWrites
    BY DEF Inv, FateInv
  <2>5. QED
    BY <1>1, <1>10, <2>1, <2>2, <2>3, <2>4 DEF FateInv
<1>15. QED
  BY <1>3, <1>12, <1>13, <1>14 DEF Inv

-----------------------------------------------------------------------------
LEMMA NextInv == Inv /\ [Next]_vars => Inv'
<1> SUFFICES ASSUME Inv, [Next]_vars PROVE Inv'
  OBVIOUS
<1> DEFINE Rest == UNCHANGED <<buffer, bytes_written, write_promise_queue, submitted, sent,
                               promise>>
<1>0. /\ status \in {"IDLE", "CONNECTING", "CONNECTED"}
      /\ connect_promise \in {"none", "pending", "resolved"}
      /\ net \in {"none", "syn", "established", "failed"}
      /\ room \in 0 .. Capacity /\ nospace \in BOOLEAN /\ edge \in BOOLEAN
      /\ offset \in 0 .. submitted /\ submitted \in Nat
      /\ pc \in {"user", "write", "flush"}
  BY DEF Inv, TypeOK
<1>n. /\ net # "established" => Len(sent) = 0
      /\ status = "IDLE" => net = "none"
  BY DEF Inv, NetInv
<1>1. CASE Connect
  <2>1. Rest /\ UNCHANGED <<pc, offset, room, nospace>> /\ pc = "user" /\ InLoop' = InLoop
    BY <1>1 DEF Connect, history, InLoop
  <2>2. /\ status' \in {"CONNECTED", "CONNECTING"} /\ connect_promise' \in {"resolved", "pending"}
        /\ net' \in {"established", "syn"} /\ edge' \in BOOLEAN /\ net = "none"
    BY <1>0, <1>n, <1>1 DEF Connect
  <2>3. NetInv'
    BY <1>n, <2>1, <2>2 DEF NetInv
  <2>4. QED
    BY <1>0, <2>1, <2>2, <2>3, QuietKeeps
<1>2. CASE \E n \in 0 .. MaxLength : Write(n)
  BY <1>2, WriteKeeps
<1>3. CASE \E n \in 0 .. N_BYTES_PER_ROUND : WriteSome(n)
  BY <1>3, WriteSomeKeeps
<1>4. CASE WriteBlocks
  BY <1>4, WriteBlocksKeeps
<1>5. CASE WriteThrows
  BY <1>5, WriteThrowsKeeps
<1>6. ASSUME NEW n \in 0 .. SOCK_BUFFER_SIZE, FlushSome(n) PROVE Inv'
  <2>1. /\ pc # "user" /\ n \in Nat /\ Take(n, SOCK_BUFFER_SIZE)
        /\ UNCHANGED socket /\ UNCHANGED <<pc, net, nospace, edge, submitted, promise>>
    BY <1>6, SocketWriteAssumption DEF FlushSome
  <2>2. QED
    BY <2>1, RoundKeeps
<1>7. CASE FlushEnd
  BY <1>7, FlushEndKeeps
<1>8. CASE FlushThrows
  <2>1. /\ Rest /\ pc' = "user" /\ net # "established"
        /\ UNCHANGED <<status, connect_promise, offset, net, room, nospace, edge>>
    BY <1>8 DEF FlushThrows, Breaks, socket, kernel, history
  <2>2. InLoop = 0
    <3>1. bytes_written + InLoop = Len(sent)
      BY DEF Inv, StreamInv
    <3>2. QED
      BY <1>n, <2>1, <3>1, Lengths
  <2>3. InLoop' = InLoop
    BY <2>1, <2>2 DEF InLoop
  <2>4. NetInv'
    BY <1>n, <2>1 DEF NetInv
  <2>5. QED
    BY <1>0, <2>1, <2>3, <2>4, QuietKeeps
<1>9. CASE OnConnected
  <2>1. /\ Rest /\ UNCHANGED <<pc, offset, net, room, nospace>> /\ pc = "user"
        /\ edge' \in BOOLEAN
    BY <1>9 DEF OnConnected, Reported, history
  <2>2. /\ status' \in {"CONNECTING", "CONNECTED"}
        /\ connect_promise' \in {"none", "pending", "resolved"}
    BY <1>0, <1>9 DEF OnConnected
  <2>3. NetInv' /\ InLoop' = InLoop
    BY <1>n, <2>1, <2>2 DEF NetInv, InLoop
  <2>4. QED
    BY <1>0, <2>1, <2>2, <2>3, QuietKeeps
<1>10. CASE OnWritable
  <2>1. /\ Rest /\ UNCHANGED <<status, connect_promise, net, room, nospace>> /\ pc = "user"
        /\ pc' = "flush" /\ offset' = 0 /\ edge' \in BOOLEAN
    BY <1>10 DEF OnWritable, Reported, socket, history
  <2>2. InLoop = 0 /\ InLoop' = 0 /\ offset' \in 0 .. submitted
    BY <1>0, <2>1 DEF InLoop
  <2>3. NetInv' /\ InLoop' = InLoop
    BY <1>n, <2>1, <2>2 DEF NetInv
  <2>4. QED
    BY <1>0, <2>1, <2>2, <2>3, QuietKeeps
<1>11. CASE ConnectEnds \/ Drain \/ PeerData \/ UNCHANGED vars
  <2>1. Rest /\ UNCHANGED <<status, connect_promise, pc, offset>> /\ InLoop' = InLoop
    BY <1>11 DEF ConnectEnds, Drain, PeerData, vars, socket, history, InLoop
  <2>2. /\ net' \in {"none", "syn", "established", "failed"}
        /\ nospace' \in BOOLEAN /\ edge' \in BOOLEAN
    BY <1>0, <1>11 DEF ConnectEnds, Drain, PeerData, vars, kernel
  <2>3. room' \in 0 .. Capacity
    BY <1>0, <1>11, SocketWriteAssumption DEF ConnectEnds, Drain, PeerData, vars, kernel
  <2>4. NetInv'
    BY <1>n, <1>11, <2>1 DEF ConnectEnds, Drain, PeerData, vars, kernel, NetInv
  <2>5. TypeOK'
    BY <1>0, <2>1, <2>2, <2>3 DEF Inv, TypeOK
  <2>6. StreamInv'
    BY <2>1 DEF Inv, StreamInv
  <2>7. FateInv'
    BY <2>1 DEF Inv, FateInv
  <2>8. QED
    BY <2>4, <2>5, <2>6, <2>7 DEF Inv
<1>12. QED
  BY <1>1, <1>2, <1>3, <1>4, <1>5, <1>6, <1>7, <1>8, <1>9, <1>10, <1>11
     DEF Next, Loop, OnEvent

LEMMA AlwaysInv == Spec => []Inv
BY InitInv, NextInv, PTL DEF Spec

(* TypeOK of the write path. *)
THEOREM TypeCorrect == Spec => []TypeOK
<1>1. Inv => TypeOK
  BY DEF Inv
<1>2. QED
  BY <1>1, AlwaysInv, PTL

(* ByteStream: however write and reactor_on_event share the writing, and    *)
(* wherever either blocks, no byte is lost, repeated or reordered.          *)
THEOREM BytesInOrder == Spec => []ByteStream
<1>1. ASSUME Inv PROVE ByteStream
  <2> DEFINE rest == SubSeq(buffer, InLoop + 1, Len(buffer))
             all == [i \in 1 .. submitted |-> i]
  <2>1. /\ Len(buffer) \in Nat /\ Len(sent) \in Nat /\ bytes_written \in Nat
        /\ InLoop \in 0 .. Len(buffer) /\ submitted \in Nat
        /\ bytes_written + InLoop = Len(sent)
        /\ bytes_written + Len(buffer) = submitted
        /\ sent \in Seq(Nat) /\ buffer \in Seq(Nat)
    BY <1>1, Lengths DEF Inv, StreamInv, TypeOK
  <2>2. /\ \A i \in 1 .. Len(sent) : sent[i] = i
        /\ \A i \in 1 .. Len(buffer) : buffer[i] = bytes_written + i
    BY <1>1 DEF Inv, StreamInv
  <2>3. /\ rest \in Seq(Nat) /\ Len(rest) = Len(buffer) - InLoop
        /\ \A i \in 1 .. Len(buffer) - InLoop : rest[i] = buffer[InLoop + i]
    BY <2>1, RestFacts
  <2>4. all \in Seq(Nat) /\ Len(all) = submitted /\ \A i \in 1 .. submitted : all[i] = i
    BY <2>1
  <2> HIDE DEF rest, all
  <2>5. /\ sent \o rest \in Seq(Nat) /\ Len(sent \o rest) = Len(sent) + Len(rest)
        /\ \A i \in 1 .. Len(sent) + Len(rest) :
             (sent \o rest)[i] = IF i <= Len(sent) THEN sent[i] ELSE rest[i - Len(sent)]
    BY ZenonT(40), <2>1, <2>3, ConcatProperties
  <2>6. Len(sent \o rest) = submitted
    <3>1. Len(sent) + (Len(buffer) - InLoop) = submitted
      <4>1. /\ Len(buffer) \in Nat /\ Len(sent) \in Nat /\ InLoop \in Nat
            /\ bytes_written \in Nat /\ submitted \in Nat
            /\ bytes_written + InLoop = Len(sent)
            /\ bytes_written + Len(buffer) = submitted
        BY <2>1
      <4>2. QED
        BY <4>1
    <3>2. QED
      BY <2>3, <2>5, <3>1
  <2>7. ASSUME NEW i \in 1 .. submitted PROVE (sent \o rest)[i] = i
    <3>1. i \in 1 .. Len(sent) + Len(rest)
      BY <2>5, <2>6
    <3>2. CASE i <= Len(sent)
      BY <2>1, <2>2, <2>5, <3>1, <3>2
    <3>3. CASE ~(i <= Len(sent))
      <4> DEFINE j == i - Len(sent)
      <4>1. /\ j \in 1 .. Len(buffer) - InLoop /\ InLoop + j \in 1 .. Len(buffer)
            /\ bytes_written + (InLoop + j) = i
        <5>1. /\ Len(buffer) \in Nat /\ Len(sent) \in Nat /\ InLoop \in Nat
              /\ bytes_written \in Nat /\ submitted \in Nat
              /\ bytes_written + InLoop = Len(sent)
              /\ bytes_written + Len(buffer) = submitted
              /\ i \in 1 .. submitted
          BY <2>1
        <5>2. i \in Nat /\ i <= submitted /\ i > Len(sent)
          BY <3>3, <5>1
        <5>3. QED
          BY <5>1, <5>2
      <4>2. (sent \o rest)[i] = rest[j]
        BY <2>5, <3>1, <3>3
      <4> HIDE DEF j
      <4>3. QED
        BY <2>2, <2>3, <4>1, <4>2
    <3>4. QED
      BY <3>2, <3>3
  <2>8. sent \o rest = all
    BY <2>4, <2>5, <2>6, <2>7, SeqEqual
  <2>9. QED
    BY <2>8 DEF ByteStream, rest, all
<1>2. QED
  BY <1>1, AlwaysInv, PTL

(* ResolvedMeansSent: whoever resolves a write promise, its bytes have been *)
(* handed to the kernel.                                                    *)
THEOREM NoneResolvedEarly == Spec => []ResolvedMeansSent
<1>1. ASSUME Inv PROVE ResolvedMeansSent
  <2> SUFFICES ASSUME NEW w \in 1 .. MaxWrites, HasFate(w, "resolved")
               PROVE  Len(sent) >= promise[w].last
    BY DEF ResolvedMeansSent
  <2>1. promise \in Seq(Promises)
    BY <1>1, TypesOK DEF Inv, Types
  <2>2. w \in 1 .. Len(promise) /\ promise[w].fate = "resolved"
    BY <2>1, LenProperties DEF HasFate
  <2>3. promise[w].last <= Len(sent) /\ promise[w].last \in Nat /\ Len(sent) \in Nat
    BY <1>1, <2>2, PromiseTypes, Lengths DEF Inv, FateInv
  <2>4. QED
    BY <2>3
<1>2. QED
  BY <1>1, AlwaysInv, PTL

=============================================================================
