-------------------------- MODULE RecvBufferProofs --------------------------
(***************************************************************************)
(* Proofs about RecvBuffer, for every size of the buffer and any number of *)
(* messages and connections, under two hypotheses that the theorems state: *)
(* no read ends inside a header, and no message is longer than half of the *)
(* buffer and its header (ShortMessages). Both are needed: the runs show   *)
(* what happens without the second.                                        *)
(*                                                                         *)
(* The bytes that the controller has sent and the task not handled are in  *)
(* recv_buf, from process_len to rcv_len, and then in flight. The          *)
(* inductive invariant says where each cell of each message is.            *)
(***************************************************************************)
EXTENDS RecvBuffer, SeqLemmas

\* No message is longer than half of the buffer, its header left aside.
ShortMessages == \A l \in Lens : 2 * l <= Size + 2

CellType == [id : (1..MaxConn) \X (1..MaxSent), k : 1..Size, len : Lens,
             payload : Payloads \cup {0}]
BufferType == {Cell(Garbled, 0)} \cup
                 [id : (1..MaxConn) \X (1..MaxSent), k : 1..Size, len : Lens \cup {Converted},
                  payload : Payloads \cup {0}]

\* The cells in the buffer that were not handled, the number of messages
\* handled, and the message that comes next.
D == rcv_len - process_len
H == Len(handled)
N == Len(sent)
Awaited == sent[H + 1]

\* off[i] is the number of cells that were sent before message i.
Offsets(off) ==
    /\ off \in [1..(N + 1) -> Nat]
    /\ \A i \in 1..N : off[i + 1] = off[i] + sent[i].len
    /\ \A i \in 1..N : \A j \in 1..(N + 1) : i < j => off[i] + sent[i].len <= off[j]

\* Where cell k of message i is when h messages were handled.
Position(off, h, i, k) == off[i] - off[h + 1] + k - 1

\* The cells of the messages to come are in the buffer and then in flight.
Placed(off) ==
    /\ off[N + 1] = off[H + 1] + D + Len(flight)
    /\ \A i \in (H + 1)..N : \A k \in 1..sent[i].len :
          /\ Position(off, H, i, k) < D =>
                recv_buf[process_len + Position(off, H, i, k)] = Cell(sent[i], k)
          /\ Position(off, H, i, k) >= D =>
                flight[Position(off, H, i, k) - D + 1] = Cell(sent[i], k)

StreamInv == \E off : Offsets(off) /\ Placed(off)

HistInv ==
    /\ H <= N
    /\ \A i \in 1..H : handled[i] = sent[i]
    /\ \A i \in 1..N : sent[i].id = <<conn, i>> /\ (i <= Handshake => sent[i].len = HeaderLen)

FlightInv ==
    /\ flight \in Seq(CellType)
    /\ flight # <<>> => flight[1].k # HeaderLen

\* After a move inside the loop head_ptr still points to where the message
\* was: to its length as long as nothing was read over it, and then the
\* message is whole.
StaleHead ==
    /\ Run
    /\ process_len = 0
    /\ head_ptr + 1 < Size
    /\ head_ptr + 2 >= Awaited.len
    /\ rcv_len <= head_ptr + 1 => recv_buf[head_ptr + 1] = Cell(Awaited, HeaderLen)

LengthInv ==
    /\ process_len <= rcv_len
    /\ pc = "top" => left_len = D /\ (D = 0 => rcv_len = 0)
    /\ pc = "loop" => total_len = D /\ D > 0 /\ (head_ptr = process_len \/ StaleHead)
    /\ pc = "handle" => H < N /\ D >= Awaited.len

IInv == TypeOK /\ HistInv /\ FlightInv /\ LengthInv /\ StreamInv
-----------------------------------------------------------------------------
\* The sizes as numbers.
LEMMA Sizes ==
    /\ Size \in Nat /\ Size >= 4
    /\ HeaderLen = 2 /\ HeaderLen \in Lens
    /\ \A l \in Lens : l \in Nat /\ l >= 2 /\ l <= Size
BY RecvAssumption DEF Size, HeaderLen

\* The number of the cells in the buffer.
LEMMA Difference ==
    ASSUME NEW r \in 0..Size, NEW p \in 0..Size, p <= r
    PROVE  r - p \in Nat /\ r - p <= Size /\ r - p \in 0..(2 * Size)
<1>1. Size \in Nat
  BY Sizes
<1> QED
  BY <1>1

\* What a message and its cells are.
LEMMA MessageFacts ==
    ASSUME NEW m \in Message
    PROVE  /\ m.id \in (1..MaxConn) \X (1..MaxSent) /\ m.len \in Lens
           /\ m.payload \in Payloads \cup {0}
           /\ m.len \in Nat /\ m.len >= 2 /\ m.len <= Size
           /\ \A k \in 1..m.len : Cell(m, k) \in CellType
           /\ \A k : Cell(m, k).k = k /\ Cell(m, k).id = m.id
           /\ Number(Cell(m, 2)) = m.len
<1>1. m \in [id : (1..MaxConn) \X (1..MaxSent), len : Lens, payload : Payloads \cup {0}]
  BY DEF Message
<1>2. m.id \in (1..MaxConn) \X (1..MaxSent) /\ m.len \in Lens /\ m.payload \in Payloads \cup {0}
  BY <1>1
<1>3. m.len \in Nat /\ m.len >= 2 /\ m.len <= Size
  BY <1>2, Sizes
<1>4. \A k \in 1..m.len : k \in 1..Size
  BY <1>3, Sizes
<1>5. \A k \in 1..m.len : Cell(m, k) \in CellType
  BY <1>2, <1>4 DEF Cell, CellType
<1>6. \A k : Cell(m, k).k = k /\ Cell(m, k).id = m.id
  BY DEF Cell
<1>7. Number(Cell(m, 2)) = m.len
  BY DEF Cell, Number, HeaderLen
<1> QED
  BY <1>2, <1>3, <1>5, <1>6, <1>7

\* The numbers of the invariant.
LEMMA Numbers ==
    ASSUME TypeOK, HistInv, LengthInv
    PROVE  /\ rcv_len \in Nat /\ rcv_len <= Size /\ process_len \in Nat
           /\ process_len <= rcv_len
           /\ D \in Nat /\ process_len + D = rcv_len
           /\ H \in Nat /\ N \in Nat /\ H <= N
           /\ \A i \in 1..N : sent[i] \in Message
           /\ H < N => H + 1 \in 1..N /\ Awaited \in Message
<1>1. rcv_len \in 0..Size /\ process_len \in 0..Size /\ process_len <= rcv_len
  BY DEF TypeOK, LengthInv
<1>2. H \in Nat /\ N \in Nat /\ H <= N
  <2>1. handled \in Seq(Message \cup {Garbled}) /\ sent \in Seq(Message)
    BY DEF TypeOK
  <2>2. Len(handled) \in Nat /\ Len(sent) \in Nat
    BY <2>1, LenProperties
  <2> QED
    BY <2>2 DEF H, N, HistInv
<1>3. \A i \in 1..N : sent[i] \in Message
  <2>1. sent \in Seq(Message)
    BY DEF TypeOK
  <2> QED
    BY <2>1, ElementOfSeq DEF N
<1>4. rcv_len \in Nat /\ rcv_len <= Size /\ process_len \in Nat
  BY <1>1, Sizes
<1>5. D \in Nat /\ process_len + D = rcv_len
  BY <1>1, <1>4 DEF D
<1>6. H < N => H + 1 \in 1..N
  BY <1>2
<1>7. H < N => Awaited \in Message
  BY <1>3, <1>6 DEF Awaited
<1> QED
  BY <1>1, <1>2, <1>3, <1>4, <1>5, <1>6, <1>7

\* What the buffer holds from process_len on is the awaited message: its
\* header at least, because no read ends inside a header.
LEMMA AtFront ==
    ASSUME IInv, D > 0
    PROVE  /\ H < N /\ D >= 2
           /\ recv_buf[process_len] = Cell(Awaited, 1)
           /\ recv_buf[process_len + 1] = Cell(Awaited, 2)
           /\ process_len + 1 < Size
           /\ Length(process_len) = Awaited.len
           /\ ~Run => Awaited.len = 2
<1>1. TypeOK /\ HistInv /\ FlightInv /\ LengthInv /\ StreamInv
  BY DEF IInv
<1>2. /\ rcv_len \in Nat /\ rcv_len <= Size /\ process_len \in Nat
      /\ D \in Nat /\ process_len + D = rcv_len
      /\ H \in Nat /\ N \in Nat /\ H <= N
      /\ H < N => H + 1 \in 1..N /\ Awaited \in Message
  BY <1>1, Numbers
<1>3. flight \in Seq(CellType) /\ Len(flight) \in Nat
  BY <1>1, LenProperties DEF FlightInv
<1>4. PICK off : Offsets(off) /\ Placed(off)
  BY <1>1 DEF StreamInv
<1>5. off[N + 1] = off[H + 1] + D + Len(flight) /\ off[H + 1] \in Nat /\ off[N + 1] \in Nat
  <2>1. H + 1 \in 1..(N + 1) /\ N + 1 \in 1..(N + 1)
    BY <1>2
  <2> QED
    BY <1>4, <2>1 DEF Offsets, Placed
<1>6. H < N
  <2>1. H # N
    BY <1>2, <1>3, <1>5
  <2> QED
    BY <1>2, <2>1
<1> DEFINE m == Awaited
<1>7. m \in Message /\ m.len \in Nat /\ m.len >= 2 /\ m.len <= Size
  BY <1>2, <1>6, MessageFacts
<1>8. H + 1 \in (H + 1)..N /\ m = sent[H + 1]
  BY <1>2, <1>6 DEF Awaited
<1>9. Position(off, H, H + 1, 1) = 0 /\ Position(off, H, H + 1, 2) = 1
  BY <1>5 DEF Position
<1>10. off[H + 1] + m.len <= off[N + 1]
  <2>1. H + 1 \in 1..N /\ N + 1 \in 1..(N + 1) /\ H + 1 < N + 1
    BY <1>2, <1>6
  <2> QED
    BY <1>4, <1>8, <2>1 DEF Offsets
<1>11. D + Len(flight) >= 2
  BY <1>2, <1>3, <1>5, <1>7, <1>10
<1>12. /\ 0 < D => recv_buf[process_len + 0] = Cell(m, 1)
       /\ 1 < D => recv_buf[process_len + 1] = Cell(m, 2)
       /\ 1 >= D => flight[1 - D + 1] = Cell(m, 2)
  <2>1. 1 \in 1..m.len /\ 2 \in 1..m.len
    BY <1>7
  <2> HIDE DEF m
  <2> QED
    BY <1>4, <1>8, <1>9, <2>1 DEF Placed
<1>13. D >= 2
  <2> SUFFICES ASSUME D = 1 PROVE FALSE
    BY <1>2
  <2>1. flight[1] = Cell(m, 2)
    BY <1>12
  <2>2. flight # <<>>
    BY <1>3, <1>11
  <2>3. flight[1].k # 2
    BY <1>1, <2>2 DEF FlightInv, HeaderLen
  <2> QED
    BY <1>7, <2>1, <2>3, MessageFacts
<1>14. recv_buf[process_len] = Cell(m, 1) /\ recv_buf[process_len + 1] = Cell(m, 2)
  BY <1>2, <1>12, <1>13
<1>15. process_len + 1 < Size
  BY <1>2, <1>13, Sizes
<1>16. Length(process_len) = m.len
  <2>1. (process_len + 1) % Size = process_len + 1
    BY <1>2, <1>15, Sizes
  <2>2. process_len + HeaderLen - 1 = process_len + 1
    BY <1>2 DEF HeaderLen
  <2>3. Length(process_len) = Number(Cell(m, 2))
    BY <1>14, <2>1, <2>2 DEF Length, At
  <2> QED
    BY <1>7, <2>3, MessageFacts
<1>17. ~Run => m.len = 2
  BY <1>1, <1>2, <1>6, <1>8 DEF Run, HistInv, H, HeaderLen, Handshake
<1> QED
  BY <1>6, <1>13, <1>14, <1>15, <1>16, <1>17

\* Positions are not negative, and the cells beyond the buffer are in flight.
LEMMA PositionFacts ==
    ASSUME TypeOK, HistInv, LengthInv, FlightInv,
           NEW off, Offsets(off), Placed(off),
           NEW i \in (H + 1)..N, NEW k \in 1..sent[i].len
    PROVE  /\ Position(off, H, i, k) \in Nat
           /\ Position(off, H, i, k) < D + Len(flight)
           /\ off[i] \in Nat /\ off[H + 1] \in Nat
           /\ i = H + 1 \/ off[i] >= off[H + 1] + Awaited.len
<1>1. /\ D \in Nat /\ H \in Nat /\ N \in Nat /\ H <= N
      /\ \A j \in 1..N : sent[j] \in Message
  BY Numbers
<1>2. Len(flight) \in Nat
  BY LenProperties DEF FlightInv
<1>3. i \in 1..N /\ H + 1 \in 1..N /\ i \in 1..(N + 1) /\ H + 1 \in 1..(N + 1)
      /\ N + 1 \in 1..(N + 1) /\ i < N + 1
  BY <1>1
<1>4. sent[i].len \in Nat /\ sent[H + 1].len \in Nat
  BY <1>1, <1>3, MessageFacts
<1>5. off[i] \in Nat /\ off[H + 1] \in Nat /\ off[N + 1] \in Nat
  BY <1>3 DEF Offsets
<1>6. i = H + 1 \/ off[i] >= off[H + 1] + sent[H + 1].len
  <2>1. i = H + 1 \/ H + 1 < i
    BY <1>1
  <2>2. H + 1 < i => off[H + 1] + sent[H + 1].len <= off[i]
    BY <1>3 DEF Offsets
  <2> QED
    BY <1>4, <1>5, <2>1, <2>2
<1>7. off[i] + sent[i].len <= off[N + 1]
  BY <1>3 DEF Offsets
<1>8. off[N + 1] = off[H + 1] + D + Len(flight)
  BY DEF Placed
<1>9. Position(off, H, i, k) = off[i] - off[H + 1] + k - 1
  BY DEF Position
<1>10. k \in Nat /\ k >= 1 /\ k <= sent[i].len
  BY <1>4
<1>11. Position(off, H, i, k) \in Nat
  BY <1>4, <1>5, <1>6, <1>9, <1>10
<1>12. Position(off, H, i, k) < D + Len(flight)
  <2>1. off[i] + k <= off[H + 1] + D + Len(flight)
    BY <1>4, <1>5, <1>7, <1>8, <1>10
  <2>2. off[i] - off[H + 1] + k - 1 < D + Len(flight)
    BY <1>1, <1>2, <1>5, <1>10, <2>1
  <2> QED
    BY <1>9, <2>2
<1> QED
  BY <1>5, <1>6, <1>11, <1>12 DEF Awaited

\* When the awaited message is whole, it is what the task handles.
LEMMA AwaitedWhole ==
    ASSUME IInv, H < N, D >= Awaited.len
    PROVE  InBuffer = Awaited
<1> DEFINE m == Awaited
           p == process_len
<1>1. TypeOK /\ HistInv /\ FlightInv /\ LengthInv /\ StreamInv
  BY DEF IInv
<1>2. /\ rcv_len \in Nat /\ rcv_len <= Size /\ p \in Nat
      /\ D \in Nat /\ p + D = rcv_len
      /\ H \in Nat /\ N \in Nat /\ H <= N
      /\ H + 1 \in 1..N /\ m \in Message
  BY <1>1, Numbers
<1>3. m.len \in Nat /\ m.len >= 2 /\ m.len <= Size
  BY <1>2, MessageFacts
<1>4. /\ recv_buf[p] = Cell(m, 1) /\ p + 1 < Size /\ Length(p) = m.len
  <2>1. D > 0
    BY <1>2, <1>3
  <2> QED
    BY <2>1, AtFront
<1>5. PICK off : Offsets(off) /\ Placed(off)
  BY <1>1 DEF StreamInv
<1>6. ASSUME NEW k \in 1..m.len
      PROVE  At(p + k - 1) = Cell(m, k)
  <2>1. H + 1 \in (H + 1)..N /\ sent[H + 1] = m
    BY <1>2 DEF Awaited
  <2>2. off[H + 1] \in Nat
    <3>1. H + 1 \in 1..(N + 1)
      BY <1>2
    <3> QED
      BY <1>5, <3>1 DEF Offsets
  <2>3. Position(off, H, H + 1, k) = k - 1
    BY <1>3, <2>2 DEF Position
  <2>4. k - 1 < D
    BY <1>2, <1>3
  <2>5. recv_buf[p + (k - 1)] = Cell(m, k)
    BY <1>5, <2>1, <2>3, <2>4 DEF Placed
  <2>6. p + k - 1 = p + (k - 1) /\ p + k - 1 \in 0..(Size - 1)
    BY <1>2, <1>3, <2>4, Sizes
  <2>7. (p + k - 1) % Size = p + k - 1
    BY <2>6, Sizes
  <2> QED
    BY <2>5, <2>6, <2>7 DEF At
<1>7. At(p).id = m.id
  <2>1. p + 1 - 1 = p /\ 1 \in 1..m.len
    BY <1>2, <1>3
  <2>2. At(p) = Cell(m, 1)
    BY <1>6, <2>1
  <2> QED
    BY <1>2, <2>2, MessageFacts
<1>8. p + m.len <= Size
  BY <1>2, <1>3, Sizes
<1> DEFINE whole == {x \in ToSet(sent) : /\ x.id = m.id /\ x.len = m.len
                         /\ \A k \in 1..m.len : At(p + k - 1).id = m.id
                                                /\ At(p + k - 1).k = k}
<1>9. m \in whole
  <2>1. \A k \in 1..m.len : At(p + k - 1).id = m.id /\ At(p + k - 1).k = k
    BY <1>2, <1>6, MessageFacts
  <2>2. sent[H + 1] \in ToSet(sent)
    <3>1. DOMAIN sent = 1..N
      BY <1>1 DEF TypeOK, N
    <3> QED
      BY <1>2, <3>1 DEF ToSet
  <2>3. m \in ToSet(sent)
    BY <2>2 DEF Awaited
  <2> HIDE DEF m
  <2> QED
    BY <2>1, <2>3
<1>10. ASSUME NEW x \in whole PROVE x = m
  <2>1. x \in ToSet(sent) /\ x.id = m.id
    BY DEF whole
  <2>2. DOMAIN sent = 1..N
    BY <1>1 DEF TypeOK, N
  <2>3. PICK i \in 1..N : x = sent[i]
    BY <2>1, <2>2 DEF ToSet
  <2>4. x.id = <<conn, i>> /\ m.id = <<conn, H + 1>>
    BY <1>1, <1>2, <2>3 DEF HistInv, Awaited
  <2>5. i = H + 1
    <3>1. <<conn, i>> = <<conn, H + 1>>
      BY <2>1, <2>4
    <3> QED
      BY <3>1
  <2> QED
    BY <2>3, <2>5 DEF Awaited
<1>11. (CHOOSE x \in whole : TRUE) = m
  <2> HIDE DEF whole, m
  <2> QED
    BY <1>9, <1>10
<1>12. InBuffer = IF p + m.len <= Size /\ whole # {} THEN CHOOSE x \in whole : TRUE ELSE Garbled
  BY <1>4, <1>7 DEF InBuffer
<1> QED
  <2> HIDE DEF whole, m
  <2>1. whole # {}
    BY <1>9
  <2>2. InBuffer = m
    BY <1>8, <1>11, <1>12, <2>1
  <2> QED
    BY <2>2 DEF m

\* The sizes of the buffer and of its cells.
LEMMA BufferFacts ==
    ASSUME TypeOK
    PROVE  /\ recv_buf \in [0..(Size - 1) -> BufferType] /\ DOMAIN recv_buf = 0..(Size - 1)
           /\ CellType \subseteq BufferType
<1>1. recv_buf \in [0..(Size - 1) -> BufferType]
  BY DEF TypeOK, BufferType
<1>2. CellType \subseteq BufferType
  BY DEF CellType, BufferType
<1> QED
  BY <1>1, <1>2

\* What a read leaves in the buffer: the bytes that were left, moved or not,
\* then the new ones, and everything else as it was.
LEMMA FilledFacts ==
    ASSUME TypeOK, HistInv, LengthInv, FlightInv,
           NEW n \in 1..(Size - Start(D)), n <= Len(flight)
    PROVE  LET B == Filled(Moved(D), Start(D), n)
           IN  /\ B \in [0..(Size - 1) -> BufferType]
               /\ Start(D) = Processed + D /\ Start(D) \in Nat /\ Start(D) + n <= Size
               /\ Processed \in Nat
               /\ \A j \in 0..(D - 1) : B[Processed + j] = recv_buf[process_len + j]
               /\ \A j \in D..(D + n - 1) : B[Processed + j] = flight[j - D + 1]
               /\ \A i \in 0..(Size - 1) :
                     i >= Start(D) + n /\ (Move => i >= D) => B[i] = recv_buf[i]
<1> DEFINE s == Start(D)
           p == process_len
           B == Filled(Moved(D), s, n)
<1>1. /\ rcv_len \in Nat /\ rcv_len <= Size /\ p \in Nat
      /\ D \in Nat /\ p + D = rcv_len
  BY Numbers
<1>2. /\ recv_buf \in [0..(Size - 1) -> BufferType] /\ DOMAIN recv_buf = 0..(Size - 1)
      /\ CellType \subseteq BufferType
  BY BufferFacts
<1>3. s = Processed + D /\ s \in Nat /\ Processed \in Nat
  BY <1>1 DEF Start, Processed
<1>4. n \in Nat /\ n >= 1 /\ s + n <= Size
  BY <1>3, Sizes
<1>5. \A i \in 0..(D - 1) : i + p \in 0..(Size - 1) /\ At(i + p) = recv_buf[p + i]
  <2> SUFFICES ASSUME NEW i \in 0..(D - 1)
               PROVE  i + p \in 0..(Size - 1) /\ At(i + p) = recv_buf[p + i]
    OBVIOUS
  <2>1. i + p \in 0..(Size - 1)
    BY <1>1, Sizes
  <2>2. (i + p) % Size = i + p /\ i + p = p + i
    BY <1>1, <2>1, Sizes
  <2> QED
    BY <2>1, <2>2 DEF At
<1>6. /\ DOMAIN Moved(D) = 0..(Size - 1)
      /\ \A i \in 0..(Size - 1) :
            Moved(D)[i] = IF Move /\ i < D THEN recv_buf[p + i] ELSE recv_buf[i]
  <2>1. CASE Move
    <3>1. Moved(D) = [i \in 0..(Size - 1) |-> IF i < D THEN At(i + p) ELSE recv_buf[i]]
      BY <1>2, <2>1 DEF Moved
    <3>2. \A i \in 0..(Size - 1) : i < D => i \in 0..(D - 1)
      BY <1>1
    <3> QED
      BY <1>5, <2>1, <3>1, <3>2
  <2>2. CASE ~Move
    BY <1>2, <2>2 DEF Moved
  <2> QED
    BY <2>1, <2>2
<1>7. B = [i \in 0..(Size - 1) |-> IF s <= i /\ i < s + n THEN flight[i - s + 1] ELSE Moved(D)[i]]
  BY <1>6 DEF Filled
<1>8. \A i \in 1..Len(flight) : flight[i] \in CellType
  BY ElementOfSeq DEF FlightInv
<1> HIDE DEF s, B
<1>9. B \in [0..(Size - 1) -> BufferType]
  <2>1. ASSUME NEW i \in 0..(Size - 1), s <= i, i < s + n
        PROVE  flight[i - s + 1] \in BufferType
    <3>1. i - s + 1 \in 1..Len(flight)
      <4>1. Len(flight) \in Nat
        BY LenProperties DEF FlightInv
      <4> QED
        BY <1>3, <1>4, <2>1, <4>1
    <3> QED
      BY <1>2, <1>8, <3>1
  <2>2. ASSUME NEW i \in 0..(Size - 1) PROVE Moved(D)[i] \in BufferType
    <3>1. recv_buf[i] \in BufferType
      BY <1>2
    <3>2. i < D => recv_buf[p + i] \in BufferType
      <4>1. i < D => p + i \in 0..(Size - 1)
        BY <1>1, Sizes
      <4> QED
        BY <1>2, <4>1
    <3> QED
      BY <1>6, <3>1, <3>2
  <2> QED
    BY <1>7, <2>1, <2>2
<1>10. ASSUME NEW j \in 0..(D - 1) PROVE B[Processed + j] = recv_buf[p + j]
  <2>1. Processed + j \in 0..(Size - 1) /\ Processed + j < s /\ j < D /\ j \in Nat
    BY <1>1, <1>3, <1>4, Sizes
  <2>2. B[Processed + j] = Moved(D)[Processed + j]
    BY <1>3, <1>7, <2>1
  <2>3. Moved(D)[Processed + j] = IF Move /\ Processed + j < D THEN recv_buf[p + (Processed + j)]
                                  ELSE recv_buf[Processed + j]
    BY <1>6, <2>1
  <2>4. CASE Move
    <3>1. Processed = 0 /\ 0 + j = j
      BY <2>1, <2>4 DEF Processed
    <3> QED
      BY <2>1, <2>2, <2>3, <2>4, <3>1
  <2>5. CASE ~Move
    <3>1. Processed = p
      BY <2>5 DEF Processed
    <3> QED
      BY <2>2, <2>3, <2>5, <3>1
  <2> QED
    BY <2>4, <2>5
<1>11. ASSUME NEW j \in D..(D + n - 1) PROVE B[Processed + j] = flight[j - D + 1]
  <2>1. Processed + j \in 0..(Size - 1) /\ s <= Processed + j /\ Processed + j < s + n
    BY <1>1, <1>3, <1>4, Sizes
  <2>2. (Processed + j) - s + 1 = j - D + 1
    BY <1>1, <1>3, <1>4
  <2> QED
    BY <1>7, <2>1, <2>2
<1>12. ASSUME NEW i \in 0..(Size - 1), i >= s + n, Move => i >= D
       PROVE  B[i] = recv_buf[i]
  <2>1. ~(i < s + n) /\ (Move => ~(i < D))
    BY <1>1, <1>3, <1>4, <1>12
  <2> QED
    BY <1>6, <1>7, <2>1
<1>13. Start(D) = s /\ Filled(Moved(D), Start(D), n) = B
  BY DEF s, B
<1> QED
  BY <1>3, <1>4, <1>9, <1>10, <1>11, <1>12, <1>13

\* A read keeps the order of the cells.
LEMMA ReadOK ==
    ASSUME IInv, ~SplitHeaders, NEW n \in 1..(Size - Start(D)), Readable(n),
           recv_buf' = Filled(Moved(D), Start(D), n),
           flight' = SubSeq(flight, n + 1, Len(flight)),
           rcv_len' = Start(D) + n,
           process_len' = Processed,
           UNCHANGED <<sent, handled, conn>>
    PROVE  /\ recv_buf' \in [0..(Size - 1) -> BufferType]
           /\ rcv_len' \in 0..Size /\ process_len' \in 0..Size /\ process_len' <= rcv_len'
           /\ D' = D + n
           /\ HistInv' /\ FlightInv' /\ StreamInv'
           /\ \A i \in 0..(Size - 1) :
                 i >= rcv_len' /\ (Move => i >= D) => recv_buf'[i] = recv_buf[i]
<1>1. TypeOK /\ HistInv /\ FlightInv /\ LengthInv /\ StreamInv
  BY DEF IInv
<1>2. /\ rcv_len \in Nat /\ rcv_len <= Size /\ process_len \in Nat
      /\ D \in Nat /\ process_len + D = rcv_len
      /\ H \in Nat /\ N \in Nat /\ H <= N
      /\ \A i \in 1..N : sent[i] \in Message
  BY <1>1, Numbers
<1>3. flight \in Seq(CellType) /\ Len(flight) \in Nat /\ n \in Nat /\ n >= 1 /\ n <= Len(flight)
  BY <1>1, LenProperties DEF FlightInv, Readable
<1>4. /\ recv_buf' \in [0..(Size - 1) -> BufferType]
      /\ Start(D) = Processed + D /\ Start(D) \in Nat /\ Start(D) + n <= Size
      /\ Processed \in Nat
      /\ \A j \in 0..(D - 1) : recv_buf'[Processed + j] = recv_buf[process_len + j]
      /\ \A j \in D..(D + n - 1) : recv_buf'[Processed + j] = flight[j - D + 1]
      /\ \A i \in 0..(Size - 1) :
            i >= Start(D) + n /\ (Move => i >= D) => recv_buf'[i] = recv_buf[i]
  BY <1>1, <1>3, FilledFacts
<1>5. rcv_len' \in 0..Size /\ process_len' \in 0..Size /\ process_len' <= rcv_len'
  <2>1. rcv_len' \in Nat /\ rcv_len' <= Size /\ process_len' \in Nat
    BY <1>3, <1>4
  <2>2. process_len' <= rcv_len'
    BY <1>2, <1>3, <1>4
  <2> QED
    BY <2>1, <2>2, Sizes
<1>6. D' = D + n
  BY <1>2, <1>3, <1>4 DEF D
<1>7. H' = H /\ N' = N /\ sent' = sent
  BY DEF H, N
<1>8. HistInv'
  BY <1>1, <1>7 DEF HistInv
<1>9. /\ flight' \in Seq(CellType)
      /\ Len(flight') = Len(flight) - n
      /\ \A i \in 1..(Len(flight) - n) : flight'[i] = flight[n + i]
  <2>1. \A i \in (n + 1)..Len(flight) : flight[i] \in CellType
    <3>1. \A i \in 1..Len(flight) : flight[i] \in CellType
      BY <1>3, ElementOfSeq
    <3> QED
      BY <1>3, <3>1
  <2>2. /\ flight' \in Seq(CellType)
        /\ Len(flight') = IF n + 1 <= Len(flight) THEN Len(flight) - (n + 1) + 1 ELSE 0
        /\ \A i \in 1..(Len(flight) - (n + 1) + 1) : flight'[i] = flight[(n + 1) + i - 1]
    BY <1>3, <2>1, SubSeqProperties
  <2> QED
    BY <1>3, <2>2
<1>10. FlightInv'
  <2> SUFFICES ASSUME flight' # <<>> PROVE flight'[1].k # HeaderLen
    BY <1>9 DEF FlightInv
  <2>1. Len(flight') >= 1
    BY <1>9
  <2>2. n < Len(flight) /\ flight'[1] = flight[n + 1]
    BY <1>3, <1>9, <2>1
  <2>3. flight[n + 1].k \notin 2..HeaderLen
    BY <2>2 DEF Readable
  <2> QED
    BY <2>2, <2>3 DEF HeaderLen
<1>11. PICK off : Offsets(off) /\ Placed(off)
  BY <1>1 DEF StreamInv
<1>12. Offsets(off)'
  BY <1>7, <1>11 DEF Offsets
<1>13. off[N + 1] = off[H + 1] + D' + Len(flight')
  <2>1. N + 1 \in 1..(N + 1) /\ H + 1 \in 1..(N + 1)
    BY <1>2
  <2>2. off[N + 1] \in Nat /\ off[H + 1] \in Nat
    BY <1>11, <2>1 DEF Offsets
  <2> QED
    BY <1>2, <1>3, <1>6, <1>9, <1>11, <2>2 DEF Placed
<1>14. ASSUME NEW i \in (H + 1)..N, NEW k \in 1..sent[i].len
       PROVE  /\ Position(off, H, i, k) < D' =>
                    recv_buf'[process_len' + Position(off, H, i, k)] = Cell(sent[i], k)
              /\ Position(off, H, i, k) >= D' =>
                    flight'[Position(off, H, i, k) - D' + 1] = Cell(sent[i], k)
  <2> DEFINE j == Position(off, H, i, k)
  <2>1. j \in Nat /\ j < D + Len(flight)
    BY <1>1, <1>11, PositionFacts
  <2>2. /\ j < D => recv_buf[process_len + j] = Cell(sent[i], k)
        /\ j >= D => flight[j - D + 1] = Cell(sent[i], k)
    BY <1>11 DEF Placed
  <2> HIDE DEF j
  <2>3. CASE j < D
    <3>1. j \in 0..(D - 1) /\ j < D' /\ ~(j >= D')
      BY <1>2, <1>3, <1>6, <2>1, <2>3
    <3>2. recv_buf'[Processed + j] = recv_buf[process_len + j]
      BY <1>4, <3>1
    <3> QED
      BY <2>2, <2>3, <3>1, <3>2 DEF j
  <2>4. CASE j >= D /\ j < D'
    <3>1. j \in D..(D + n - 1) /\ ~(j >= D')
      BY <1>2, <1>3, <1>6, <2>1, <2>4
    <3>2. recv_buf'[Processed + j] = flight[j - D + 1]
      BY <1>4, <3>1
    <3> QED
      BY <2>2, <2>4, <3>1, <3>2 DEF j
  <2>5. CASE j >= D'
    <3>1. /\ j >= D /\ ~(j < D') /\ j - D' + 1 \in 1..(Len(flight) - n)
          /\ n + (j - D' + 1) = j - D + 1
      BY <1>2, <1>3, <1>6, <2>1, <2>5
    <3>2. flight'[j - D' + 1] = flight[j - D + 1]
      BY <1>9, <3>1
    <3> QED
      BY <2>2, <3>1, <3>2 DEF j
  <2>6. j < D \/ (j >= D /\ j < D') \/ j >= D'
    BY <1>2, <1>3, <1>6, <2>1
  <2> QED
    BY <2>3, <2>4, <2>5, <2>6
<1>15. Placed(off)'
  BY <1>7, <1>13, <1>14 DEF Placed
<1>16. StreamInv'
  BY <1>12, <1>15 DEF StreamInv
<1> QED
  BY <1>4, <1>5, <1>6, <1>8, <1>10, <1>16
-----------------------------------------------------------------------------
\* What the test of the inner loop tells the task.
LEMMA LoopTest ==
    ASSUME IInv, pc = "loop"
    PROVE  /\ D > 0 /\ H < N
           /\ Enough => D >= Awaited.len
           /\ ~Enough => Run
           /\ ~Enough /\ head_ptr = process_len => D < Awaited.len
<1>1. TypeOK /\ HistInv /\ FlightInv /\ LengthInv /\ StreamInv
  BY DEF IInv
<1>2. D > 0 /\ total_len = D /\ (head_ptr = process_len \/ StaleHead)
  BY <1>1 DEF LengthInv
<1>3. /\ H < N /\ D >= 2 /\ Length(process_len) = Awaited.len
      /\ ~Run => Awaited.len = 2
  BY <1>2, AtFront
<1>4. /\ rcv_len \in Nat /\ process_len \in Nat /\ D \in Nat /\ process_len + D = rcv_len
      /\ Awaited \in Message
  BY <1>1, <1>3, Numbers
<1>5. Awaited.len \in Nat /\ Number(Cell(Awaited, 2)) = Awaited.len
  BY <1>4, MessageFacts
<1>6. CASE head_ptr = process_len
  <2>1. Enough <=> D >= Awaited.len
    BY <1>2, <1>3, <1>6 DEF Enough
  <2> QED
    BY <1>2, <1>3, <1>4, <1>5, <2>1
<1>7. CASE head_ptr # process_len
  <2>1. StaleHead
    BY <1>2, <1>7
  <2>2. Run /\ process_len = 0 /\ head_ptr + 1 < Size /\ head_ptr + 2 >= Awaited.len
    BY <2>1 DEF StaleHead
  <2>3. head_ptr \in Nat
    BY <1>1, Sizes DEF TypeOK
  <2>4. CASE rcv_len <= head_ptr + 1
    <3>1. recv_buf[head_ptr + 1] = Cell(Awaited, 2)
      BY <2>1, <2>4 DEF StaleHead, HeaderLen
    <3>2. head_ptr + HeaderLen - 1 = head_ptr + 1 /\ (head_ptr + 1) % Size = head_ptr + 1
      BY <2>2, <2>3, Sizes
    <3>3. Length(head_ptr) = Awaited.len
      BY <1>5, <3>1, <3>2 DEF Length, At
    <3> QED
      BY <1>2, <1>3, <1>7, <2>2, <3>3 DEF Enough
  <2>5. CASE ~(rcv_len <= head_ptr + 1)
    <3>1. D >= Awaited.len
      BY <1>4, <1>5, <2>2, <2>3, <2>5
    <3> QED
      BY <1>2, <1>3, <1>7, <2>2, <3>1
  <2> QED
    BY <2>4, <2>5
<1> QED
  BY <1>6, <1>7

\* The task starts with an empty buffer and nothing sent.
LEMMA InitOK == Init => IInv
<1> SUFFICES ASSUME Init PROVE IInv
  OBVIOUS
<1>1. /\ pc = "top" /\ rcv_len = 0 /\ process_len = 0 /\ left_len = 0 /\ total_len = 0
      /\ head_ptr = 0 /\ flight = <<>> /\ sent = <<>> /\ handled = <<>> /\ conn = 1
      /\ recv_buf = [i \in 0..(Size - 1) |-> Cell(Garbled, 0)]
  BY DEF Init
<1>2. H = 0 /\ N = 0 /\ D = 0 /\ Len(flight) = 0
  BY <1>1 DEF H, N, D
<1>3. HistInv /\ FlightInv /\ LengthInv
  BY <1>1, <1>2 DEF HistInv, FlightInv, LengthInv
<1>4. StreamInv
  <2> DEFINE off == [i \in 1..1 |-> 0]
  <2>1. Offsets(off)
    BY <1>2 DEF Offsets
  <2>2. Placed(off)
    BY <1>2 DEF Placed
  <2> QED
    BY <2>1, <2>2 DEF StreamInv
<1>5. TypeOK
  <2>1. 0 \in 0..Size /\ 0 \in 0..(2 * Size)
    BY Sizes
  <2>2. conn \in 1..MaxConn
    BY <1>1, RecvAssumption
  <2>3. recv_buf \in [0..(Size - 1) -> BufferType]
    BY <1>1 DEF BufferType
  <2> QED
    BY <1>1, <2>1, <2>2, <2>3 DEF TypeOK, BufferType
<1> QED
  BY <1>3, <1>4, <1>5 DEF IInv

\* Going on to handle the message keeps the invariant when the message is whole.
LEMMA GoOK ==
    ASSUME IInv, pc' = "handle", H < N, D >= Awaited.len,
           left_len' \in 0..Size,
           UNCHANGED <<recv_buf, rcv_len, process_len, total_len, head_ptr, flight, sent,
                       handled, conn>>
    PROVE  IInv'
<1>1. TypeOK /\ HistInv /\ FlightInv /\ LengthInv /\ StreamInv
  BY DEF IInv
<1>2. H' = H /\ N' = N /\ D' = D /\ Awaited' = Awaited
  BY DEF H, N, D, Awaited
<1>3. TypeOK'
  BY <1>1 DEF TypeOK
<1>4. HistInv' /\ FlightInv'
  BY <1>1, <1>2 DEF HistInv, FlightInv
<1>5. LengthInv'
  BY <1>1, <1>2 DEF LengthInv
<1>6. StreamInv'
  <2>1. PICK off : Offsets(off) /\ Placed(off)
    BY <1>1 DEF StreamInv
  <2>2. Offsets(off)' /\ Placed(off)'
    BY <1>2, <2>1 DEF Offsets, Placed
  <2> QED
    BY <2>2 DEF StreamInv
<1> QED
  BY <1>3, <1>4, <1>5, <1>6 DEF IInv

\* A whole message was left in the buffer.
LEMMA TakeOK == IInv /\ take => IInv'
<1> SUFFICES ASSUME IInv, take PROVE IInv'
  OBVIOUS
<1>1. TypeOK /\ HistInv /\ LengthInv
  BY DEF IInv
<1>2. /\ pc = "top" /\ Whole /\ pc' = "handle"
      /\ UNCHANGED <<recv_buf, lens, flight, sent, handled, conn>>
  BY DEF take
<1>3. left_len = D /\ left_len \in 0..Size
  BY <1>1, <1>2 DEF LengthInv, TypeOK
<1>4. D >= 2 /\ D >= Length(process_len)
  BY <1>2, <1>3 DEF Whole, HeaderLen
<1>5. D > 0
  BY <1>1, <1>4, Numbers
<1>6. H < N /\ D >= Awaited.len
  BY <1>4, <1>5, AtFront
<1>7. left_len' \in 0..Size
  BY <1>2, <1>3 DEF lens
<1> QED
  BY <1>2, <1>6, <1>7, GoOK DEF lens

\* The loop ends when the message is whole.
LEMMA RecvDoneOK == IInv /\ recv_done => IInv'
<1> SUFFICES ASSUME IInv, recv_done PROVE IInv'
  OBVIOUS
<1>1. /\ pc = "loop" /\ Enough /\ pc' = "handle"
      /\ UNCHANGED <<recv_buf, lens, flight, sent, handled, conn>>
  BY DEF recv_done
<1>2. H < N /\ D >= Awaited.len
  BY <1>1, LoopTest
<1>3. left_len' \in 0..Size
  BY <1>1 DEF lens, IInv, TypeOK
<1> QED
  BY <1>1, <1>2, <1>3, GoOK DEF lens

\* The first read of a message.
LEMMA RecvFirstOK == IInv /\ ~SplitHeaders /\ recv_first => IInv'
<1> SUFFICES ASSUME IInv, ~SplitHeaders, recv_first PROVE IInv'
  OBVIOUS
<1>1. TypeOK /\ HistInv /\ LengthInv
  BY DEF IInv
<1>2. pc = "top" /\ left_len = D
  BY <1>1 DEF recv_first, LengthInv
<1>3. PICK n \in 1..(Size - Start(D)) :
         /\ Readable(n)
         /\ recv_buf' = Filled(Moved(D), Start(D), n)
         /\ flight' = SubSeq(flight, n + 1, Len(flight))
         /\ rcv_len' = Start(D) + n
         /\ total_len' = n + D
  BY <1>2 DEF recv_first
<1>4. /\ process_len' = Processed /\ head_ptr' = Processed /\ pc' = "loop"
      /\ UNCHANGED <<left_len, sent, handled, conn>>
  BY DEF recv_first
<1>5. /\ recv_buf' \in [0..(Size - 1) -> BufferType]
      /\ rcv_len' \in 0..Size /\ process_len' \in 0..Size /\ process_len' <= rcv_len'
      /\ D' = D + n
      /\ HistInv' /\ FlightInv' /\ StreamInv'
  BY <1>3, <1>4, ReadOK
<1>6. D \in Nat /\ n \in Nat /\ n >= 1
  <2>1. D \in Nat
    BY <1>1, Numbers
  <2>2. Start(D) \in Nat
    BY <1>1, <2>1, Numbers DEF Start
  <2> QED
    BY <2>1, <2>2, Sizes
<1>7. total_len' = D' /\ D' > 0
  BY <1>3, <1>5, <1>6
<1>8. total_len' \in 0..(2 * Size)
  <2>1. D' \in 0..(2 * Size)
    BY <1>5, Difference DEF D
  <2> QED
    BY <1>7, <2>1
<1>9. LengthInv'
  BY <1>4, <1>5, <1>7 DEF LengthInv
<1>10. TypeOK'
  BY <1>1, <1>4, <1>5, <1>8 DEF TypeOK, BufferType
<1> QED
  BY <1>5, <1>9, <1>10 DEF IInv

\* The other reads, the ones that move the bytes included.
LEMMA RecvMoreOK == IInv /\ ~SplitHeaders /\ ShortMessages /\ recv_more => IInv'
<1> SUFFICES ASSUME IInv, ~SplitHeaders, ShortMessages, recv_more PROVE IInv'
  OBVIOUS
<1>1. TypeOK /\ HistInv /\ FlightInv /\ LengthInv /\ StreamInv
  BY DEF IInv
<1>2. /\ pc = "loop" /\ ~Enough
      /\ UNCHANGED <<head_ptr, sent, handled, conn>>
  BY DEF recv_more
<1>3. D > 0 /\ H < N /\ Run /\ (head_ptr = process_len => D < Awaited.len)
  BY <1>2, LoopTest
<1>4. Left = D /\ (Move <=> rcv_len = Size)
  BY <1>3 DEF Left, D, Move
<1>5. total_len = D /\ (head_ptr = process_len \/ StaleHead)
  BY <1>1, <1>2 DEF LengthInv
<1>6. /\ rcv_len \in Nat /\ rcv_len <= Size /\ process_len \in Nat
      /\ D \in Nat /\ process_len + D = rcv_len
      /\ Awaited \in Message
  BY <1>1, <1>3, Numbers
<1>7. /\ Awaited.len \in Nat /\ Awaited.len >= 2 /\ Awaited.len <= Size
      /\ 2 * Awaited.len <= Size + 2
  BY <1>6, MessageFacts DEF ShortMessages
<1>8. D >= 2 /\ recv_buf[process_len + 1] = Cell(Awaited, 2)
  BY <1>3, AtFront
<1>9. left_len' = D /\ left_len' \in 0..Size
  <2>1. left_len' = D
    BY <1>4 DEF recv_more
  <2> QED
    BY <1>6, <2>1, Sizes
<1>10. process_len' = Processed
  BY DEF recv_more
<1>11. H' = H /\ N' = N /\ Awaited' = Awaited
  BY <1>2 DEF H, N, Awaited
<1>12. CASE Start(D) = Size
  <2>1. Move /\ D = Size
    BY <1>4, <1>6, <1>12 DEF Start
  <2>2. process_len = 0 /\ rcv_len = Size
    BY <1>4, <1>6, <2>1, Sizes
  <2>3. /\ pc' = "handle" /\ recv_buf' = Moved(D) /\ rcv_len' = Size
        /\ UNCHANGED <<flight, total_len>>
    BY <1>4, <1>12 DEF recv_more
  <2>4. recv_buf' = recv_buf
    <3>1. recv_buf \in [0..(Size - 1) -> BufferType]
      BY <1>1, BufferFacts
    <3>2. Moved(D) = [i \in 0..(Size - 1) |-> IF i < D THEN At(i + 0) ELSE recv_buf[i]]
      BY <2>1, <2>2, <3>1 DEF Moved
    <3>3. \A i \in 0..(Size - 1) : At(i + 0) = recv_buf[i]
      <4>1. \A i \in 0..(Size - 1) : i + 0 = i /\ i % Size = i
        BY Sizes
      <4> QED
        BY <4>1 DEF At
    <3>4. Moved(D) = [i \in 0..(Size - 1) |-> recv_buf[i]]
      BY <3>2, <3>3
    <3> QED
      BY <2>3, <3>1, <3>4
  <2>5. process_len' = process_len /\ rcv_len' = rcv_len
    BY <1>10, <2>1, <2>2, <2>3 DEF Processed
  <2>6. D >= Awaited.len
    BY <1>7, <2>1
  <2> QED
    BY <1>2, <1>3, <1>9, <2>3, <2>4, <2>5, <2>6, GoOK
<1>13. CASE Start(D) # Size
  <2>1. PICK n \in 1..(Size - Start(D)) :
           /\ Readable(n)
           /\ recv_buf' = Filled(Moved(D), Start(D), n)
           /\ flight' = SubSeq(flight, n + 1, Len(flight))
           /\ rcv_len' = Start(D) + n
           /\ total_len' = total_len + n
    BY <1>4, <1>13 DEF recv_more
  <2>2. pc' = "loop"
    BY <1>2, <1>4, <1>13 DEF recv_more
  <2>3. /\ recv_buf' \in [0..(Size - 1) -> BufferType]
        /\ rcv_len' \in 0..Size /\ process_len' \in 0..Size /\ process_len' <= rcv_len'
        /\ D' = D + n
        /\ HistInv' /\ FlightInv' /\ StreamInv'
        /\ \A i \in 0..(Size - 1) :
              i >= rcv_len' /\ (Move => i >= D) => recv_buf'[i] = recv_buf[i]
    BY <1>2, <1>10, <2>1, ReadOK
  <2>4. n \in Nat /\ n >= 1 /\ Start(D) \in Nat
    <3>1. Start(D) \in Nat
      BY <1>6 DEF Start
    <3> QED
      BY <3>1, Sizes
  <2>5. total_len' = D' /\ D' > 0
    BY <1>5, <1>6, <2>1, <2>3, <2>4
  <2>6. total_len' \in 0..(2 * Size)
    <3>1. D' \in 0..(2 * Size)
      BY <2>3, Difference DEF D
    <3> QED
      BY <2>5, <3>1
  <2>7. TypeOK'
    BY <1>1, <1>2, <1>9, <2>2, <2>3, <2>6 DEF TypeOK, BufferType
  <2>8. head_ptr' = process_len' \/ StaleHead'
    <3>1. CASE ~Move /\ head_ptr = process_len
      BY <1>2, <1>10, <3>1 DEF Processed
    <3>2. CASE ~Move /\ head_ptr # process_len
      <4>1. StaleHead /\ process_len' = 0
        BY <1>5, <1>10, <3>2 DEF Processed, StaleHead
      <4>2. head_ptr + 1 < Size /\ head_ptr \in Nat
        BY <1>1, <4>1, Sizes DEF StaleHead, TypeOK
      <4>3. rcv_len' = rcv_len + n
        BY <2>1, <3>2 DEF Start
      <4>4. ASSUME rcv_len' <= head_ptr + 1
            PROVE  recv_buf'[head_ptr + 1] = Cell(Awaited, HeaderLen)
        <5>1. rcv_len <= head_ptr + 1 /\ head_ptr + 1 >= rcv_len' /\ head_ptr + 1 \in 0..(Size - 1)
          BY <1>6, <2>4, <4>2, <4>3, <4>4, Sizes
        <5>2. recv_buf'[head_ptr + 1] = recv_buf[head_ptr + 1]
          BY <2>3, <3>2, <5>1
        <5> QED
          BY <4>1, <5>1, <5>2 DEF StaleHead
      <4>5. Run'
        BY <1>2, <1>3 DEF Run
      <4> QED
        BY <1>2, <1>11, <4>1, <4>4, <4>5 DEF StaleHead
    <3>3. CASE Move
      <4>1. rcv_len = Size /\ Start(D) = D /\ process_len' = 0
        BY <1>4, <1>10, <3>3 DEF Start, Processed
      <4>2. head_ptr = process_len
        <5> SUFFICES ASSUME head_ptr # process_len PROVE FALSE
          OBVIOUS
        <5>1. process_len = 0
          BY <1>5 DEF StaleHead
        <5>2. D = Size
          BY <1>6, <4>1, <5>1
        <5> QED
          BY <1>13, <4>1, <5>2
      <4>3. D < Awaited.len
        BY <1>3, <4>2
      <4>4. head_ptr + 1 < Size /\ head_ptr + 2 >= Awaited.len /\ head_ptr + 1 >= D /\ head_ptr \in Nat
        BY <1>6, <1>7, <1>8, <4>1, <4>2, <4>3, Sizes
      <4>5. ASSUME rcv_len' <= head_ptr + 1
            PROVE  recv_buf'[head_ptr + 1] = Cell(Awaited, HeaderLen)
        <5>1. head_ptr + 1 >= rcv_len' /\ head_ptr + 1 \in 0..(Size - 1)
          BY <2>3, <4>4, <4>5, Sizes
        <5>2. recv_buf'[head_ptr + 1] = recv_buf[head_ptr + 1]
          BY <2>3, <4>4, <5>1
        <5> QED
          BY <1>8, <4>2, <5>2 DEF HeaderLen
      <4>6. Run'
        BY <1>2, <1>3 DEF Run
      <4> QED
        BY <1>2, <1>11, <4>1, <4>4, <4>5, <4>6 DEF StaleHead
    <3> QED
      BY <3>1, <3>2, <3>3
  <2>9. LengthInv'
    BY <2>2, <2>3, <2>5, <2>8 DEF LengthInv
  <2> QED
    BY <2>3, <2>7, <2>9 DEF IInv
<1> QED
  BY <1>12, <1>13

\* A new connection starts with empty sequences and zero lengths.
LEMMA ReconnectOK == IInv /\ reconnect => IInv'
<1> SUFFICES ASSUME IInv, reconnect PROVE IInv'
  OBVIOUS
<1>1. /\ conn < MaxConn /\ conn' = conn + 1
      /\ pc' = "top" /\ rcv_len' = 0 /\ process_len' = 0 /\ left_len' = 0 /\ total_len' = 0
      /\ head_ptr' = 0 /\ flight' = <<>> /\ sent' = <<>> /\ handled' = <<>>
      /\ recv_buf' = recv_buf
  BY DEF reconnect
<1>2. H' = 0 /\ N' = 0 /\ D' = 0 /\ Len(flight') = 0
  BY <1>1 DEF H, N, D
<1>3. HistInv' /\ FlightInv' /\ LengthInv'
  BY <1>1, <1>2 DEF HistInv, FlightInv, LengthInv
<1>4. StreamInv'
  <2> DEFINE off == [i \in 1..1 |-> 0]
  <2>1. Offsets(off)'
    BY <1>2 DEF Offsets
  <2>2. Placed(off)'
    BY <1>2 DEF Placed
  <2> QED
    BY <2>1, <2>2 DEF StreamInv
<1>5. TypeOK'
  <2>1. 0 \in 0..Size /\ 0 \in 0..(2 * Size)
    BY Sizes
  <2>2. conn' \in 1..MaxConn
    BY <1>1, RecvAssumption DEF IInv, TypeOK
  <2>3. recv_buf' \in [0..(Size - 1) -> BufferType]
    BY <1>1, BufferFacts DEF IInv
  <2> QED
    BY <1>1, <2>1, <2>2, <2>3 DEF TypeOK, BufferType
<1> QED
  BY <1>3, <1>4, <1>5 DEF IInv

\* A message of the controller is appended to the cells in flight.
LEMMA SendOK == IInv /\ send => IInv'
<1> SUFFICES ASSUME IInv, send PROVE IInv'
  OBVIOUS
<1>1. TypeOK /\ HistInv /\ FlightInv /\ LengthInv /\ StreamInv
  BY DEF IInv
<1>2. PICK m \in Message :
         /\ m.id = <<conn, N + 1>>
         /\ N + 1 <= Handshake => m.len = HeaderLen
         /\ sent' = Append(sent, m) /\ flight' = flight \o Cells(m)
  BY DEF send, N
<1>3. /\ UNCHANGED <<pc, recv_buf, handled, conn>>
      /\ UNCHANGED <<rcv_len, process_len, left_len, total_len, head_ptr>>
  BY DEF send, lens
<1>4. /\ D \in Nat /\ H \in Nat /\ N \in Nat /\ H <= N
      /\ \A i \in 1..N : sent[i] \in Message
  BY <1>1, Numbers
<1>5. m.len \in Nat /\ m.len >= 2 /\ m.len <= Size /\ \A k \in 1..m.len : Cell(m, k) \in CellType
  BY MessageFacts
<1>6. /\ sent' \in Seq(Message) /\ N' = N + 1 /\ sent'[N + 1] = m
      /\ \A i \in 1..N : sent'[i] = sent[i]
  <2>1. sent \in Seq(Message)
    BY <1>1 DEF TypeOK
  <2> QED
    BY <1>2, <2>1, AppendProperties DEF N
<1>7. /\ Cells(m) \in Seq(CellType) /\ Len(Cells(m)) = m.len
      /\ \A k \in 1..m.len : Cells(m)[k] = Cell(m, k)
  <2>1. Cells(m) = [k \in 1..m.len |-> Cell(m, k)]
    BY DEF Cells
  <2>2. Cells(m) \in [1..m.len -> CellType]
    BY <1>5, <2>1
  <2>3. Cells(m) \in Seq(CellType)
    BY <1>5, <2>2
  <2> QED
    BY <1>5, <2>1, <2>3
<1>8. flight \in Seq(CellType) /\ Len(flight) \in Nat
  BY <1>1, LenProperties DEF FlightInv
<1>9. /\ flight' \in Seq(CellType) /\ Len(flight') = Len(flight) + m.len
      /\ \A i \in 1..(Len(flight) + m.len) :
            flight'[i] = IF i <= Len(flight) THEN flight[i] ELSE Cell(m, i - Len(flight))
  <2>1. /\ flight' \in Seq(CellType) /\ Len(flight') = Len(flight) + m.len
        /\ \A i \in 1..(Len(flight) + m.len) :
              flight'[i] = IF i <= Len(flight) THEN flight[i] ELSE Cells(m)[i - Len(flight)]
    BY <1>2, <1>7, <1>8, ConcatProperties
  <2>2. \A i \in 1..(Len(flight) + m.len) : ~(i <= Len(flight)) => i - Len(flight) \in 1..m.len
    BY <1>5, <1>8
  <2> QED
    BY <1>7, <2>1, <2>2
<1>10. H' = H /\ D' = D /\ (H < N => Awaited' = Awaited)
  <2>1. H' = H /\ D' = D
    BY <1>3 DEF H, D
  <2>2. H < N => H + 1 \in 1..N
    BY <1>4
  <2> QED
    BY <1>6, <2>1, <2>2 DEF Awaited
<1>11. TypeOK'
  BY <1>1, <1>3, <1>6 DEF TypeOK
<1>12. HistInv'
  <2>1. H <= N + 1
    BY <1>1, <1>4 DEF HistInv
  <2>2. \A i \in 1..H : handled'[i] = sent'[i]
    <3>1. \A i \in 1..H : i \in 1..N
      BY <1>4
    <3> QED
      BY <1>1, <1>3, <1>6, <3>1 DEF HistInv
  <2>3. ASSUME NEW i \in 1..(N + 1)
        PROVE  sent'[i].id = <<conn', i>> /\ (i <= Handshake => sent'[i].len = HeaderLen)
    <3>1. CASE i \in 1..N
      BY <1>1, <1>3, <1>6, <3>1 DEF HistInv
    <3>2. CASE i = N + 1
      BY <1>2, <1>3, <1>6, <3>2
    <3> QED
      BY <1>4, <3>1, <3>2
  <2> QED
    BY <1>6, <1>10, <2>1, <2>2, <2>3 DEF HistInv
<1>13. FlightInv'
  <2> SUFFICES flight'[1].k # HeaderLen
    BY <1>9 DEF FlightInv
  <2>1. 1 \in 1..(Len(flight) + m.len)
    BY <1>5, <1>8
  <2>2. CASE flight = <<>>
    <3>1. Len(flight) = 0
      BY <2>2
    <3>2. flight'[1] = Cell(m, 1)
      BY <1>9, <2>1, <3>1
    <3> QED
      BY <3>2, MessageFacts DEF HeaderLen
  <2>3. CASE flight # <<>>
    <3>1. 1 <= Len(flight)
      BY <1>8, <2>3
    <3>2. flight'[1] = flight[1]
      BY <1>9, <2>1, <3>1
    <3> QED
      BY <1>1, <2>3, <3>2 DEF FlightInv
  <2> QED
    BY <2>2, <2>3
<1>14. LengthInv'
  <2>1. D > 0 => H < N
    BY AtFront
  <2>2. pc = "loop" => D > 0
    BY <1>1 DEF LengthInv
  <2>3. H < N => H < N + 1
    BY <1>4
  <2>4. H < N /\ StaleHead => StaleHead'
    BY <1>3, <1>10 DEF StaleHead, Run
  <2> QED
    BY <1>1, <1>3, <1>6, <1>10, <2>1, <2>2, <2>3, <2>4 DEF LengthInv
<1>15. PICK off : Offsets(off) /\ Placed(off)
  BY <1>1 DEF StreamInv
<1>16. PICK noff :
         /\ noff \in [1..(N + 2) -> Nat] /\ noff[N + 2] = off[N + 1] + m.len
         /\ \A i \in 1..(N + 1) : noff[i] = off[i] /\ off[i] \in Nat
  <2> DEFINE f == [i \in 1..(N + 2) |-> IF i <= N + 1 THEN off[i] ELSE off[N + 1] + m.len]
  <2>1. \A i \in 1..(N + 1) : off[i] \in Nat
    BY <1>15 DEF Offsets
  <2>2. N + 1 \in 1..(N + 1) /\ N + 2 \in 1..(N + 2) /\ ~(N + 2 <= N + 1)
    BY <1>4
  <2>3. \A i \in 1..(N + 2) : i <= N + 1 => i \in 1..(N + 1)
    BY <1>4
  <2>4. \A i \in 1..(N + 1) : i \in 1..(N + 2) /\ i <= N + 1
    BY <1>4
  <2>5. off[N + 1] + m.len \in Nat
    BY <1>5, <2>1, <2>2
  <2>6. /\ f \in [1..(N + 2) -> Nat] /\ f[N + 2] = off[N + 1] + m.len
        /\ \A i \in 1..(N + 1) : f[i] = off[i] /\ off[i] \in Nat
    BY <2>1, <2>2, <2>3, <2>4, <2>5
  <2> HIDE DEF f
  <2> QED
    BY <2>6
<1>17. Offsets(noff)'
  <2>1. ASSUME NEW i \in 1..(N + 1) PROVE noff[i + 1] = noff[i] + sent'[i].len
    <3>1. CASE i \in 1..N
      <4>1. i + 1 \in 1..(N + 1) /\ i \in 1..(N + 1)
        BY <1>4, <3>1
      <4> QED
        BY <1>6, <1>15, <1>16, <3>1, <4>1 DEF Offsets
    <3>2. CASE i = N + 1
      <4>1. i + 1 = N + 2
        BY <1>4, <3>2
      <4> QED
        BY <1>6, <1>16, <3>2, <4>1
    <3> QED
      BY <1>4, <3>1, <3>2
  <2>2. ASSUME NEW i \in 1..(N + 1), NEW j \in 1..(N + 2), i < j
        PROVE  noff[i] + sent'[i].len <= noff[j]
    <3>1. CASE i \in 1..N /\ j \in 1..(N + 1)
      <4>1. i \in 1..(N + 1)
        OBVIOUS
      <4> QED
        BY <1>6, <1>15, <1>16, <2>2, <3>1, <4>1 DEF Offsets
    <3>2. CASE i \in 1..N /\ j = N + 2
      <4>1. N + 1 \in 1..(N + 1) /\ i < N + 1
        BY <1>4, <3>2
      <4>2. off[i] + sent[i].len <= off[N + 1]
        BY <1>15, <3>2, <4>1 DEF Offsets
      <4>3. sent[i].len \in Nat
        BY <1>4, <3>2, MessageFacts
      <4>4. off[i] \in Nat /\ off[N + 1] \in Nat
        BY <1>16, <4>1
      <4>5. off[i] + sent[i].len <= off[N + 1] + m.len
        BY <1>5, <4>2, <4>3, <4>4
      <4> QED
        BY <1>6, <1>16, <3>2, <4>5
    <3>3. CASE i = N + 1
      <4>1. j = N + 2 /\ i + 1 = N + 2
        BY <1>4, <2>2, <3>3
      <4>2. off[N + 1] \in Nat /\ N + 1 \in 1..(N + 1)
        BY <1>4, <1>16
      <4>3. noff[i] + sent'[i].len = off[N + 1] + m.len
        BY <1>6, <1>16, <3>3, <4>2
      <4>4. noff[j] = off[N + 1] + m.len
        BY <1>16, <4>1
      <4>5. off[N + 1] + m.len <= off[N + 1] + m.len
        BY <1>5, <4>2
      <4> QED
        BY <4>3, <4>4, <4>5
    <3> QED
      BY <1>4, <3>1, <3>2, <3>3
  <2>3. N' = N + 1 /\ N' + 1 = N + 2
    BY <1>4, <1>6
  <2>4. /\ \A i \in 1..(N + 1) : noff[i + 1] = noff[i] + sent'[i].len
        /\ \A i \in 1..(N + 1) : \A j \in 1..(N + 2) : i < j => noff[i] + sent'[i].len <= noff[j]
    BY <2>1, <2>2
  <2>5. noff \in [1..(N + 2) -> Nat]
    BY <1>16
  <2> QED
    BY <2>3, <2>4, <2>5, Zenon DEF Offsets
<1>18. Placed(noff)'
  <2>1. H + 1 \in 1..(N + 1) /\ N + 1 \in 1..(N + 1) /\ N' + 1 = N + 2 /\ N' = N + 1
    BY <1>4, <1>6
  <2>2. /\ noff[H + 1] = off[H + 1] /\ off[H + 1] \in Nat /\ off[N + 1] \in Nat
        /\ off[N + 1] = off[H + 1] + D + Len(flight)
    BY <1>15, <1>16, <2>1 DEF Placed
  <2>3. noff[N + 2] = noff[H + 1] + D + Len(flight')
    <3>1. Len(flight') = Len(flight) + m.len /\ noff[N + 2] = off[N + 1] + m.len
      BY <1>9, <1>16
    <3> QED
      BY <1>4, <1>5, <1>8, <2>2, <3>1
  <2>4. ASSUME NEW i \in (H + 1)..(N + 1), NEW k \in 1..sent'[i].len
        PROVE  /\ Position(noff, H, i, k) < D =>
                     recv_buf[process_len + Position(noff, H, i, k)] = Cell(sent'[i], k)
               /\ Position(noff, H, i, k) >= D =>
                     flight'[Position(noff, H, i, k) - D + 1] = Cell(sent'[i], k)
    <3>1. CASE i \in (H + 1)..N
      <4>1. sent'[i] = sent[i] /\ noff[i] = off[i]
        <5>1. i \in 1..N /\ i \in 1..(N + 1)
          BY <1>4, <3>1
        <5> QED
          BY <1>6, <1>16, <5>1
      <4>2. Position(noff, H, i, k) = Position(off, H, i, k)
        BY <2>2, <4>1 DEF Position
      <4>3. Position(off, H, i, k) \in Nat /\ Position(off, H, i, k) < D + Len(flight)
        BY <1>1, <1>15, <3>1, <4>1, PositionFacts
      <4> DEFINE j == Position(off, H, i, k)
      <4>4. /\ j < D => recv_buf[process_len + j] = Cell(sent[i], k)
            /\ j >= D => flight[j - D + 1] = Cell(sent[i], k)
        BY <1>15, <3>1, <4>1 DEF Placed
      <4>5. j >= D => flight'[j - D + 1] = flight[j - D + 1]
        <5> HIDE DEF j
        <5>1. j >= D => j - D + 1 \in 1..(Len(flight) + m.len) /\ j - D + 1 <= Len(flight)
          BY <1>4, <1>5, <1>8, <4>3 DEF j
        <5> QED
          BY <1>9, <5>1
      <4> HIDE DEF j
      <4> QED
        BY <4>1, <4>2, <4>4, <4>5 DEF j
    <3>2. CASE i = N + 1
      <4>1. sent'[i] = m /\ noff[i] = off[N + 1] /\ k \in 1..m.len
        BY <1>6, <1>16, <2>1, <3>2
      <4>2. Position(noff, H, i, k) = D + Len(flight) + k - 1
        BY <1>4, <1>5, <1>8, <2>2, <4>1 DEF Position
      <4> DEFINE j == Position(noff, H, i, k)
      <4> HIDE DEF j
      <4>3. j = D + Len(flight) + k - 1
        BY <4>2 DEF j
      <4>4. ~(j < D) /\ j - D + 1 = Len(flight) + k
        BY <1>4, <1>5, <1>8, <4>1, <4>3
      <4>5. /\ Len(flight) + k \in 1..(Len(flight) + m.len) /\ ~(Len(flight) + k <= Len(flight))
            /\ (Len(flight) + k) - Len(flight) = k
        BY <1>5, <1>8, <4>1
      <4>6. flight'[Len(flight) + k] = Cell(m, k)
        BY <1>9, <4>5
      <4>7. ~(j < D) /\ flight'[j - D + 1] = Cell(m, k)
        BY <4>4, <4>6
      <4> QED
        BY <4>1, <4>7 DEF j
    <3> QED
      BY <1>4, <3>1, <3>2
  <2> QED
    BY <1>3, <1>10, <2>1, <2>3, <2>4 DEF Placed
<1>19. StreamInv'
  BY <1>17, <1>18 DEF StreamInv
<1> QED
  BY <1>11, <1>12, <1>13, <1>14, <1>19 DEF IInv

\* The awaited message is handled; the next one begins behind it.
LEMMA HandleOK ==
    ASSUME IInv, handle
    PROVE  /\ IInv'
           /\ H < N /\ handled' = Append(handled, Awaited) /\ sent' = sent
<1> DEFINE m == Awaited
           p == process_len
<1>1. TypeOK /\ HistInv /\ FlightInv /\ LengthInv /\ StreamInv
  BY DEF IInv
<1>2. pc = "handle" /\ pc' = "top" /\ UNCHANGED <<total_len, head_ptr, flight, sent, conn>>
  BY DEF handle
<1>3. H < N /\ D >= m.len
  BY <1>1, <1>2 DEF LengthInv
<1>4. /\ rcv_len \in Nat /\ rcv_len <= Size /\ p \in Nat
      /\ D \in Nat /\ p + D = rcv_len
      /\ H \in Nat /\ N \in Nat /\ H + 1 \in 1..N /\ m \in Message
  BY <1>1, <1>3, Numbers
<1>5. m.len \in Nat /\ m.len >= 2 /\ m.len <= Size
  BY <1>4, MessageFacts
<1>6. Length(p) = m.len /\ p + 1 < Size /\ recv_buf[p + 1] = Cell(m, 2)
  <2>1. D > 0
    BY <1>3, <1>4, <1>5
  <2> QED
    BY <2>1, AtFront
<1>7. handled' = Append(handled, m)
  BY <1>3, AwaitedWhole DEF handle
<1>8. /\ handled' \in Seq(Message \cup {Garbled}) /\ H' = H + 1 /\ handled'[H + 1] = m
      /\ \A i \in 1..H : handled'[i] = handled[i]
  <2>1. handled \in Seq(Message \cup {Garbled}) /\ m \in Message \cup {Garbled}
    BY <1>1, <1>4 DEF TypeOK
  <2> HIDE DEF m
  <2> QED
    BY <1>7, <2>1, AppendProperties DEF H
<1>9. N' = N /\ sent' = sent
  BY <1>2 DEF N
<1> DEFINE left == rcv_len - (p + m.len)
<1>10. /\ left \in Nat /\ left = D - m.len /\ left <= Size
  BY <1>3, <1>4, <1>5, Sizes
<1>11. /\ left_len' = left
       /\ rcv_len' = IF left = 0 THEN 0 ELSE rcv_len
       /\ process_len' = IF left = 0 THEN 0 ELSE p + m.len
  BY <1>6 DEF handle, Reset
<1> HIDE DEF left, m
<1>12. /\ D' = left /\ process_len' <= rcv_len' /\ (left = 0 => rcv_len' = 0)
       /\ rcv_len' \in 0..Size /\ process_len' \in 0..Size /\ left_len' \in 0..Size
  <2>1. CASE left = 0
    BY <1>11, <2>1, Sizes DEF D
  <2>2. CASE left # 0
    <3>1. rcv_len' = rcv_len /\ process_len' = p + m.len /\ left_len' = left
      BY <1>11, <2>2
    <3>2. left = rcv_len - (p + m.len)
      BY DEF left
    <3> QED
      BY <1>4, <1>5, <1>10, <2>2, <3>1, <3>2, Sizes DEF D
  <2> QED
    BY <2>1, <2>2
<1>13. /\ recv_buf' \in [0..(Size - 1) -> BufferType]
       /\ \A i \in 0..(Size - 1) : i # p + 1 => recv_buf'[i] = recv_buf[i]
  <2>1. recv_buf \in [0..(Size - 1) -> BufferType] /\ CellType \subseteq BufferType
    BY <1>1, BufferFacts
  <2>2. (p + HeaderLen - 1) % Size = p + 1 /\ p + 1 \in 0..(Size - 1)
    <3>1. p + HeaderLen - 1 = p + 1 /\ p + 1 \in 0..(Size - 1)
      BY <1>4, <1>6, Sizes
    <3> QED
      BY <3>1, Sizes
  <2>3. \/ recv_buf' = recv_buf
        \/ recv_buf' = [recv_buf EXCEPT ![p + 1] = [@ EXCEPT !.len = Converted]]
    BY <2>2 DEF handle
  <2>4. [recv_buf[p + 1] EXCEPT !.len = Converted] \in BufferType
    <3>1. Cell(m, 2) \in CellType
      BY <1>4, <1>5, MessageFacts
    <3>2. [Cell(m, 2) EXCEPT !.len = Converted] \in
             [id : (1..MaxConn) \X (1..MaxSent), k : 1..Size, len : Lens \cup {Converted},
              payload : Payloads \cup {0}]
      BY <3>1 DEF CellType
    <3> QED
      BY <1>6, <3>2 DEF BufferType, m
  <2>5. CASE recv_buf' = recv_buf
    BY <2>1, <2>5
  <2>6. CASE recv_buf' = [recv_buf EXCEPT ![p + 1] = [@ EXCEPT !.len = Converted]]
    <3>1. recv_buf' = [i \in 0..(Size - 1) |->
                          IF i = p + 1 THEN [recv_buf[p + 1] EXCEPT !.len = Converted] ELSE recv_buf[i]]
      BY <2>1, <2>2, <2>6
    <3>2. \A i \in 0..(Size - 1) : recv_buf[i] \in BufferType
      BY <2>1
    <3> DEFINE c == [recv_buf[p + 1] EXCEPT !.len = Converted]
    <3> HIDE DEF c
    <3>3. recv_buf' = [i \in 0..(Size - 1) |-> IF i = p + 1 THEN c ELSE recv_buf[i]] /\ c \in BufferType
      BY <2>4, <3>1 DEF c
    <3> QED
      BY <3>2, <3>3
  <2> QED
    BY <2>3, <2>5, <2>6
<1>14. HistInv'
  <2>1. ASSUME NEW i \in 1..(H + 1) PROVE handled'[i] = sent[i]
    <3>1. CASE i \in 1..H
      BY <1>1, <1>8, <3>1 DEF HistInv
    <3>2. CASE i = H + 1
      BY <1>8, <3>2 DEF m, Awaited
    <3> QED
      BY <1>4, <3>1, <3>2
  <2>2. H + 1 <= N
    BY <1>4
  <2> QED
    BY <1>1, <1>2, <1>8, <1>9, <2>1, <2>2 DEF HistInv
<1>15. FlightInv'
  BY <1>1, <1>2 DEF FlightInv
<1>16. TypeOK'
  BY <1>1, <1>2, <1>8, <1>12, <1>13 DEF TypeOK, BufferType
<1>17. LengthInv'
  BY <1>2, <1>11, <1>12 DEF LengthInv
<1>18. PICK off : Offsets(off) /\ Placed(off)
  BY <1>1 DEF StreamInv
<1>19. /\ off[H + 2] = off[H + 1] + m.len /\ off[H + 1] \in Nat /\ off[H + 2] \in Nat
       /\ off[N + 1] = off[H + 1] + D + Len(flight) /\ off[N + 1] \in Nat
  <2>1. /\ H + 1 \in 1..(N + 1) /\ H + 2 \in 1..(N + 1) /\ N + 1 \in 1..(N + 1)
        /\ (H + 1) + 1 = H + 2
    BY <1>4
  <2> QED
    BY <1>4, <1>18, <2>1 DEF Offsets, Placed, m, Awaited
<1>20. Len(flight) \in Nat
  BY <1>1, LenProperties DEF FlightInv
<1>21. off[N + 1] = off[H + 2] + left + Len(flight)
  <2>1. D = left + m.len
    BY <1>4, <1>5, <1>10
  <2>2. off[H + 1] + D + Len(flight) = (off[H + 1] + m.len) + left + Len(flight)
    <3>1. /\ off[H + 1] \in Nat /\ D \in Nat /\ left \in Nat /\ Len(flight) \in Nat
          /\ m.len \in Nat
      BY <1>4, <1>5, <1>10, <1>19, <1>20
    <3> QED
      BY <2>1, <3>1
  <2> QED
    BY <1>19, <2>2
<1>22. ASSUME NEW i \in (H + 2)..N, NEW k \in 1..sent[i].len
       PROVE  /\ Position(off, H + 1, i, k) < left =>
                    recv_buf'[process_len' + Position(off, H + 1, i, k)] = Cell(sent[i], k)
              /\ Position(off, H + 1, i, k) >= left =>
                    flight[Position(off, H + 1, i, k) - left + 1] = Cell(sent[i], k)
  <2>1. i \in (H + 1)..N /\ i # H + 1
    BY <1>4
  <2> DEFINE j == Position(off, H, i, k)
             l == Position(off, H + 1, i, k)
  <2>2. /\ j \in Nat /\ j < D + Len(flight) /\ off[i] \in Nat
        /\ off[i] >= off[H + 1] + m.len
    BY <1>1, <1>18, <2>1, PositionFacts DEF m
  <2>3. /\ j < D => recv_buf[p + j] = Cell(sent[i], k)
        /\ j >= D => flight[j - D + 1] = Cell(sent[i], k)
    BY <1>18, <2>1 DEF Placed
  <2>4. k \in Nat /\ k >= 1
    <3>1. i \in 1..N
      BY <1>4
    <3>2. sent[i].len \in Nat
      BY <1>1, <3>1, Numbers, MessageFacts
    <3> QED
      BY <3>2
  <2>5. j = off[i] - off[H + 1] + k - 1 /\ l = off[i] - off[H + 2] + k - 1
    <3>1. (H + 1) + 1 = H + 2
      BY <1>4
    <3> QED
      BY <3>1 DEF Position
  <2> HIDE DEF j, l
  <2>6. l = j - m.len /\ l \in Nat
    <3>1. l = off[i] - (off[H + 1] + m.len) + k - 1
      BY <1>19, <2>5
    <3>2. off[i] \in Nat /\ off[H + 1] \in Nat /\ m.len \in Nat
      BY <1>5, <1>19, <2>2
    <3>3. j = off[i] - off[H + 1] + k - 1
      BY <2>5
    <3>4. l = j - m.len
      BY <2>4, <3>1, <3>2, <3>3
    <3>5. l >= 0
      <4>1. off[i] >= off[H + 1] + m.len
        BY <2>2
      <4> QED
        BY <2>4, <3>1, <3>2, <4>1
    <3>6. l \in Int
      BY <2>4, <3>1, <3>2
    <3> QED
      BY <3>4, <3>5, <3>6
  <2>7. CASE l < left
    <3>1. /\ j < D /\ ~(l >= left) /\ left # 0
      BY <1>4, <1>5, <1>10, <2>2, <2>6, <2>7
    <3>2. process_len' + l = p + j
      BY <1>4, <1>5, <1>11, <2>2, <2>6, <3>1
    <3>3. p + j \in 0..(Size - 1) /\ p + j # p + 1
      BY <1>4, <1>5, <2>2, <2>6, <3>1, Sizes
    <3>4. recv_buf'[process_len' + l] = recv_buf[p + j]
      BY <1>13, <3>2, <3>3
    <3>5. recv_buf'[process_len' + l] = Cell(sent[i], k)
      BY <2>3, <3>1, <3>4
    <3> QED
      BY <3>1, <3>5 DEF l
  <2>8. CASE l >= left
    <3>1. j >= D /\ ~(l < left) /\ l - left + 1 = j - D + 1
      BY <1>4, <1>5, <1>10, <2>2, <2>6, <2>8
    <3>2. flight[l - left + 1] = Cell(sent[i], k)
      BY <2>3, <3>1
    <3> QED
      BY <3>1, <3>2 DEF l
  <2> QED
    BY <1>10, <2>6, <2>7, <2>8
<1>23. Offsets(off)' /\ Placed(off)'
  <2>1. (H + 1) + 1 = H + 2
    BY <1>4
  <2>2. Offsets(off)'
    BY <1>9, <1>18 DEF Offsets
  <2>3. Placed(off)'
    BY <1>2, <1>8, <1>9, <1>12, <1>21, <1>22, <2>1 DEF Placed
  <2> QED
    BY <2>2, <2>3
<1>24. StreamInv'
  BY <1>23 DEF StreamInv
<1> QED
  BY <1>3, <1>7, <1>9, <1>14, <1>15, <1>16, <1>17, <1>24 DEF IInv, m
-----------------------------------------------------------------------------
\* The hypotheses of the theorems.
Hypotheses == ~SplitHeaders /\ ShortMessages

\* Every step keeps the invariant.
LEMMA Inductive ==
    ASSUME Hypotheses, IInv, [Next]_vars
    PROVE  IInv'
<1> USE DEF Hypotheses
<1>1. CASE send
  BY <1>1, SendOK
<1>2. CASE reconnect
  BY <1>2, ReconnectOK
<1>3. CASE take
  BY <1>3, TakeOK
<1>4. CASE recv_first
  BY <1>4, RecvFirstOK
<1>5. CASE recv_done
  BY <1>5, RecvDoneOK
<1>6. CASE recv_more
  BY <1>6, RecvMoreOK
<1>7. CASE handle
  BY <1>7, HandleOK
<1>8. CASE UNCHANGED vars
  <2>1. UNCHANGED <<pc, recv_buf, rcv_len, process_len, left_len, total_len, head_ptr, flight,
                    sent, handled, conn>>
    BY <1>8 DEF vars, lens
  <2>2. H' = H /\ N' = N /\ D' = D /\ Awaited' = Awaited
    BY <2>1 DEF H, N, D, Awaited
  <2>3. TypeOK' /\ HistInv' /\ FlightInv' /\ LengthInv'
    BY <2>1, <2>2 DEF IInv, TypeOK, HistInv, FlightInv, LengthInv, StaleHead, Run
  <2>4. PICK off : Offsets(off) /\ Placed(off)
    BY DEF IInv, StreamInv
  <2>5. Offsets(off)' /\ Placed(off)'
    BY <2>1, <2>2, <2>4 DEF Offsets, Placed
  <2> QED
    BY <2>3, <2>5 DEF IInv, StreamInv
<1> QED
  BY <1>1, <1>2, <1>3, <1>4, <1>5, <1>6, <1>7, <1>8 DEF Next

\* The invariant holds in every state of every behaviour.
LEMMA Invariance == ASSUME Hypotheses PROVE Spec => []IInv
<1>1. Init => IInv
  BY InitOK
<1>2. IInv /\ [Next]_vars => IInv'
  BY Inductive
<1> QED
  BY <1>1, <1>2, PTL DEF Spec

\* The lengths of pofsc_main_task stay within the buffer, and every cell it
\* holds is one that was received, or that the conversion of a header left.
THEOREM TypeCorrect == ASSUME Hypotheses PROVE Spec => []TypeOK
<1>1. IInv => TypeOK
  BY DEF IInv
<1> QED
  BY <1>1, Invariance, PTL

\* The memcpy of the bytes that are left never overlaps, except that the loop
\* may copy a full buffer onto itself.
THEOREM NoOverlap == ASSUME Hypotheses PROVE Spec => []CopyApart
<1>1. IInv => CopyApart
  <2> SUFFICES ASSUME IInv PROVE CopyApart
    OBVIOUS
  <2>1. TypeOK /\ HistInv /\ LengthInv
    BY DEF IInv
  <2>2. /\ rcv_len \in Nat /\ process_len \in Nat
        /\ D \in Nat /\ process_len + D = rcv_len
        /\ H < N => Awaited \in Message
    BY <2>1, Numbers
  <2>3. H < N => Awaited.len \in Nat /\ 2 * Awaited.len <= Size + 2
    BY <2>2, MessageFacts DEF Hypotheses, ShortMessages
  <2>4. rcv_len = Size /\ H < N /\ D < Awaited.len => D <= process_len
    BY <2>2, <2>3, Sizes
  <2>5. Move => rcv_len = Size
    BY DEF Move
  <2>6. pc = "top" /\ ~Whole /\ Move => left_len <= process_len
    <3> SUFFICES ASSUME pc = "top", ~Whole, Move PROVE left_len <= process_len
      OBVIOUS
    <3>1. left_len = D
      BY <2>1 DEF LengthInv
    <3>2. CASE D = 0
      BY <2>2, <3>1, <3>2
    <3>3. CASE D > 0
      <4>1. H < N /\ D >= 2 /\ Length(process_len) = Awaited.len
        BY <3>3, AtFront
      <4>2. D < Awaited.len
        BY <2>2, <2>3, <3>1, <4>1 DEF Whole, HeaderLen
      <4> QED
        BY <2>4, <2>5, <3>1, <4>1, <4>2
    <3> QED
      BY <2>2, <3>2, <3>3
  <2>7. pc = "loop" /\ ~Enough /\ Move =>
           \/ Left <= process_len
           \/ process_len = 0 /\ head_ptr # 0
    <3> SUFFICES ASSUME pc = "loop", ~Enough, Move
                 PROVE  Left <= process_len \/ (process_len = 0 /\ head_ptr # 0)
      OBVIOUS
    <3>1. H < N /\ (head_ptr = process_len => D < Awaited.len)
      BY LoopTest
    <3>2. Left = D
      BY DEF Left, Move, D
    <3>3. head_ptr = process_len \/ process_len = 0
      BY <2>1 DEF LengthInv, StaleHead
    <3> QED
      BY <2>4, <2>5, <3>1, <3>2, <3>3
  <2> QED
    BY <2>6, <2>7 DEF CopyApart
<1> QED
  BY <1>1, Invariance, PTL

\* pofsc_recv always has room for the first read of a message.
THEOREM RoomForRead == ASSUME Hypotheses PROVE Spec => []AlwaysRoom
<1>1. IInv => AlwaysRoom
  <2> SUFFICES ASSUME IInv, pc = "top", ~Whole PROVE Start(left_len) < Size
    BY DEF AlwaysRoom
  <2>1. TypeOK /\ HistInv /\ LengthInv
    BY DEF IInv
  <2>2. left_len = D /\ (D = 0 => rcv_len = 0)
    BY <2>1 DEF LengthInv
  <2>3. /\ rcv_len \in Nat /\ rcv_len <= Size /\ process_len \in Nat
        /\ D \in Nat /\ process_len + D = rcv_len
        /\ H < N => Awaited \in Message
    BY <2>1, Numbers
  <2>4. CASE D = 0
    BY <2>2, <2>3, <2>4, Sizes DEF Start
  <2>5. CASE D > 0
    <3>1. H < N /\ D >= 2 /\ Length(process_len) = Awaited.len /\ (~Run => Awaited.len = 2)
      BY <2>5, AtFront
    <3>2. Awaited.len \in Nat /\ Awaited.len <= Size
      BY <2>3, <3>1, MessageFacts
    <3>3. D < Awaited.len
      BY <2>2, <2>3, <3>1, <3>2 DEF Whole, HeaderLen
    <3>4. Run
      BY <2>3, <3>1, <3>3
    <3> QED
      BY <2>2, <2>3, <3>2, <3>3, <3>4, Sizes DEF Start, Move
  <2> QED
    BY <2>3, <2>4, <2>5
<1> QED
  BY <1>1, Invariance, PTL

\* The loop does not wait for more bytes when the awaited message is in the
\* buffer, unless head_ptr was left behind by a move.
THEOREM NoWait == ASSUME Hypotheses PROVE Spec => []NoNeedlessWait
<1>1. IInv => NoNeedlessWait
  BY LoopTest DEF NoNeedlessWait, D, H, N, Awaited
<1> QED
  BY <1>1, Invariance, PTL

\* The main task handles the messages of the controller whole, once and in
\* order, however the connection cuts their bytes into reads: the buffer
\* implements the stream of messages.
THEOREM Implements == ASSUME Hypotheses PROVE Spec => StreamSpec
<1>1. Init => Stream!Init
  BY DEF Init, Stream!Init
<1>2. IInv /\ [Next]_vars => [Stream!Next]_Stream!vars
  <2> SUFFICES ASSUME IInv, [Next]_vars PROVE [Stream!Next]_Stream!vars
    OBVIOUS
  <2>1. CASE send
    <3>1. \E m \in Message : sent' = Append(sent, m) /\ UNCHANGED handled
      BY <2>1 DEF send
    <3> QED
      BY <3>1 DEF Stream!Next, Stream!Send
  <2>2. CASE reconnect
    BY <2>2 DEF reconnect, Stream!Next, Stream!Lose
  <2>3. CASE handle
    <3>1. H < N /\ handled' = Append(handled, Awaited) /\ sent' = sent
      BY <2>3, HandleOK
    <3> QED
      BY <3>1 DEF Stream!Next, Stream!Handle, H, N, Awaited
  <2>4. CASE take \/ recv_first \/ recv_done \/ recv_more \/ UNCHANGED vars
    <3>1. UNCHANGED <<sent, handled>>
      BY <2>4 DEF take, recv_first, recv_done, recv_more, vars
    <3> QED
      BY <3>1 DEF Stream!vars
  <2> QED
    BY <2>1, <2>2, <2>3, <2>4 DEF Next
<1> QED
  BY <1>1, <1>2, Invariance, PTL DEF Spec, StreamSpec, Stream!Spec
=============================================================================
