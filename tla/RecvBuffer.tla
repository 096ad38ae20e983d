----------------------------- MODULE RecvBuffer -----------------------------
(***************************************************************************)
(* How the main task cuts the bytes of the connection into messages        *)
(* (pofsc_main_task and pofsc_recv of switch_control/pof_switch.c): the    *)
(* buffer recv_buf, the four lengths and head_ptr.                         *)
(*                                                                         *)
(* Abstractions.  The buffer and the messages consist of cells: a header   *)
(* is one cell with version and type and one with the length, the rest of  *)
(* a message is cells whose value, should it be read as a length, is       *)
(* payload.  Cells that were not overwritten keep their values.  The tests *)
(* of type and version, and the state of the channel beyond the number of  *)
(* the awaited message, are the business of Channel.                       *)
(***************************************************************************)
EXTENDS Integers, Sequences, SequencesExt, FiniteSetsExt

CONSTANTS
    POF_RECV_BUF_MAX_SIZE,  \* cells of the buffer
    Lens,                   \* lengths of messages, with their header
    Payloads,               \* values of payload cells when read as a length
    SplitHeaders,           \* a read may end inside a header
    MaxSent,                \* bound: messages of a connection
    MaxConn                 \* bound: connections

HeaderLen == 2    \* sizeof(pof_header)

ASSUME RecvAssumption ==
    /\ POF_RECV_BUF_MAX_SIZE \in Nat /\ POF_RECV_BUF_MAX_SIZE >= 2 * HeaderLen
    /\ Lens \subseteq HeaderLen..POF_RECV_BUF_MAX_SIZE /\ HeaderLen \in Lens
    /\ Payloads \subseteq Nat
    /\ SplitHeaders \in BOOLEAN
    /\ MaxSent \in Nat /\ MaxConn \in Nat \ {0}

VARIABLES
    pc,           \* "top", "loop" (the test of the inner loop) or "handle"
    recv_buf,
    rcv_len, process_len, left_len, total_len,
    head_ptr,     \* offset in recv_buf
    flight,       \* cells that the controller has sent and the task not read
    sent,         \* messages of this connection
    handled,      \* history: what the task has handled, in order
    conn          \* number of the connection

lens == <<rcv_len, process_len, left_len, total_len, head_ptr>>
vars == <<pc, recv_buf, lens, flight, sent, handled, conn>>

Size == POF_RECV_BUF_MAX_SIZE

\* Messages, and what is handled when the bytes are not those of a message.
Message == {m \in [id : (1..MaxConn) \X (1..MaxSent), len : Lens, payload : Payloads \cup {0}] :
               m.payload \in (IF m.len = HeaderLen THEN {0} ELSE Payloads)}
Garbled == [id |-> <<0, 0>>, len |-> 0, payload |-> 0]

Cell(m, k) == [id |-> m.id, k |-> k, len |-> m.len, payload |-> m.payload]
Cells(m) == [k \in 1..m.len |-> Cell(m, k)]
\* The number in a cell that is read as a length. A handled header has been
\* converted to host order: its length now looks larger than the buffer.
Converted == Size + 1
Number(c) == IF c.k = HeaderLen THEN c.len ELSE c.payload
At(i) == recv_buf[i % Size]
Length(offset) == Number(At(offset + HeaderLen - 1))

Init ==
    /\ pc = "top"
    /\ recv_buf = [i \in 0..(Size - 1) |-> Cell(Garbled, 0)]
    /\ rcv_len = 0 /\ process_len = 0 /\ left_len = 0 /\ total_len = 0 /\ head_ptr = 0
    /\ flight = <<>> /\ sent = <<>> /\ handled = <<>>
    /\ conn = 1
-----------------------------------------------------------------------------
(* The controller. It waits for the features before it goes on with the    *)
(* handshake, and for the configuration before it sends anything else.     *)

Handshake == 4    \* HELLO, FEATURES_REQUEST, SET_CONFIG, GET_CONFIG_REQUEST
MaySend(n) == Len(handled) >= (IF n <= 2 THEN 0 ELSE IF n <= Handshake THEN 2 ELSE Handshake)

send ==
    LET n == Len(sent) + 1
    IN  /\ n <= MaxSent /\ MaySend(n)
        /\ \E m \in Message :
              /\ m.id = <<conn, n>>
              /\ n <= Handshake => m.len = HeaderLen
              /\ sent' = Append(sent, m) /\ flight' = flight \o Cells(m)
        /\ UNCHANGED <<pc, recv_buf, lens, handled, conn>>

\* The connection is lost and the task comes back to POFCS_HELLO on a new
\* one: the lengths are reset, the buffer keeps its bytes.
reconnect ==
    /\ conn < MaxConn /\ pc # "handle"
    /\ conn' = conn + 1
    /\ pc' = "top"
    /\ rcv_len' = 0 /\ process_len' = 0 /\ left_len' = 0 /\ total_len' = 0 /\ head_ptr' = 0
    /\ flight' = <<>> /\ sent' = <<>> /\ handled' = <<>>
    /\ UNCHANGED recv_buf
-----------------------------------------------------------------------------
(* The main task.                                                          *)

\* POFCS_CHANNEL_RUN: the handshake's messages have all been handled.
Run == Len(handled) >= Handshake

\* A complete message is left in the buffer.
Whole == left_len >= HeaderLen /\ left_len >= Length(process_len)

\* Mutant: the bytes are moved as soon as half of the buffer is used.
MutantMove == Run /\ 2 * rcv_len >= Size

\* The left bytes move to the head of a full buffer, in POFCS_CHANNEL_RUN.
Move == Run /\ rcv_len = Size
Moved(left) == IF Move
               THEN [i \in DOMAIN recv_buf |-> IF i < left THEN At(i + process_len) ELSE recv_buf[i]]
               ELSE recv_buf

\* Mutant: rcv_len is not set to the number of the bytes that were moved.
MutantStart(left) == rcv_len

\* Where the next bytes go, and where the message begins after the move.
Start(left) == IF Move THEN left ELSE rcv_len
Processed == IF Move THEN 0 ELSE process_len

\* A read of n cells behind the ones received; reads that end inside a
\* header only if SplitHeaders.
Readable(n) ==
    /\ n <= Len(flight)
    /\ ~SplitHeaders /\ n < Len(flight) => flight[n + 1].k \notin 2..HeaderLen
Filled(buf, start, n) ==
    [i \in DOMAIN buf |-> IF start <= i /\ i < start + n THEN flight[i - start + 1] ELSE buf[i]]

take ==
    /\ pc = "top" /\ Whole
    /\ pc' = "handle"
    /\ UNCHANGED <<recv_buf, lens, flight, sent, handled, conn>>

\* The first read of a message. Without room pofsc_recv fails and the task
\* starts again.
recv_first ==
    /\ pc = "top" /\ ~Whole
    /\ LET start == Start(left_len)
       IN  \E n \in 1..(Size - start) :
              /\ Readable(n)
              /\ recv_buf' = Filled(Moved(left_len), start, n)
              /\ flight' = SubSeq(flight, n + 1, Len(flight))
              /\ rcv_len' = start + n
              /\ total_len' = n + left_len
    /\ process_len' = Processed
    /\ head_ptr' = Processed
    /\ pc' = "loop"
    /\ UNCHANGED <<left_len, sent, handled, conn>>

\* Mutant: head_ptr is not where the loop reads the length, but the head of
\* the buffer.
MutantEnough == total_len >= Length(0)

\* The test of the inner loop.
Enough == total_len >= Length(head_ptr)

recv_done ==
    /\ pc = "loop" /\ Enough
    /\ pc' = "handle"
    /\ UNCHANGED <<recv_buf, lens, flight, sent, handled, conn>>

\* Mutant: left_len is not recomputed before the bytes are moved.
MutantLeft == left_len

\* The bytes of the message so far.
Left == IF Run THEN rcv_len - process_len ELSE left_len

\* The other reads. head_ptr stays where it was when the bytes are moved.
recv_more ==
    /\ pc = "loop" /\ ~Enough
    /\ LET left == Left
           start == Start(left)
       IN  /\ left_len' = left
           /\ process_len' = Processed
           /\ IF start = Size
              THEN /\ pc' = "handle"
                   /\ recv_buf' = Moved(left) /\ rcv_len' = start
                   /\ UNCHANGED <<flight, total_len>>
              ELSE \E n \in 1..(Size - start) :
                      /\ Readable(n)
                      /\ recv_buf' = Filled(Moved(left), start, n)
                      /\ flight' = SubSeq(flight, n + 1, Len(flight))
                      /\ rcv_len' = start + n
                      /\ total_len' = total_len + n
                      /\ UNCHANGED pc
    /\ UNCHANGED <<head_ptr, sent, handled, conn>>

\* What is in the buffer from process_len on: a message of the controller, if
\* its cells are all there.
InBuffer ==
    LET id == At(process_len).id
        n == Length(process_len)
        whole == {m \in ToSet(sent) : /\ m.id = id /\ m.len = n
                                      /\ \A k \in 1..n : At(process_len + k - 1).id = id
                                                         /\ At(process_len + k - 1).k = k}
    IN  IF process_len + n <= Size /\ whole # {} THEN CHOOSE m \in whole : TRUE ELSE Garbled

\* Mutant: process_len is not reset with rcv_len.
MutantReset == [rcv |-> 0, process |-> process_len]

Reset == [rcv |-> 0, process |-> 0]

\* The message is parsed, which converts its header in place (an ECHO_REPLY
\* and the HELLO are not), and counted as processed.
handle ==
    /\ pc = "handle"
    /\ handled' = Append(handled, InBuffer)
    /\ LET n == Length(process_len)
           p == process_len + n
           left == rcv_len - p
       IN  /\ left_len' = left
           /\ rcv_len' = IF left = 0 THEN Reset.rcv ELSE rcv_len
           /\ process_len' = IF left = 0 THEN Reset.process ELSE p
    /\ \/ UNCHANGED recv_buf
       \/ recv_buf' = [recv_buf EXCEPT ![(process_len + HeaderLen - 1) % Size].len = Converted]
    /\ pc' = "top"
    /\ UNCHANGED <<total_len, head_ptr, flight, sent, conn>>

Next == send \/ reconnect \/ take \/ recv_first \/ recv_done \/ recv_more \/ handle

Spec == Init /\ [][Next]_vars
-----------------------------------------------------------------------------
(* Properties.                                                             *)

TypeOK ==
    /\ pc \in {"top", "loop", "handle"}
    /\ recv_buf \in [0..(Size - 1) -> {Cell(Garbled, 0)} \cup
            [id : (1..MaxConn) \X (1..MaxSent), k : 1..Size, len : Lens \cup {Converted},
             payload : Payloads \cup {0}]]
    /\ rcv_len \in 0..Size /\ process_len \in 0..Size /\ head_ptr \in 0..Size
    /\ left_len \in 0..Size /\ total_len \in 0..(2 * Size)
    /\ sent \in Seq(Message) /\ handled \in Seq(Message \cup {Garbled})
    /\ conn \in 1..MaxConn

\* The main task: "it receive OpenFlow messages from the Controller and send
\* them to the other modules to handle" (pof_switch.c:219). What it handles
\* are the messages of the controller: each one whole, none twice, none left
\* out, in order, however the bytes were cut into reads.
HandlesMessages ==
    /\ Len(handled) <= Len(sent)
    /\ \A i \in 1..Len(handled) : handled[i] = sent[i]

\* The bytes are moved with memcpy: source and destination must not overlap.
\* The loop can copy the whole buffer onto itself, which changes no byte: when
\* head_ptr points to a length that was replaced (see NoNeedlessWait) it goes
\* on reading until the buffer is full.
CopyApart ==
    /\ pc = "top" /\ ~Whole /\ Move => left_len <= process_len
    /\ pc = "loop" /\ ~Enough /\ Move =>
          \/ Left <= process_len
          \/ process_len = 0 /\ head_ptr # 0

\* The loop does not ask for more bytes when the message it is reading has
\* arrived: it would hold the message back until the controller sends another.
\* The exception is real: when the loop has moved the bytes, head_ptr points
\* to where the message was, and bytes read since then may have replaced the
\* length there.
NoNeedlessWait ==
    pc = "loop" /\ ~Enough /\ head_ptr = process_len /\ Len(handled) < Len(sent) =>
        rcv_len - process_len < sent[Len(handled) + 1].len

\* There is always room for the first read of a message: pofsc_recv does not
\* fail again and again because the buffer is full.
AlwaysRoom == pc = "top" /\ ~Whole => Start(left_len) < Size

\* The buffer implements a stream of messages that is read once and in order.
Stream == INSTANCE MessageStream WITH Message <- Message, sent <- sent, handled <- handled
StreamSpec == Stream!Spec
=============================================================================
