------------------------------- MODULE Channel -------------------------------
(***************************************************************************)
(* The OpenFlow channel to the controller (switch_control/pof_switch.c,    *)
(* pof_encap.c): the main task that runs the connection's state machine,   *)
(* the send task that empties the message queue, the echo timer and the    *)
(* datapath tasks that fill it.  They share the connection description     *)
(* (state and sfd), the message buffer of pofec_reply_msg and the local    *)
(* resource without any lock, so every access to shared state is a step.   *)
(*                                                                         *)
(* Abstractions.  A message being made is the task that wrote it into the  *)
(* buffer; the queue is the number of its messages.  A read brings one     *)
(* message of the controller and perhaps the next one; how messages are    *)
(* cut into reads is the subject of RecvBuffer.  Several replies to one    *)
(* request are one reply.  The local resource is the connection whose      *)
(* controller filled it: none, the current or an older one.  Failures of   *)
(* the queue's system calls, and signals, are not modelled.  A variable    *)
(* that is assigned before it is read again has its initial value.         *)
(***************************************************************************)
EXTENDS Naturals, FiniteSets, FiniteSetsExt

CONSTANTS
    StdinTty,   \* descriptor 0 is a terminal: reads wait, writes succeed
    Producers,  \* which of "dp" and "echo" make messages
    MaxActive,  \* bound: producers that are making a message at once
    QueueMax,   \* capacity of the message queue
    MaxFd       \* descriptors 0..MaxFd; 0 is the standard input at start

ASSUME ChannelAssumption ==
    /\ StdinTty \in BOOLEAN
    /\ Producers \subseteq {"dp", "echo"}
    /\ MaxActive \in Nat /\ QueueMax \in Nat \ {0} /\ MaxFd \in Nat \ {0}

VARIABLES
    state,    \* conn_status.state
    sfd,      \* the connection's descriptor in pofsc_conn_desc
    fds,      \* what each descriptor number is
    rules,    \* whose rules are in the local resource
    queue,    \* number of messages in the queue
    msgbuf,   \* pofec_queue_msg_buf
    main,     \* main task: position, case of its switch, descriptor in use ...
    send,     \* send task: position, descriptor in use
    prod,     \* position of the datapath and of the echo timer
    shake,    \* history: handshake messages accepted on the current connection
    auto_clear \* FALSE when the switch was started with --man-clear

vars == <<state, sfd, fds, rules, queue, msgbuf, main, send, prod, shake, auto_clear>>

\* enum pofcs states, in their order.
INVALID            == 0
CONNECTING         == 1
CONNECTED          == 2
HELLO              == 3
REQUEST_FEATURE    == 4
SET_CONFIG         == 5
REQUEST_GET_CONFIG == 6
RUN                == 7
States == INVALID..RUN
Replying(s) == s >= REQUEST_FEATURE

Fds == 0..MaxFd
FdStates == {"closed", "tty", "null", "new", "up", "old", "down"}
Tags == {"none", "cur", "old"}

MainPcs == {"top", "socket", "fd", "sys", "rest", "check", "clear", "close", "fail",
            "lost", "lostclear", "zero", "store", "reply", "copy", "enq", "exit"}
SendPcs == {"top", "read", "send", "fail", "lost", "clear", "zero", "inv", "back"}
ProdPcs == {"idle", "copy", "enq"}

TypeOK ==
    /\ state \in States /\ sfd \in Fds
    /\ fds \in [Fds -> FdStates]
    /\ rules \in Tags
    /\ queue \in 0..QueueMax
    /\ msgbuf \in {"main", "dp"}
    /\ main \in [pc : MainPcs, case : States, fd : Fds, msg : Tags, buf : Tags,
                 next : States, then : MainPcs]
    /\ send \in [pc : SendPcs, fd : Fds]
    /\ prod \in [Producers -> ProdPcs]
    /\ shake \in 0..4
    /\ auto_clear \in BOOLEAN

\* The tasks at the head of their loops.
MainTop(buf) == [pc |-> "top", case |-> INVALID, fd |-> 0, msg |-> "none", buf |-> buf,
                 next |-> INVALID, then |-> "top"]
SendTop == [pc |-> "top", fd |-> 0]

Init ==
    /\ state = INVALID /\ sfd = 0
    /\ fds = [d \in Fds |-> IF d # 0 THEN "closed" ELSE IF StdinTty THEN "tty" ELSE "null"]
    /\ rules = "none" /\ queue = 0 /\ msgbuf = "main" /\ shake = 0
    /\ main = MainTop("none")
    /\ send = SendTop
    /\ prod = [p \in Producers |-> "idle"]
    /\ auto_clear \in BOOLEAN
-----------------------------------------------------------------------------
(* Descriptors, as the kernel treats them.                                 *)

Close(fd) == fds' = [fds EXCEPT ![fd] = "closed"]

\* A write to a connection that the controller has ended may still succeed.
WriteOK(fd)   == fds[fd] \in {"up", "old", "tty", "down"}
WriteFails(fd) == fds[fd] \notin {"up", "old", "tty"}
ReadOK(fd)    == fds[fd] \in {"up", "old"}
ReadFails(fd) == fds[fd] \notin {"up", "old", "tty"}

\* After a new connection everything of the last one is old.
Older(tag) == IF tag = "cur" THEN "old" ELSE tag
-----------------------------------------------------------------------------
(* The main task (pofsc_main_task).                                        *)

At(pc) == main.pc = pc
Keep(pc) == [main EXCEPT !.fd = IF pc \in {"clear", "rest", "fail"} THEN @ ELSE 0,
                         !.msg = IF pc \in {"clear", "rest", "check"} THEN @ ELSE "none"]
To(pc) == IF pc = "top" THEN MainTop(main.buf)
          ELSE [Keep(pc) EXCEPT !.pc = pc, !.next = INVALID, !.then = "top"]
Goto(pc) == main' = To(pc)
\* Assign the state s in a step of its own, then go on at pc.
Store(s, pc) == [Keep(pc) EXCEPT !.pc = "store", !.next = s, !.then = pc]

\* The head of the loop. A complete message in the buffer is taken without
\* a read; POFCS_HELLO forgets what is in the buffer.
main_switch ==
    LET buffered == Replying(state) /\ main.buf # "none"
    IN  /\ At("top")
        /\ main' = [main EXCEPT
             !.case = state,
             !.pc  = IF state = INVALID THEN "socket" ELSE IF buffered THEN "check" ELSE "fd",
             !.msg = IF buffered THEN main.buf ELSE "none",
             !.buf = IF buffered \/ state = HELLO THEN "none" ELSE @]
        /\ UNCHANGED <<state, sfd, fds, rules, queue, msgbuf, send, prod, shake>>

\* socket() takes the lowest free number; without one the switch exits.
create_socket ==
    /\ At("socket")
    /\ LET free == {d \in Fds : fds[d] = "closed"}
       IN  IF free = {}
           THEN Goto("exit") /\ UNCHANGED <<fds, sfd>>
           ELSE /\ fds' = [fds EXCEPT ![Min(free)] = "new"]
                /\ sfd' = Min(free)
                /\ main' = Store(CONNECTING, "top")
    /\ UNCHANGED <<state, rules, queue, msgbuf, send, prod, shake>>

\* conn_desc_ptr->sfd is evaluated for the system call that follows.
get_fd ==
    /\ At("fd")
    /\ main' = [main EXCEPT !.pc = "sys", !.fd = sfd]
    /\ UNCHANGED <<state, sfd, fds, rules, queue, msgbuf, send, prod, shake>>

connect ==
    /\ At("sys") /\ main.case = CONNECTING
    /\ \/ /\ fds[main.fd] = "new"
          /\ fds' = [d \in Fds |-> IF d = main.fd THEN "up"
                                   ELSE IF fds[d] = "up" THEN "old" ELSE fds[d]]
          /\ rules' = Older(rules)
          /\ main' = [Store(CONNECTED, "top") EXCEPT !.buf = Older(@)]
          /\ shake' = 0
       \/ Close(main.fd) /\ Goto("zero") /\ UNCHANGED <<rules, shake>>
    /\ UNCHANGED <<state, sfd, queue, msgbuf, send, prod>>

\* After the delay of a failed connection.
connect_failed ==
    /\ At("zero")
    /\ sfd' = 0
    /\ main' = Store(INVALID, "top")
    /\ UNCHANGED <<state, fds, rules, queue, msgbuf, send, prod, shake>>

send_hello ==
    /\ At("sys") /\ main.case = CONNECTED
    /\ \/ WriteOK(main.fd) /\ main' = Store(HELLO, "top")
       \/ WriteFails(main.fd) /\ Goto("fail")
    /\ UNCHANGED <<state, sfd, fds, rules, queue, msgbuf, send, prod, shake>>

\* The state advances as soon as something was read, before the message is
\* complete. The read may bring a second message.
recv ==
    /\ At("sys") /\ main.case >= HELLO
    /\ \/ /\ ReadOK(main.fd)
          /\ LET tag == IF fds[main.fd] = "up" THEN "cur" ELSE "old"
                 got == CASE main.case = HELLO -> To("clear")
                          [] main.case = RUN -> To("rest")
                          [] OTHER -> Store(main.case + 1, "rest")
             IN  \E more \in {"none", tag} :
                    main' = [got EXCEPT !.msg = tag, !.buf = more]
       \/ ReadFails(main.fd) /\ Goto("fail")
    /\ UNCHANGED <<state, sfd, fds, rules, queue, msgbuf, send, prod, shake>>

\* Mutant: the local resource is not cleared at the HELLO.
MutantHelloClear ==
    /\ At("clear")
    /\ main' = Store(REQUEST_FEATURE, "rest")
    /\ UNCHANGED <<state, sfd, fds, rules, queue, msgbuf, send, prod, shake>>

\* poflr_clear_resource of every slot, when the HELLO has arrived.
hello_clear ==
    /\ At("clear")
    /\ rules' = "none"
    /\ main' = Store(REQUEST_FEATURE, "rest")
    /\ UNCHANGED <<state, sfd, fds, queue, msgbuf, send, prod, shake>>

\* Read the rest of the message.
recv_rest ==
    /\ At("rest")
    /\ Goto("check") \/ (ReadFails(main.fd) /\ Goto("fail"))
    /\ UNCHANGED <<state, sfd, fds, rules, queue, msgbuf, send, prod, shake>>

\* The complete message is checked and, unless the connection was declared
\* lost meanwhile, parsed. A wrong version or type ends the connection; in
\* POFCS_CHANNEL_RUN no type is wrong.
check_lost ==
    /\ At("check") /\ state = INVALID
    /\ Goto("top")
    /\ UNCHANGED <<state, sfd, fds, rules, queue, msgbuf, send, prod, shake>>

check_refused ==
    /\ At("check") /\ state # INVALID /\ main.case < RUN
    /\ Goto("close")
    /\ UNCHANGED <<state, sfd, fds, rules, queue, msgbuf, send, prod, shake>>

\* Mutant: the channel runs after SET_CONFIG.
MutantCheckHandshake ==
    /\ At("check") /\ state # INVALID /\ main.case < RUN
    /\ main' = CASE main.case = HELLO -> To("top")
                 [] main.case = REQUEST_FEATURE -> Store(SET_CONFIG, "reply")
                 [] main.case = SET_CONFIG -> Store(RUN, "top")
                 [] OTHER -> To("reply")
    /\ shake' = IF main.msg = "cur" THEN main.case - HELLO + 1 ELSE shake
    /\ UNCHANGED <<state, sfd, fds, rules, queue, msgbuf, send, prod>>

check_handshake ==
    /\ At("check") /\ state # INVALID /\ main.case < RUN
    /\ main' = CASE main.case = HELLO -> To("top")
                 [] main.case = REQUEST_FEATURE -> Store(SET_CONFIG, "reply")
                 [] main.case = SET_CONFIG -> Store(REQUEST_GET_CONFIG, "top")
                 [] OTHER -> To("reply")
    /\ shake' = IF main.msg = "cur" THEN main.case - HELLO + 1 ELSE shake
    /\ UNCHANGED <<state, sfd, fds, rules, queue, msgbuf, send, prod>>

\* pofsc_run_process: an ECHO_REPLY, or a message that may change the local
\* resource and may be answered.
run_process ==
    /\ At("check") /\ state # INVALID /\ main.case = RUN
    /\ rules' \in {rules, main.msg}
    /\ Goto("top") \/ Goto("reply")
    /\ UNCHANGED <<state, sfd, fds, queue, msgbuf, send, prod, shake>>

refuse_close ==
    /\ At("close")
    /\ Close(sfd)
    /\ main' = Store(INVALID, "top")
    /\ UNCHANGED <<state, sfd, rules, queue, msgbuf, send, prod, shake>>

main_store ==
    /\ At("store")
    /\ state' = main.next
    /\ Goto(main.then)
    /\ UNCHANGED <<sfd, fds, rules, queue, msgbuf, send, prod, shake>>

\* pofsc_recv and pofsc_send close the descriptor of a failed system call;
\* pofsc_performance_after_ctrl_disconn resets the state and clears the
\* local resource of every slot.
main_fail ==
    /\ At("fail")
    /\ Close(main.fd)
    /\ Goto("lost")
    /\ UNCHANGED <<state, sfd, rules, queue, msgbuf, send, prod, shake>>

\* Mutant: a lost connection leaves the state as it is.
MutantMainLost ==
    /\ At("lost")
    /\ Goto(IF auto_clear THEN "lostclear" ELSE "top")
    /\ UNCHANGED <<state, sfd, fds, rules, queue, msgbuf, send, prod, shake>>

main_lost ==
    /\ At("lost")
    /\ state' = INVALID
    /\ Goto(IF auto_clear THEN "lostclear" ELSE "top")
    /\ UNCHANGED <<sfd, fds, rules, queue, msgbuf, send, prod, shake>>

main_lost_clear ==
    /\ At("lostclear")
    /\ rules' = "none"
    /\ Goto("top")
    /\ UNCHANGED <<state, sfd, fds, queue, msgbuf, send, prod, shake>>

\* After the reply to GET_CONFIG_REQUEST the task sleeps a second and then
\* declares the channel running.
Replied == IF main.case = REQUEST_GET_CONFIG THEN Store(RUN, "top")
                                             ELSE To("top")

\* pofec_reply_msg builds the message in the static buffer ...
main_reply ==
    /\ At("reply")
    /\ IF Replying(state) THEN msgbuf' = "main" /\ Goto("copy")
                          ELSE main' = Replied /\ UNCHANGED msgbuf
    /\ UNCHANGED <<state, sfd, fds, rules, queue, send, prod, shake>>

\* ... and pofbf_queue_write copies it and waits for room in the queue.
\* Nobody reads the buffer again unless another task is about to copy it.
Copied(others) == msgbuf' = IF "copy" \in others THEN msgbuf ELSE "main"
main_copy ==
    /\ At("copy")
    /\ main' = [main EXCEPT !.pc = "enq"]
    /\ Copied({prod[p] : p \in Producers})
    /\ UNCHANGED <<state, sfd, fds, rules, queue, send, prod, shake>>

\* Mutant: the writer does not wait for room.
MutantEnqueue ==
    /\ At("enq")
    /\ queue' = queue + 1
    /\ main' = Replied
    /\ UNCHANGED <<state, sfd, fds, rules, msgbuf, send, prod, shake>>

main_enqueue ==
    /\ At("enq") /\ queue < QueueMax
    /\ queue' = queue + 1
    /\ main' = Replied
    /\ UNCHANGED <<state, sfd, fds, rules, msgbuf, send, prod, shake>>

pofsc_main_task ==
    \/ main_switch \/ create_socket \/ get_fd \/ connect \/ connect_failed
    \/ send_hello \/ recv \/ hello_clear \/ recv_rest
    \/ check_lost \/ check_refused \/ check_handshake \/ run_process \/ refuse_close
    \/ main_store \/ main_fail \/ main_lost \/ main_lost_clear
    \/ main_reply \/ main_copy \/ main_enqueue
-----------------------------------------------------------------------------
(* The send task (pofsc_send_msg_task).                                    *)

SendAt(pc) == send.pc = pc
SendGoto(pc) == send' = IF pc = "top" THEN SendTop ELSE [send EXCEPT !.pc = pc]

send_switch ==
    /\ SendAt("top") /\ Replying(state)
    /\ SendGoto("read")
    /\ UNCHANGED <<state, sfd, fds, rules, queue, msgbuf, main, prod, shake>>

send_read ==
    /\ SendAt("read") /\ queue > 0
    /\ queue' = queue - 1
    /\ SendGoto("send")
    /\ UNCHANGED <<state, sfd, fds, rules, msgbuf, main, prod, shake>>

send_write ==
    /\ SendAt("send")
    /\ \/ WriteOK(sfd) /\ SendGoto("top")
       \/ WriteFails(sfd) /\ send' = [send EXCEPT !.pc = "fail", !.fd = sfd]
    /\ UNCHANGED <<state, sfd, fds, rules, queue, msgbuf, main, prod, shake>>

send_fail ==
    /\ SendAt("fail")
    /\ Close(send.fd)
    /\ SendGoto("lost")
    /\ UNCHANGED <<state, sfd, rules, queue, msgbuf, main, prod, shake>>

send_lost ==
    /\ SendAt("lost")
    /\ state' = INVALID
    /\ SendGoto(IF auto_clear THEN "clear" ELSE "zero")
    /\ UNCHANGED <<sfd, fds, rules, queue, msgbuf, main, prod, shake>>

send_lost_clear ==
    /\ SendAt("clear")
    /\ rules' = "none"
    /\ SendGoto("zero")
    /\ UNCHANGED <<state, sfd, fds, queue, msgbuf, main, prod, shake>>

send_zero ==
    /\ SendAt("zero")
    /\ sfd' = 0
    /\ SendGoto("inv")
    /\ UNCHANGED <<state, fds, rules, queue, msgbuf, main, prod, shake>>

send_invalid ==
    /\ SendAt("inv")
    /\ state' = INVALID
    /\ SendGoto("back")
    /\ UNCHANGED <<sfd, fds, rules, queue, msgbuf, main, prod, shake>>

\* The message goes back to the end of the queue, which may be full.
send_back ==
    /\ SendAt("back") /\ queue < QueueMax
    /\ queue' = queue + 1
    /\ SendGoto("top")
    /\ UNCHANGED <<state, sfd, fds, rules, msgbuf, main, prod, shake>>

pofsc_send_msg_task ==
    \/ send_switch \/ send_read \/ send_write \/ send_fail \/ send_lost
    \/ send_lost_clear \/ send_zero \/ send_invalid \/ send_back
-----------------------------------------------------------------------------
(* The makers of messages: a datapath task sends a PACKET_IN through       *)
(* pofec_reply_msg, the echo timer an ECHO_REQUEST from its own stack.     *)

MayStart(p) ==
    /\ p \in Producers /\ prod[p] = "idle"
    /\ Cardinality({q \in Producers : prod[q] # "idle"}) < MaxActive

packet_in ==
    /\ MayStart("dp") /\ Replying(state)
    /\ msgbuf' = "dp"
    /\ prod' = [prod EXCEPT !["dp"] = "copy"]
    /\ UNCHANGED <<state, sfd, fds, rules, queue, main, send, shake>>

packet_in_copy ==
    /\ "dp" \in Producers /\ prod["dp"] = "copy"
    /\ prod' = [prod EXCEPT !["dp"] = "enq"]
    /\ Copied({main.pc})
    /\ UNCHANGED <<state, sfd, fds, rules, queue, main, send, shake>>

echo_timer ==
    /\ MayStart("echo") /\ state = RUN
    /\ prod' = [prod EXCEPT !["echo"] = "enq"]
    /\ UNCHANGED <<state, sfd, fds, rules, queue, msgbuf, main, send, shake>>

enqueue(p) ==
    /\ prod[p] = "enq" /\ queue < QueueMax
    /\ queue' = queue + 1
    /\ prod' = [prod EXCEPT ![p] = "idle"]
    /\ UNCHANGED <<state, sfd, fds, rules, msgbuf, main, send, shake>>

\* The controller, or the network, ends a connection.
peer_close ==
    /\ \E d \in Fds : ReadOK(d) /\ fds' = [fds EXCEPT ![d] = "down"]
    /\ UNCHANGED <<state, sfd, rules, queue, msgbuf, main, send, prod, shake>>

\* exit() ends every task; the option --man-clear does not change.
Running == ~At("exit") /\ UNCHANGED auto_clear

Next ==
    /\ Running
    /\ \/ pofsc_main_task \/ pofsc_send_msg_task
       \/ packet_in \/ packet_in_copy \/ echo_timer \/ (\E p \in Producers : enqueue(p))
       \/ peer_close

\* The operating system schedules every thread; messages arrive and packets
\* are received only if somebody sends them.
Spec ==
    /\ Init /\ [][Next]_vars
    /\ WF_vars(Running /\ pofsc_main_task)
    /\ WF_vars(Running /\ pofsc_send_msg_task)
-----------------------------------------------------------------------------
(* Properties.                                                             *)

\* Once the HELLO of a connection has arrived, the local resource holds no
\* rule that came over an earlier connection (NEWS:357: "switch still clears
\* the resource when reconnection is successful"). The exception is real: a
\* send task that is late with the failure of an earlier connection sets sfd
\* to 0, and descriptor 0 may by then be an older connection that the main
\* task takes rules from.
NoStaleRules ==
    Replying(main.case) /\ ~(At("top") \/ At("socket")) => rules # "old" \/ sfd = 0

\* A rule is installed only by a controller that has gone through the whole
\* handshake on the same connection.
RulesAfterHandshake == rules = "cur" => shake = 4

Live == ReadOK(sfd)
Connecting == At("sys") /\ main.case = CONNECTING

\* README:396: "POFSwitch keeps trying to reconnect to POFController [...]
\* until the connection is successful or shut down the POFSwitch."
Reconnects == []<>(Connecting \/ Live \/ At("exit"))

\* The same, as long as the message queue does not stay full.
ReconnectsWithRoom == <>[](queue < QueueMax) => Reconnects

\* pofec_reply_msg: "This function encapsulats the message, which the soft
\* switch want to send to the Controller" (pof_encap.c:100). The message that
\* a task copies from the buffer to the queue is the one it has built.
OwnMessage ==
    /\ At("copy") => msgbuf = "main"
    /\ \A p \in Producers : prod[p] = "copy" => msgbuf = p
=============================================================================
