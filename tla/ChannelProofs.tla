---------------------------- MODULE ChannelProofs ----------------------------
(***************************************************************************)
(* Proofs about the channel, for every number of descriptors, every        *)
(* capacity of the queue and any of the two producers.  The send task may  *)
(* reset the state and the descriptor at every moment, so the invariant    *)
(* says what the main task may rely on at each of its positions all the    *)
(* same.                                                                   *)
(***************************************************************************)
EXTENDS Channel, SeqLemmas

\* The state that the main task is about to assign, if any, is main.next; a
\* read or a check of a message is under way at these positions.
Reading == At("clear") \/ At("rest") \/ At("check") \/ (At("store") /\ main.then = "rest")
Answering == At("reply") \/ At("copy") \/ At("enq")

\* Which case of the switch the main task is in at its positions.
ControlInv ==
    /\ At("top") \/ At("socket") => main.case = INVALID
    /\ At("fd") \/ At("sys") => main.case # INVALID
    /\ At("zero") => main.case = CONNECTING
    /\ At("clear") => main.case = HELLO
    /\ Reading \/ At("close") => main.case >= HELLO
    /\ Answering => main.case \in {REQUEST_FEATURE, REQUEST_GET_CONFIG, RUN}
    /\ ~At("store") => main.next = INVALID
    /\ At("store") => main.then \in {"top", "rest", "reply"}
    /\ At("store") /\ main.next # INVALID => main.next = main.case + 1
    /\ At("store") /\ main.next = INVALID => main.then = "top"
    /\ At("store") /\ main.then = "reply" => main.case = REQUEST_FEATURE
    /\ main.msg # "none" <=> Reading

\* The state is the one the main task believes in, or has been reset by the
\* send task.
StateInv ==
    /\ ~At("top") => state \in {INVALID, main.case, main.case + 1}
    /\ At("fd") \/ At("sys") \/ At("zero") \/ At("clear") => state \in {INVALID, main.case}
    /\ At("socket") \/ At("lostclear") => state = INVALID
    /\ At("store") /\ main.case < HELLO => state \in {INVALID, main.case}

\* The descriptor in use is the connection's, unless sfd was set to 0
\* meanwhile; only descriptor 0 can lead to an older connection.
FdInv ==
    /\ fds[sfd] = "old" => sfd = 0
    /\ At("sys") => sfd \in {main.fd, 0} /\ (fds[main.fd] = "old" => main.fd = 0)
    /\ main.case >= CONNECTED \/ state >= CONNECTED \/ main.next >= CONNECTED =>
          \A d \in Fds : fds[d] = "up" => d = sfd \/ sfd = 0

\* Something of the current connection can still be read, or has been.
Current ==
    \/ fds[sfd] = "up" \/ main.buf = "cur" \/ main.msg = "cur"
    \/ At("sys") /\ fds[main.fd] = "up"

\* After something of an older connection nothing of the current one is read.
OldInv ==
    /\ main.msg = "old" => sfd = 0 /\ fds[sfd] # "up" /\ main.buf # "cur"
    /\ main.buf = "old" /\ (main.case >= HELLO \/ Replying(state) \/ Replying(main.next)) =>
          sfd = 0 /\ fds[sfd] # "up"

\* The state is never ahead of the handshake of the current connection.
Ahead(s) == s > shake + HELLO
ShakeInv ==
    Current =>
      /\ At("top") => ~Ahead(state)
      /\ At("fd") \/ At("sys") \/ Reading => ~Ahead(main.case)
      /\ At("store") /\ main.then # "rest" => ~Ahead(main.next)
      /\ Answering => ~Ahead(IF main.case = RUN THEN RUN ELSE main.case + 1)

\* Rules are of the current connection only when the handshake is over, and
\* of an older one only until it begins, but for descriptor 0.
Settled(s) == s \in {INVALID, CONNECTING, RUN}
RulesInv ==
    /\ rules = "cur" => shake = 4 /\ Settled(main.case) /\ Settled(state) /\ Settled(main.next)
    /\ Replying(main.case) \/ Replying(state) \/ Replying(main.next) => rules # "old" \/ sfd = 0

IInv == TypeOK /\ ControlInv /\ StateInv /\ FdInv /\ OldInv /\ ShakeInv /\ RulesInv
-----------------------------------------------------------------------------
(* The initial states.                                                     *)

\* The invariant holds when the tasks start.
LEMMA InitOK == Init => IInv
BY ChannelAssumption DEF Init, IInv, TypeOK, ControlInv, StateInv, FdInv, OldInv, ShakeInv,
   RulesInv, Current, Ahead, Settled, Reading, Answering, At, MainTop, SendTop, Fds, FdStates,
   Tags, MainPcs, SendPcs, ProdPcs, States, Replying, INVALID, CONNECTING, CONNECTED, HELLO,
   REQUEST_FEATURE, SET_CONFIG, REQUEST_GET_CONFIG, RUN
-----------------------------------------------------------------------------
(* The main task.                                                          *)

MainType == [pc : MainPcs, case : States, fd : Fds, msg : Tags, buf : Tags,
             next : States, then : MainPcs]

\* What Goto and Store leave of the main task's variables.
LEMMA KeepFields ==
    ASSUME TypeOK, NEW pc \in MainPcs
    PROVE  /\ Keep(pc) \in MainType
           /\ Keep(pc).case = main.case
           /\ Keep(pc).fd = IF pc \in {"clear", "rest", "fail"} THEN main.fd ELSE 0
           /\ Keep(pc).msg = IF pc \in {"clear", "rest", "check"} THEN main.msg ELSE "none"
           /\ Keep(pc).buf = main.buf
<1> DEFINE f == IF pc \in {"clear", "rest", "fail"} THEN main.fd ELSE 0
           m == IF pc \in {"clear", "rest", "check"} THEN main.msg ELSE "none"
<1>1. f \in Fds /\ m \in Tags
  BY ChannelAssumption DEF TypeOK, Fds, Tags
<1>2. Keep(pc) = [main EXCEPT !.fd = f, !.msg = m]
  BY DEF Keep, TypeOK
<1> HIDE DEF f, m
<1>3. /\ Keep(pc) \in MainType /\ Keep(pc).case = main.case
      /\ Keep(pc).fd = f /\ Keep(pc).msg = m /\ Keep(pc).buf = main.buf
  BY <1>1, <1>2 DEF TypeOK, MainType
<1> QED BY <1>3 DEF f, m

\* Goto: a jump to another position.
LEMMA ToFields ==
    ASSUME TypeOK, NEW pc \in MainPcs
    PROVE  /\ To(pc) \in MainType
           /\ To(pc).pc = pc
           /\ To(pc).case = IF pc = "top" THEN INVALID ELSE main.case
           /\ To(pc).fd = IF pc \in {"clear", "rest", "fail"} THEN main.fd ELSE 0
           /\ To(pc).msg = IF pc \in {"clear", "rest", "check"} THEN main.msg ELSE "none"
           /\ To(pc).buf = main.buf
           /\ To(pc).next = INVALID
<1>1. CASE pc = "top"
  BY <1>1, ChannelAssumption
  DEF TypeOK, To, MainTop, MainType, Fds, Tags, States, INVALID, RUN, MainPcs
<1>2. CASE pc # "top"
  <2>1. To(pc) = [Keep(pc) EXCEPT !.pc = pc, !.next = INVALID, !.then = "top"]
    BY <1>2 DEF To
  <2>2. INVALID \in States /\ "top" \in MainPcs
    BY DEF INVALID, RUN, States, MainPcs
  <2>3. Keep(pc) \in MainType
    BY KeepFields
  <2>4. /\ To(pc) \in MainType /\ To(pc).pc = pc /\ To(pc).next = INVALID
        /\ To(pc).case = Keep(pc).case /\ To(pc).fd = Keep(pc).fd
        /\ To(pc).msg = Keep(pc).msg /\ To(pc).buf = Keep(pc).buf
    BY <2>1, <2>2, <2>3 DEF MainType
  <2> QED
    BY <1>2, <2>4, KeepFields
<1> QED BY <1>1, <1>2

\* Store: a jump to the assignment of the state.
LEMMA StoreFields ==
    ASSUME TypeOK, NEW s \in States, NEW pc \in {"top", "rest", "reply"}
    PROVE  /\ Store(s, pc) \in MainType
           /\ Store(s, pc).pc = "store"
           /\ Store(s, pc).case = main.case
           /\ Store(s, pc).msg = IF pc = "rest" THEN main.msg ELSE "none"
           /\ Store(s, pc).buf = main.buf
           /\ Store(s, pc).next = s
           /\ Store(s, pc).then = pc
<1>1. pc \in MainPcs /\ "store" \in MainPcs
  BY DEF MainPcs
<1>2. Keep(pc).msg = IF pc = "rest" THEN main.msg ELSE "none"
  BY <1>1, KeepFields
<1>3. Store(s, pc) = [Keep(pc) EXCEPT !.pc = "store", !.next = s, !.then = pc]
  BY DEF Store
<1>4. /\ Store(s, pc) \in MainType /\ Store(s, pc).pc = "store"
      /\ Store(s, pc).next = s /\ Store(s, pc).then = pc
      /\ Store(s, pc).case = Keep(pc).case /\ Store(s, pc).msg = Keep(pc).msg
      /\ Store(s, pc).buf = Keep(pc).buf
  BY <1>1, <1>3, KeepFields DEF MainType
<1> QED
  BY <1>1, <1>2, <1>4, KeepFields

\* Every step of pofsc_main_task keeps the invariant.
LEMMA MainOK ==
    ASSUME IInv, Running, pofsc_main_task
    PROVE  IInv'
<1> USE DEF At, States, Replying, INVALID, CONNECTING, CONNECTED, HELLO,
        REQUEST_FEATURE, SET_CONFIG, REQUEST_GET_CONFIG, RUN, Settled, Ahead, Reading, Answering
<1>0. TypeOK /\ main \in MainType /\ auto_clear' = auto_clear
  BY DEF IInv, TypeOK, MainType, Running
<1>t. ASSUME main' \in MainType, state' \in States, sfd' \in Fds, fds' \in [Fds -> FdStates],
             rules' \in Tags, queue' \in 0..QueueMax, msgbuf' \in {"main", "dp"},
             shake' \in 0..4, send' = send, prod' = prod
      PROVE  TypeOK'
  BY <1>0, <1>t DEF TypeOK, MainType
<1>1. CASE main_switch
  <2>0. main' \in MainType
    <3>1. main.buf \in Tags /\ state \in States /\ "none" \in Tags
      BY <1>0 DEF TypeOK, MainType, Tags
    <3> QED BY <1>1, <1>0, <3>1 DEF main_switch, MainType, MainPcs
  <2>1. TypeOK'
    BY <1>1, <1>t, <2>0, <1>0, ChannelAssumption DEF main_switch, IInv, TypeOK, ControlInv,
       Tags, Fds, FdStates
  <2>2. ControlInv'
    BY <1>1, <1>0, <2>1 DEF main_switch, IInv, ControlInv, TypeOK, MainType, MainPcs,
       Current, ControlInv, StateInv
  <2>3. StateInv'
    BY <1>1, <1>0, <2>1 DEF main_switch, IInv, StateInv, TypeOK, MainType, MainPcs,
       Current, ControlInv, StateInv
  <2>4. FdInv'
    BY <1>1, <1>0, <2>1 DEF main_switch, IInv, FdInv, TypeOK, MainType, MainPcs, Current,
       ControlInv, StateInv
  <2>5. OldInv'
    BY <1>1, <1>0, <2>1 DEF main_switch, IInv, OldInv, TypeOK, MainType, MainPcs, Current,
       ControlInv, StateInv
  <2>6. ShakeInv'
    BY <1>1, <1>0, <2>1 DEF main_switch, IInv, ShakeInv, TypeOK, MainType, MainPcs,
       Current, ControlInv, StateInv
  <2>7. RulesInv'
    BY <1>1, <1>0, <2>1 DEF main_switch, IInv, RulesInv, TypeOK, MainType, MainPcs,
       Current, ControlInv, StateInv
  <2> QED BY <2>1, <2>2, <2>3, <2>4, <2>5, <2>6, <2>7 DEF IInv
<1>2. CASE create_socket
  <2> DEFINE free == {d \in Fds : fds[d] = "closed"}
  <2>00. ASSUME free # {} PROVE Min(free) \in Fds
    <3>1. \E x \in free : \A y \in free : x <= y
      <4>1. free \subseteq Nat
        BY ChannelAssumption DEF Fds
      <4> HIDE DEF free
      <4> QED BY <2>00, <4>1, LeastNat
    <3>2. Min(free) \in free
      BY <3>1 DEF Min
    <3> QED BY <3>2
  <2>01. sfd' \in Fds /\ fds' \in [Fds -> FdStates]
    <3>1. CASE free = {}
      BY <1>2, <1>0, <3>1 DEF create_socket, TypeOK
    <3>2. CASE free # {}
      <4>1. fds' = [fds EXCEPT ![Min(free)] = "new"] /\ sfd' = Min(free)
        BY <1>2, <3>2 DEF create_socket
      <4> QED BY <1>0, <2>00, <3>2, <4>1 DEF TypeOK, FdStates
    <3> QED BY <3>1, <3>2
  <2>0. main' \in MainType
    BY <1>2, <1>0, ToFields, StoreFields DEF create_socket, Goto, MainPcs
  <2>1. TypeOK'
    BY <1>2, <1>t, <2>0, <2>01, <1>0 DEF create_socket, TypeOK
  <2>2. ControlInv'
    BY <1>2, <1>0, <2>1, ToFields, StoreFields DEF create_socket, IInv, ControlInv, TypeOK,
       MainType, MainPcs, Goto, Current, ControlInv, StateInv
  <2>3. StateInv'
    BY <1>2, <1>0, <2>1, ToFields, StoreFields DEF create_socket, IInv, StateInv, TypeOK,
       MainType, MainPcs, Goto, Current, ControlInv, StateInv
  <2>4. FdInv'
    BY <1>2, <1>0, <2>1, ToFields, StoreFields DEF create_socket, IInv, FdInv, TypeOK,
       MainType, MainPcs, Goto, Current, ControlInv, StateInv
  <2>5. OldInv'
    BY <1>2, <1>0, <2>1, ToFields, StoreFields DEF create_socket, IInv, OldInv, TypeOK,
       MainType, MainPcs, Goto, Current, ControlInv, StateInv
  <2>6. ShakeInv'
    BY <1>2, <1>0, <2>1, ToFields, StoreFields DEF create_socket, IInv, ShakeInv, TypeOK,
       MainType, MainPcs, Goto, Current, ControlInv, StateInv
  <2>7. RulesInv'
    BY <1>2, <1>0, <2>1, ToFields, StoreFields DEF create_socket, IInv, RulesInv, TypeOK,
       MainType, MainPcs, Goto, Current, ControlInv, StateInv
  <2> QED BY <2>1, <2>2, <2>3, <2>4, <2>5, <2>6, <2>7 DEF IInv
<1>3. CASE get_fd
  <2>0. main' \in MainType
    BY <1>3, <1>0 DEF get_fd, MainType, MainPcs, TypeOK
  <2>1. TypeOK'
    BY <1>3, <1>t, <2>0, <1>0, ChannelAssumption DEF get_fd, IInv, TypeOK, ControlInv,
       Tags, Fds, FdStates
  <2>2. ControlInv'
    BY <1>3, <1>0, <2>1 DEF get_fd, IInv, ControlInv, TypeOK, MainType, MainPcs, Current,
       ControlInv, StateInv
  <2>3. StateInv'
    BY <1>3, <1>0, <2>1 DEF get_fd, IInv, StateInv, TypeOK, MainType, MainPcs, Current,
       ControlInv, StateInv
  <2>4. FdInv'
    BY <1>3, <1>0, <2>1 DEF get_fd, IInv, FdInv, TypeOK, MainType, MainPcs, Current,
       ControlInv, StateInv
  <2>5. OldInv'
    BY <1>3, <1>0, <2>1 DEF get_fd, IInv, OldInv, TypeOK, MainType, MainPcs, Current,
       ControlInv, StateInv
  <2>6. ShakeInv'
    BY <1>3, <1>0, <2>1 DEF get_fd, IInv, ShakeInv, TypeOK, MainType, MainPcs, Current,
       ControlInv, StateInv
  <2>7. RulesInv'
    BY <1>3, <1>0, <2>1 DEF get_fd, IInv, RulesInv, TypeOK, MainType, MainPcs, Current,
       ControlInv, StateInv
  <2> QED BY <2>1, <2>2, <2>3, <2>4, <2>5, <2>6, <2>7 DEF IInv
<1>4. CASE connect
  <2>0. main' \in MainType
    <3>1. Store(CONNECTED, "top") \in MainType /\ To("zero") \in MainType
      BY <1>0, ToFields, StoreFields DEF MainPcs
    <3>2. Older(Store(CONNECTED, "top").buf) \in Tags
      BY <3>1 DEF MainType, Older, Tags
    <3> QED BY <1>4, <3>1, <3>2 DEF connect, Goto, MainType
  <2>1. TypeOK'
    BY <1>4, <1>t, <2>0, <1>0, ChannelAssumption DEF connect, IInv, TypeOK, ControlInv,
       Tags, Fds, FdStates, Close, Older
  <2>2. ControlInv'
    BY <1>4, <1>0, <2>1, ToFields, StoreFields DEF connect, IInv, ControlInv, TypeOK,
       MainType, MainPcs, Goto, Older, Close, Current, ControlInv, StateInv
  <2>3. StateInv'
    BY <1>4, <1>0, <2>1, ToFields, StoreFields DEF connect, IInv, StateInv, TypeOK,
       MainType, MainPcs, Goto, Older, Close, Current, ControlInv, StateInv
  <2>4. FdInv'
    BY <1>4, <1>0, <2>1, ToFields, StoreFields DEF connect, IInv, FdInv, TypeOK, MainType,
       MainPcs, Goto, Older, Close, Current, ControlInv, StateInv
  <2>5. OldInv'
    BY <1>4, <1>0, <2>1, ToFields, StoreFields DEF connect, IInv, OldInv, TypeOK, MainType,
       MainPcs, Goto, Older, Close, Current, ControlInv, StateInv
  <2>6. ShakeInv'
    BY <1>4, <1>0, <2>1, ToFields, StoreFields DEF connect, IInv, ShakeInv, TypeOK,
       MainType, MainPcs, Goto, Older, Close, Current, ControlInv, StateInv
  <2>7. RulesInv'
    BY <1>4, <1>0, <2>1, ToFields, StoreFields DEF connect, IInv, RulesInv, TypeOK,
       MainType, MainPcs, Goto, Older, Close, Current, ControlInv, StateInv
  <2> QED BY <2>1, <2>2, <2>3, <2>4, <2>5, <2>6, <2>7 DEF IInv
<1>5. CASE connect_failed
  <2>0. main' \in MainType
    BY <1>5, <1>0, StoreFields DEF connect_failed, MainPcs
  <2>1. TypeOK'
    BY <1>5, <1>t, <2>0, <1>0, ChannelAssumption DEF connect_failed, IInv, TypeOK,
       ControlInv, Tags, Fds, FdStates
  <2>2. ControlInv'
    BY <1>5, <1>0, <2>1, StoreFields DEF connect_failed, IInv, ControlInv, TypeOK,
       MainType, Current, ControlInv, StateInv
  <2>3. StateInv'
    BY <1>5, <1>0, <2>1, StoreFields DEF connect_failed, IInv, StateInv, TypeOK, MainType,
       Current, ControlInv, StateInv
  <2>4. FdInv'
    BY <1>5, <1>0, <2>1, StoreFields DEF connect_failed, IInv, FdInv, TypeOK, MainType,
       Current, ControlInv, StateInv
  <2>5. OldInv'
    BY <1>5, <1>0, <2>1, StoreFields DEF connect_failed, IInv, OldInv, TypeOK, MainType,
       Current, ControlInv, StateInv
  <2>6. ShakeInv'
    BY <1>5, <1>0, <2>1, StoreFields DEF connect_failed, IInv, ShakeInv, TypeOK, MainType,
       Current, ControlInv, StateInv
  <2>7. RulesInv'
    BY <1>5, <1>0, <2>1, StoreFields DEF connect_failed, IInv, RulesInv, TypeOK, MainType,
       Current, ControlInv, StateInv
  <2> QED BY <2>1, <2>2, <2>3, <2>4, <2>5, <2>6, <2>7 DEF IInv
<1>6. CASE send_hello
  <2>0. main' \in MainType
    BY <1>6, <1>0, ToFields, StoreFields DEF send_hello, Goto, MainPcs
  <2>1. TypeOK'
    BY <1>6, <1>t, <2>0, <1>0, ChannelAssumption DEF send_hello, IInv, TypeOK, ControlInv,
       Tags, Fds, FdStates
  <2>2. ControlInv'
    BY <1>6, <1>0, <2>1, ToFields, StoreFields DEF send_hello, IInv, ControlInv, TypeOK,
       MainType, MainPcs, Goto, Current, ControlInv, StateInv
  <2>3. StateInv'
    BY <1>6, <1>0, <2>1, ToFields, StoreFields DEF send_hello, IInv, StateInv, TypeOK,
       MainType, MainPcs, Goto, Current, ControlInv, StateInv
  <2>4. FdInv'
    BY <1>6, <1>0, <2>1, ToFields, StoreFields DEF send_hello, IInv, FdInv, TypeOK,
       MainType, MainPcs, Goto, Current, ControlInv, StateInv
  <2>5. OldInv'
    BY <1>6, <1>0, <2>1, ToFields, StoreFields DEF send_hello, IInv, OldInv, TypeOK,
       MainType, MainPcs, Goto, Current, ControlInv, StateInv
  <2>6. ShakeInv'
    BY <1>6, <1>0, <2>1, ToFields, StoreFields DEF send_hello, IInv, ShakeInv, TypeOK,
       MainType, MainPcs, Goto, Current, ControlInv, StateInv
  <2>7. RulesInv'
    BY <1>6, <1>0, <2>1, ToFields, StoreFields DEF send_hello, IInv, RulesInv, TypeOK,
       MainType, MainPcs, Goto, Current, ControlInv, StateInv
  <2> QED BY <2>1, <2>2, <2>3, <2>4, <2>5, <2>6, <2>7 DEF IInv
<1>7. CASE recv
  <2>a. CASE ReadFails(main.fd) /\ Goto("fail")
    <3>0. /\ main' \in MainType /\ main'.pc = "fail" /\ main'.case = main.case
          /\ main'.msg = "none" /\ main'.buf = main.buf /\ main'.next = INVALID
      BY <1>0, <2>a, ToFields DEF Goto, MainPcs
    <3>1. TypeOK'
      BY <1>7, <1>0, <1>t, <3>0 DEF recv, TypeOK
    <3>2. ControlInv'
      BY <1>7, <1>0, <3>0, <3>1 DEF recv, IInv, ControlInv, TypeOK, Current, ControlInv,
         StateInv
    <3>3. StateInv'
      BY <1>7, <1>0, <3>0, <3>1 DEF recv, IInv, StateInv, TypeOK, Current, ControlInv, StateInv
    <3>4. FdInv'
      BY <1>7, <1>0, <3>0, <3>1 DEF recv, IInv, FdInv, TypeOK, Current, ControlInv, StateInv
    <3>5. OldInv'
      BY <1>7, <1>0, <3>0, <3>1 DEF recv, IInv, OldInv, TypeOK, Current, ControlInv, StateInv
    <3>6. ShakeInv'
      BY <1>7, <1>0, <3>0, <3>1 DEF recv, IInv, ShakeInv, TypeOK, Current, ControlInv, StateInv
    <3>7. RulesInv'
      BY <1>7, <1>0, <3>0, <3>1 DEF recv, IInv, RulesInv, TypeOK, Current, ControlInv, StateInv
    <3> QED BY <3>1, <3>2, <3>3, <3>4, <3>5, <3>6, <3>7 DEF IInv
  <2> DEFINE tag == IF fds[main.fd] = "up" THEN "cur" ELSE "old"
             got == CASE main.case = HELLO -> To("clear")
                      [] main.case = RUN -> To("rest")
                      [] OTHER -> Store(main.case + 1, "rest")
  <2>b. ASSUME ReadOK(main.fd), NEW more \in {"none", tag},
               main' = [got EXCEPT !.msg = tag, !.buf = more]
        PROVE  IInv'
    <3>g. /\ got \in MainType /\ got.case = main.case
          /\ \/ main.case = HELLO /\ got.pc = "clear" /\ got.next = INVALID
             \/ main.case = RUN /\ got.pc = "rest" /\ got.next = INVALID
             \/ /\ main.case \in REQUEST_FEATURE..REQUEST_GET_CONFIG /\ got.pc = "store"
                /\ got.next = main.case + 1 /\ got.then = "rest"
      <4>1. CASE main.case = HELLO
        BY <1>0, <2>b, <4>1, ToFields DEF MainPcs
      <4>2. CASE main.case = RUN
        BY <1>0, <2>b, <4>2, ToFields DEF MainPcs
      <4>3. CASE main.case \notin {HELLO, RUN}
        <5>1. main.case \in REQUEST_FEATURE..REQUEST_GET_CONFIG
          BY <1>7, <1>0, <4>3 DEF recv, MainType
        <5>2. main.case + 1 \in States
          BY <5>1
        <5>3. got = Store(main.case + 1, "rest")
          BY <2>b, <4>3
        <5> QED BY <1>0, <5>1, <5>2, <5>3, StoreFields
      <4> QED BY <4>1, <4>2, <4>3
    <3>h. tag = (IF fds[main.fd] = "up" THEN "cur" ELSE "old")
      OBVIOUS
    <3> HIDE DEF got, tag
    <3>0. /\ main' \in MainType /\ main'.msg = tag /\ main'.buf = more /\ main'.pc = got.pc
          /\ main'.case = got.case /\ main'.next = got.next /\ main'.then = got.then
      BY <2>b, <3>g, <3>h DEF MainType, Tags
    <3>1. TypeOK'
      BY <1>7, <1>0, <1>t, <3>0 DEF recv, TypeOK
    <3>u. UNCHANGED <<state, sfd, fds, rules, shake>> /\ At("sys") /\ main.case >= HELLO
      BY <1>7 DEF recv
    <3>2. ControlInv'
      BY <2>b, <3>g, <3>h, <1>0, <3>0, <3>1, <3>u DEF ReadOK, IInv, ControlInv, TypeOK,
         Current, ControlInv, StateInv
    <3>3. StateInv'
      BY <2>b, <3>g, <3>h, <1>0, <3>0, <3>1, <3>u DEF ReadOK, IInv, StateInv, TypeOK,
         Current, ControlInv, StateInv
    <3>4. FdInv'
      BY <2>b, <3>g, <3>h, <1>0, <3>0, <3>1, <3>u DEF ReadOK, IInv, FdInv, TypeOK, Current,
         ControlInv, StateInv
    <3>5. OldInv'
      BY <2>b, <3>g, <3>h, <1>0, <3>0, <3>1, <3>u DEF ReadOK, IInv, OldInv, FdInv, TypeOK,
         Current, ControlInv, StateInv
    <3>6. ShakeInv'
      BY <2>b, <3>g, <3>h, <1>0, <3>0, <3>1, <3>u DEF ReadOK, IInv, ShakeInv, TypeOK,
         Current, ControlInv, StateInv
    <3>7. RulesInv'
      <4>1. main'.case = main.case /\ main'.next \in {INVALID, main.case + 1}
        BY <3>g, <3>0
      <4>2. main.case = RUN \/ main.case = HELLO => main'.next = INVALID
        BY <3>g, <3>0
      <4>3. main.case \in HELLO..RUN
        BY <1>0, <3>u DEF MainType
      <4> QED BY <4>1, <4>2, <4>3, <3>u DEF IInv, RulesInv
    <3> QED BY <3>1, <3>2, <3>3, <3>4, <3>5, <3>6, <3>7 DEF IInv
  <2> QED BY <1>7, <2>a, <2>b DEF recv
<1>8. CASE hello_clear
  <2>0. main' \in MainType
    BY <1>8, <1>0, StoreFields DEF hello_clear, MainPcs
  <2>1. TypeOK'
    BY <1>8, <1>t, <2>0, <1>0, ChannelAssumption DEF hello_clear, IInv, TypeOK, ControlInv,
       Tags, Fds, FdStates
  <2>2. ControlInv'
    BY <1>8, <1>0, <2>1, StoreFields DEF hello_clear, IInv, ControlInv, TypeOK, MainType,
       MainPcs, Current, ControlInv, StateInv
  <2>3. StateInv'
    BY <1>8, <1>0, <2>1, StoreFields DEF hello_clear, IInv, StateInv, TypeOK, MainType,
       MainPcs, Current, ControlInv, StateInv
  <2>4. FdInv'
    BY <1>8, <1>0, <2>1, StoreFields DEF hello_clear, IInv, FdInv, TypeOK, MainType,
       MainPcs, Current, ControlInv, StateInv
  <2>5. OldInv'
    BY <1>8, <1>0, <2>1, StoreFields DEF hello_clear, IInv, OldInv, TypeOK, MainType,
       MainPcs, Current, ControlInv, StateInv
  <2>6. ShakeInv'
    BY <1>8, <1>0, <2>1, StoreFields DEF hello_clear, IInv, ShakeInv, TypeOK, MainType,
       MainPcs, Current, ControlInv, StateInv
  <2>7. RulesInv'
    BY <1>8, <1>0, <2>1, StoreFields DEF hello_clear, IInv, RulesInv, TypeOK, MainType,
       MainPcs, Current, ControlInv, StateInv
  <2> QED BY <2>1, <2>2, <2>3, <2>4, <2>5, <2>6, <2>7 DEF IInv
<1>9. CASE recv_rest
  <2>0. main' \in MainType
    BY <1>9, <1>0, ToFields DEF recv_rest, Goto, MainPcs
  <2>1. TypeOK'
    BY <1>9, <1>t, <2>0, <1>0, ChannelAssumption DEF recv_rest, IInv, TypeOK, ControlInv,
       Tags, Fds, FdStates
  <2>2. ControlInv'
    BY <1>9, <1>0, <2>1, ToFields DEF recv_rest, IInv, ControlInv, TypeOK, MainType,
       MainPcs, Goto, Current, ControlInv, StateInv
  <2>3. StateInv'
    BY <1>9, <1>0, <2>1, ToFields DEF recv_rest, IInv, StateInv, TypeOK, MainType, MainPcs,
       Goto, Current, ControlInv, StateInv
  <2>4. FdInv'
    BY <1>9, <1>0, <2>1, ToFields DEF recv_rest, IInv, FdInv, TypeOK, MainType, MainPcs,
       Goto, Current, ControlInv, StateInv
  <2>5. OldInv'
    BY <1>9, <1>0, <2>1, ToFields DEF recv_rest, IInv, OldInv, TypeOK, MainType, MainPcs,
       Goto, Current, ControlInv, StateInv
  <2>6. ShakeInv'
    BY <1>9, <1>0, <2>1, ToFields DEF recv_rest, IInv, ShakeInv, TypeOK, MainType, MainPcs,
       Goto, Current, ControlInv, StateInv
  <2>7. RulesInv'
    BY <1>9, <1>0, <2>1, ToFields DEF recv_rest, IInv, RulesInv, TypeOK, MainType, MainPcs,
       Goto, Current, ControlInv, StateInv
  <2> QED BY <2>1, <2>2, <2>3, <2>4, <2>5, <2>6, <2>7 DEF IInv
<1>10. CASE check_lost
  <2>0. main' \in MainType
    BY <1>10, <1>0, ToFields DEF check_lost, Goto, MainPcs
  <2>1. TypeOK'
    BY <1>10, <1>t, <2>0, <1>0, ChannelAssumption DEF check_lost, IInv, TypeOK, ControlInv,
       Tags, Fds, FdStates
  <2>2. ControlInv'
    BY <1>10, <1>0, <2>1, ToFields DEF check_lost, IInv, ControlInv, TypeOK, MainType,
       MainPcs, Goto, Current, ControlInv, StateInv
  <2>3. StateInv'
    BY <1>10, <1>0, <2>1, ToFields DEF check_lost, IInv, StateInv, TypeOK, MainType,
       MainPcs, Goto, Current, ControlInv, StateInv
  <2>4. FdInv'
    BY <1>10, <1>0, <2>1, ToFields DEF check_lost, IInv, FdInv, TypeOK, MainType, MainPcs,
       Goto, Current, ControlInv, StateInv
  <2>5. OldInv'
    BY <1>10, <1>0, <2>1, ToFields DEF check_lost, IInv, OldInv, TypeOK, MainType, MainPcs,
       Goto, Current, ControlInv, StateInv
  <2>6. ShakeInv'
    BY <1>10, <1>0, <2>1, ToFields DEF check_lost, IInv, ShakeInv, TypeOK, MainType,
       MainPcs, Goto, Current, ControlInv, StateInv
  <2>7. RulesInv'
    BY <1>10, <1>0, <2>1, ToFields DEF check_lost, IInv, RulesInv, TypeOK, MainType,
       MainPcs, Goto, Current, ControlInv, StateInv
  <2> QED BY <2>1, <2>2, <2>3, <2>4, <2>5, <2>6, <2>7 DEF IInv
<1>11. CASE check_refused
  <2>0. main' \in MainType
    BY <1>11, <1>0, ToFields DEF check_refused, Goto, MainPcs
  <2>1. TypeOK'
    BY <1>11, <1>t, <2>0, <1>0, ChannelAssumption DEF check_refused, IInv, TypeOK,
       ControlInv, Tags, Fds, FdStates
  <2>2. ControlInv'
    BY <1>11, <1>0, <2>1, ToFields DEF check_refused, IInv, ControlInv, TypeOK, MainType,
       MainPcs, Goto, Current, ControlInv, StateInv
  <2>3. StateInv'
    BY <1>11, <1>0, <2>1, ToFields DEF check_refused, IInv, StateInv, TypeOK, MainType,
       MainPcs, Goto, Current, ControlInv, StateInv
  <2>4. FdInv'
    BY <1>11, <1>0, <2>1, ToFields DEF check_refused, IInv, FdInv, TypeOK, MainType,
       MainPcs, Goto, Current, ControlInv, StateInv
  <2>5. OldInv'
    BY <1>11, <1>0, <2>1, ToFields DEF check_refused, IInv, OldInv, TypeOK, MainType,
       MainPcs, Goto, Current, ControlInv, StateInv
  <2>6. ShakeInv'
    BY <1>11, <1>0, <2>1, ToFields DEF check_refused, IInv, ShakeInv, TypeOK, MainType,
       MainPcs, Goto, Current, ControlInv, StateInv
  <2>7. RulesInv'
    BY <1>11, <1>0, <2>1, ToFields DEF check_refused, IInv, RulesInv, TypeOK, MainType,
       MainPcs, Goto, Current, ControlInv, StateInv
  <2> QED BY <2>1, <2>2, <2>3, <2>4, <2>5, <2>6, <2>7 DEF IInv
<1>12. CASE check_handshake
  <2>0. main' \in MainType
    BY <1>12, <1>0, ToFields, StoreFields DEF check_handshake, MainPcs
  <2>1. TypeOK'
    BY <1>12, <1>t, <2>0, <1>0, ChannelAssumption DEF check_handshake, IInv, TypeOK,
       ControlInv, Tags, Fds, FdStates
  <2>2. ControlInv'
    BY <1>12, <1>0, <2>1, ToFields, StoreFields DEF check_handshake, IInv, ControlInv,
       TypeOK, MainType, MainPcs, Current, ControlInv, StateInv
  <2>3. StateInv'
    BY <1>12, <1>0, <2>1, ToFields, StoreFields DEF check_handshake, IInv, StateInv,
       TypeOK, MainType, MainPcs, Current, ControlInv, StateInv
  <2>4. FdInv'
    BY <1>12, <1>0, <2>1, ToFields, StoreFields DEF check_handshake, IInv, FdInv, TypeOK,
       MainType, MainPcs, Current, ControlInv, StateInv
  <2>5. OldInv'
    BY <1>12, <1>0, <2>1, ToFields, StoreFields DEF check_handshake, IInv, OldInv, TypeOK,
       MainType, MainPcs, Current, ControlInv, StateInv
  <2>6. ShakeInv'
    <3>0. /\ main'.msg = "none" /\ main'.buf = main.buf /\ main.case \in HELLO..REQUEST_GET_CONFIG
          /\ main'.pc \in {"top", "store", "reply"} /\ main.msg \in {"cur", "old"}
          /\ state \in {INVALID, main.case, main.case + 1}
      BY <1>12, <1>0, ToFields, StoreFields
      DEF check_handshake, IInv, ControlInv, StateInv, MainPcs, MainType, Tags
    <3>1. CASE main.msg = "old"
      BY <1>12, <3>0, <3>1 DEF check_handshake, IInv, OldInv, ShakeInv, Current
    <3>2. CASE main.msg = "cur"
      <4>1. shake' = main.case - HELLO + 1 /\ state' = state
        BY <1>12, <3>2 DEF check_handshake
      <4>2. CASE main.case = HELLO
        BY <1>12, <1>0, <3>0, <4>1, <4>2, ToFields DEF check_handshake, ShakeInv, MainPcs
      <4>3. CASE main.case = REQUEST_FEATURE
        BY <1>12, <1>0, <3>0, <4>1, <4>3, StoreFields DEF check_handshake, ShakeInv, MainPcs
      <4>4. CASE main.case = SET_CONFIG
        BY <1>12, <1>0, <3>0, <4>1, <4>4, StoreFields DEF check_handshake, ShakeInv, MainPcs
      <4>5. CASE main.case = REQUEST_GET_CONFIG
        BY <1>12, <1>0, <3>0, <4>1, <4>5, ToFields DEF check_handshake, ShakeInv, MainPcs
      <4> QED BY <3>0, <4>2, <4>3, <4>4, <4>5
    <3> QED BY <3>0, <3>1, <3>2
  <2>7. RulesInv'
    BY <1>12, <1>0, <2>1, ToFields, StoreFields DEF check_handshake, IInv, RulesInv,
       TypeOK, MainType, MainPcs, Current, ControlInv, StateInv
  <2> QED BY <2>1, <2>2, <2>3, <2>4, <2>5, <2>6, <2>7 DEF IInv
<1>13. CASE run_process
  <2>0. main' \in MainType
    BY <1>13, <1>0, ToFields DEF run_process, Goto, MainPcs
  <2>1. TypeOK'
    BY <1>13, <1>t, <2>0, <1>0, ChannelAssumption DEF run_process, IInv, TypeOK,
       ControlInv, Tags, Fds, FdStates
  <2>2. ControlInv'
    BY <1>13, <1>0, <2>1, ToFields DEF run_process, IInv, ControlInv, TypeOK, MainType,
       MainPcs, Goto, Current, ControlInv, StateInv
  <2>3. StateInv'
    BY <1>13, <1>0, <2>1, ToFields DEF run_process, IInv, StateInv, TypeOK, MainType,
       MainPcs, Goto, Current, ControlInv, StateInv
  <2>4. FdInv'
    BY <1>13, <1>0, <2>1, ToFields DEF run_process, IInv, FdInv, TypeOK, MainType, MainPcs,
       Goto, Current, ControlInv, StateInv
  <2>5. OldInv'
    BY <1>13, <1>0, <2>1, ToFields DEF run_process, IInv, OldInv, TypeOK, MainType,
       MainPcs, Goto, Current, ControlInv, StateInv
  <2>6. ShakeInv'
    BY <1>13, <1>0, <2>1, ToFields DEF run_process, IInv, ShakeInv, TypeOK, MainType,
       MainPcs, Goto, Current, ControlInv, StateInv
  <2>7. RulesInv'
    <3>0. /\ main'.case \in {INVALID, RUN} /\ main'.next = INVALID /\ state \in {INVALID, RUN}
          /\ main.case = RUN /\ state' = state /\ sfd' = sfd /\ shake' = shake
      BY <1>13, <1>0, ToFields DEF run_process, Goto, MainPcs, IInv, StateInv, TypeOK
    <3>1. main.msg = "cur" => shake = 4
      BY <1>13, <1>0 DEF run_process, IInv, ShakeInv, Current, TypeOK
    <3>2. main.msg = "old" => sfd = 0
      BY DEF IInv, OldInv
    <3>3. rules' = rules \/ rules' = main.msg
      BY <1>13 DEF run_process
    <3>4. RulesInv /\ main.case = RUN
      BY <3>0 DEF IInv
    <3> QED BY <3>0, <3>1, <3>2, <3>3, <3>4 DEF RulesInv
  <2> QED BY <2>1, <2>2, <2>3, <2>4, <2>5, <2>6, <2>7 DEF IInv
<1>14. CASE refuse_close
  <2>0. main' \in MainType
    BY <1>14, <1>0, StoreFields DEF refuse_close, MainPcs
  <2>1. TypeOK'
    BY <1>14, <1>t, <2>0, <1>0, ChannelAssumption DEF refuse_close, IInv, TypeOK,
       ControlInv, Tags, Fds, FdStates, Close
  <2>2. ControlInv'
    BY <1>14, <1>0, <2>1, StoreFields DEF refuse_close, IInv, ControlInv, TypeOK, MainType,
       MainPcs, Close, Current, ControlInv, StateInv
  <2>3. StateInv'
    BY <1>14, <1>0, <2>1, StoreFields DEF refuse_close, IInv, StateInv, TypeOK, MainType,
       MainPcs, Close, Current, ControlInv, StateInv
  <2>4. FdInv'
    BY <1>14, <1>0, <2>1, StoreFields DEF refuse_close, IInv, FdInv, TypeOK, MainType,
       MainPcs, Close, Current, ControlInv, StateInv
  <2>5. OldInv'
    BY <1>14, <1>0, <2>1, StoreFields DEF refuse_close, IInv, OldInv, TypeOK, MainType,
       MainPcs, Close, Current, ControlInv, StateInv
  <2>6. ShakeInv'
    BY <1>14, <1>0, <2>1, StoreFields DEF refuse_close, IInv, ShakeInv, TypeOK, MainType,
       MainPcs, Close, Current, ControlInv, StateInv
  <2>7. RulesInv'
    BY <1>14, <1>0, <2>1, StoreFields DEF refuse_close, IInv, RulesInv, TypeOK, MainType,
       MainPcs, Close, Current, ControlInv, StateInv
  <2> QED BY <2>1, <2>2, <2>3, <2>4, <2>5, <2>6, <2>7 DEF IInv
<1>15. CASE main_store
  <2>0. main' \in MainType
    BY <1>15, <1>0, ToFields DEF main_store, Goto, MainType, TypeOK
  <2>1. TypeOK'
    BY <1>15, <1>t, <2>0, <1>0, ChannelAssumption DEF main_store, IInv, TypeOK, ControlInv,
       Tags, Fds, FdStates
  <2>2. ControlInv'
    BY <1>15, <1>0, <2>1, ToFields DEF main_store, IInv, ControlInv, TypeOK, MainType,
       MainPcs, Goto, Current, ControlInv, StateInv
  <2>3. StateInv'
    BY <1>15, <1>0, <2>1, ToFields DEF main_store, IInv, StateInv, TypeOK, MainType,
       MainPcs, Goto, Current, ControlInv, StateInv
  <2>4. FdInv'
    BY <1>15, <1>0, <2>1, ToFields DEF main_store, IInv, FdInv, TypeOK, MainType, MainPcs,
       Goto, Current, ControlInv, StateInv
  <2>5. OldInv'
    BY <1>15, <1>0, <2>1, ToFields DEF main_store, IInv, OldInv, TypeOK, MainType, MainPcs,
       Goto, Current, ControlInv, StateInv
  <2>6. ShakeInv'
    BY <1>15, <1>0, <2>1, ToFields DEF main_store, IInv, ShakeInv, TypeOK, MainType,
       MainPcs, Goto, Current, ControlInv, StateInv
  <2>7. RulesInv'
    BY <1>15, <1>0, <2>1, ToFields DEF main_store, IInv, RulesInv, TypeOK, MainType,
       MainPcs, Goto, Current, ControlInv, StateInv
  <2> QED BY <2>1, <2>2, <2>3, <2>4, <2>5, <2>6, <2>7 DEF IInv
<1>16. CASE main_fail
  <2>0. main' \in MainType
    BY <1>16, <1>0, ToFields DEF main_fail, Goto, MainPcs
  <2>1. TypeOK'
    BY <1>16, <1>t, <2>0, <1>0, ChannelAssumption DEF main_fail, IInv, TypeOK, ControlInv,
       Tags, Fds, FdStates, Close
  <2>2. ControlInv'
    BY <1>16, <1>0, <2>1, ToFields DEF main_fail, IInv, ControlInv, TypeOK, MainType,
       MainPcs, Goto, Close, Current, ControlInv, StateInv
  <2>3. StateInv'
    BY <1>16, <1>0, <2>1, ToFields DEF main_fail, IInv, StateInv, TypeOK, MainType,
       MainPcs, Goto, Close, Current, ControlInv, StateInv
  <2>4. FdInv'
    BY <1>16, <1>0, <2>1, ToFields DEF main_fail, IInv, FdInv, TypeOK, MainType, MainPcs,
       Goto, Close, Current, ControlInv, StateInv
  <2>5. OldInv'
    BY <1>16, <1>0, <2>1, ToFields DEF main_fail, IInv, OldInv, TypeOK, MainType, MainPcs,
       Goto, Close, Current, ControlInv, StateInv
  <2>6. ShakeInv'
    BY <1>16, <1>0, <2>1, ToFields DEF main_fail, IInv, ShakeInv, TypeOK, MainType,
       MainPcs, Goto, Close, Current, ControlInv, StateInv
  <2>7. RulesInv'
    BY <1>16, <1>0, <2>1, ToFields DEF main_fail, IInv, RulesInv, TypeOK, MainType,
       MainPcs, Goto, Close, Current, ControlInv, StateInv
  <2> QED BY <2>1, <2>2, <2>3, <2>4, <2>5, <2>6, <2>7 DEF IInv
<1>17. CASE main_lost
  <2>0. main' \in MainType
    BY <1>17, <1>0, ToFields DEF main_lost, Goto, MainPcs
  <2>1. TypeOK'
    BY <1>17, <1>t, <2>0, <1>0, ChannelAssumption DEF main_lost, IInv, TypeOK, ControlInv,
       Tags, Fds, FdStates
  <2>2. ControlInv'
    BY <1>17, <1>0, <2>1, ToFields DEF main_lost, IInv, ControlInv, TypeOK, MainType,
       MainPcs, Goto, Current, ControlInv, StateInv
  <2>3. StateInv'
    BY <1>17, <1>0, <2>1, ToFields DEF main_lost, IInv, StateInv, TypeOK, MainType,
       MainPcs, Goto, Current, ControlInv, StateInv
  <2>4. FdInv'
    BY <1>17, <1>0, <2>1, ToFields DEF main_lost, IInv, FdInv, TypeOK, MainType, MainPcs,
       Goto, Current, ControlInv, StateInv
  <2>5. OldInv'
    BY <1>17, <1>0, <2>1, ToFields DEF main_lost, IInv, OldInv, TypeOK, MainType, MainPcs,
       Goto, Current, ControlInv, StateInv
  <2>6. ShakeInv'
    BY <1>17, <1>0, <2>1, ToFields DEF main_lost, IInv, ShakeInv, TypeOK, MainType,
       MainPcs, Goto, Current, ControlInv, StateInv
  <2>7. RulesInv'
    BY <1>17, <1>0, <2>1, ToFields DEF main_lost, IInv, RulesInv, TypeOK, MainType,
       MainPcs, Goto, Current, ControlInv, StateInv
  <2> QED BY <2>1, <2>2, <2>3, <2>4, <2>5, <2>6, <2>7 DEF IInv
<1>18. CASE main_lost_clear
  <2>0. main' \in MainType
    BY <1>18, <1>0, ToFields DEF main_lost_clear, Goto, MainPcs
  <2>1. TypeOK'
    BY <1>18, <1>t, <2>0, <1>0, ChannelAssumption DEF main_lost_clear, IInv, TypeOK,
       ControlInv, Tags, Fds, FdStates
  <2>2. ControlInv'
    BY <1>18, <1>0, <2>1, ToFields DEF main_lost_clear, IInv, ControlInv, TypeOK, MainType,
       MainPcs, Goto, Current, ControlInv, StateInv
  <2>3. StateInv'
    BY <1>18, <1>0, <2>1, ToFields DEF main_lost_clear, IInv, StateInv, TypeOK, MainType,
       MainPcs, Goto, Current, ControlInv, StateInv
  <2>4. FdInv'
    BY <1>18, <1>0, <2>1, ToFields DEF main_lost_clear, IInv, FdInv, TypeOK, MainType,
       MainPcs, Goto, Current, ControlInv, StateInv
  <2>5. OldInv'
    BY <1>18, <1>0, <2>1, ToFields DEF main_lost_clear, IInv, OldInv, TypeOK, MainType,
       MainPcs, Goto, Current, ControlInv, StateInv
  <2>6. ShakeInv'
    BY <1>18, <1>0, <2>1, ToFields DEF main_lost_clear, IInv, ShakeInv, TypeOK, MainType,
       MainPcs, Goto, Current, ControlInv, StateInv
  <2>7. RulesInv'
    BY <1>18, <1>0, <2>1, ToFields DEF main_lost_clear, IInv, RulesInv, TypeOK, MainType,
       MainPcs, Goto, Current, ControlInv, StateInv
  <2> QED BY <2>1, <2>2, <2>3, <2>4, <2>5, <2>6, <2>7 DEF IInv
<1>19. CASE main_reply
  <2>0. main' \in MainType
    BY <1>19, <1>0, ToFields, StoreFields DEF main_reply, Goto, MainPcs, Replied
  <2>1. TypeOK'
    BY <1>19, <1>t, <2>0, <1>0, ChannelAssumption DEF main_reply, IInv, TypeOK, ControlInv,
       Tags, Fds, FdStates
  <2>2. ControlInv'
    BY <1>19, <1>0, <2>1, ToFields, StoreFields DEF main_reply, IInv, ControlInv, TypeOK,
       MainType, MainPcs, Goto, Replied, Current, ControlInv, StateInv
  <2>3. StateInv'
    BY <1>19, <1>0, <2>1, ToFields, StoreFields DEF main_reply, IInv, StateInv, TypeOK,
       MainType, MainPcs, Goto, Replied, Current, ControlInv, StateInv
  <2>4. FdInv'
    BY <1>19, <1>0, <2>1, ToFields, StoreFields DEF main_reply, IInv, FdInv, TypeOK,
       MainType, MainPcs, Goto, Replied, Current, ControlInv, StateInv
  <2>5. OldInv'
    BY <1>19, <1>0, <2>1, ToFields, StoreFields DEF main_reply, IInv, OldInv, TypeOK,
       MainType, MainPcs, Goto, Replied, Current, ControlInv, StateInv
  <2>6. ShakeInv'
    BY <1>19, <1>0, <2>1, ToFields, StoreFields DEF main_reply, IInv, ShakeInv, TypeOK,
       MainType, MainPcs, Goto, Replied, Current, ControlInv, StateInv
  <2>7. RulesInv'
    BY <1>19, <1>0, <2>1, ToFields, StoreFields DEF main_reply, IInv, RulesInv, TypeOK,
       MainType, MainPcs, Goto, Replied, Current, ControlInv, StateInv
  <2> QED BY <2>1, <2>2, <2>3, <2>4, <2>5, <2>6, <2>7 DEF IInv
<1>20. CASE main_copy
  <2>0. main' \in MainType
    BY <1>20, <1>0 DEF main_copy, MainType, MainPcs
  <2>1. TypeOK'
    BY <1>20, <1>t, <2>0, <1>0, ChannelAssumption DEF main_copy, IInv, TypeOK, ControlInv,
       Tags, Fds, FdStates, Copied
  <2>2. ControlInv'
    BY <1>20, <1>0, <2>1 DEF main_copy, IInv, ControlInv, TypeOK, MainType, MainPcs,
       Current, ControlInv, StateInv
  <2>3. StateInv'
    BY <1>20, <1>0, <2>1 DEF main_copy, IInv, StateInv, TypeOK, MainType, MainPcs, Current,
       ControlInv, StateInv
  <2>4. FdInv'
    BY <1>20, <1>0, <2>1 DEF main_copy, IInv, FdInv, TypeOK, MainType, MainPcs, Current,
       ControlInv, StateInv
  <2>5. OldInv'
    BY <1>20, <1>0, <2>1 DEF main_copy, IInv, OldInv, TypeOK, MainType, MainPcs, Current,
       ControlInv, StateInv
  <2>6. ShakeInv'
    BY <1>20, <1>0, <2>1 DEF main_copy, IInv, ShakeInv, TypeOK, MainType, MainPcs, Current,
       ControlInv, StateInv
  <2>7. RulesInv'
    BY <1>20, <1>0, <2>1 DEF main_copy, IInv, RulesInv, TypeOK, MainType, MainPcs, Current,
       ControlInv, StateInv
  <2> QED BY <2>1, <2>2, <2>3, <2>4, <2>5, <2>6, <2>7 DEF IInv
<1>21. CASE main_enqueue
  <2>0. main' \in MainType
    BY <1>21, <1>0, ToFields, StoreFields DEF main_enqueue, MainPcs, Replied
  <2>1. TypeOK'
    BY <1>21, <1>t, <2>0, <1>0, ChannelAssumption DEF main_enqueue, IInv, TypeOK,
       ControlInv, Tags, Fds, FdStates
  <2>2. ControlInv'
    BY <1>21, <1>0, <2>1, ToFields, StoreFields DEF main_enqueue, IInv, ControlInv, TypeOK,
       MainType, MainPcs, Replied, Current, ControlInv, StateInv
  <2>3. StateInv'
    BY <1>21, <1>0, <2>1, ToFields, StoreFields DEF main_enqueue, IInv, StateInv, TypeOK,
       MainType, MainPcs, Replied, Current, ControlInv, StateInv
  <2>4. FdInv'
    BY <1>21, <1>0, <2>1, ToFields, StoreFields DEF main_enqueue, IInv, FdInv, TypeOK,
       MainType, MainPcs, Replied, Current, ControlInv, StateInv
  <2>5. OldInv'
    BY <1>21, <1>0, <2>1, ToFields, StoreFields DEF main_enqueue, IInv, OldInv, TypeOK,
       MainType, MainPcs, Replied, Current, ControlInv, StateInv
  <2>6. ShakeInv'
    BY <1>21, <1>0, <2>1, ToFields, StoreFields DEF main_enqueue, IInv, ShakeInv, TypeOK,
       MainType, MainPcs, Replied, Current, ControlInv, StateInv
  <2>7. RulesInv'
    BY <1>21, <1>0, <2>1, ToFields, StoreFields DEF main_enqueue, IInv, RulesInv, TypeOK,
       MainType, MainPcs, Replied, Current, ControlInv, StateInv
  <2> QED BY <2>1, <2>2, <2>3, <2>4, <2>5, <2>6, <2>7 DEF IInv
<1> QED
  BY <1>1, <1>2, <1>3, <1>4, <1>5, <1>6, <1>7, <1>8, <1>9, <1>10, <1>11, <1>12, <1>13,
     <1>14, <1>15, <1>16, <1>17, <1>18, <1>19, <1>20, <1>21 DEF pofsc_main_task
-----------------------------------------------------------------------------
(* The send task resets the state, the descriptor and the local resource   *)
(* while the main task may be anywhere.                                    *)

\* Every step of pofsc_send_msg_task keeps it: whatever the main task is doing,
\* it is not harmed by a state, a descriptor or a resource that is reset.
LEMMA SendOK ==
    ASSUME IInv, Running, pofsc_send_msg_task
    PROVE  IInv'
<1> USE DEF At, SendAt, SendGoto, States, Replying, INVALID, CONNECTING, CONNECTED, HELLO,
        REQUEST_FEATURE, SET_CONFIG, REQUEST_GET_CONFIG, RUN, Settled, Ahead, Reading, Answering
<1>0. TypeOK /\ UNCHANGED <<main, msgbuf, prod, shake, auto_clear>>
  BY DEF IInv, Running, pofsc_send_msg_task, send_switch, send_read, send_write, send_fail,
         send_lost, send_lost_clear, send_zero, send_invalid, send_back
<1>1. ASSUME TypeOK', state' \in {state, INVALID}, sfd' \in {sfd, 0}, rules' \in {rules, "none"},
             \A d \in Fds : fds'[d] \in {fds[d], "closed"}
      PROVE  IInv'
  <2>1. ControlInv'
    BY <1>0 DEF IInv, ControlInv
  <2>2. StateInv'
    BY <1>0, <1>1 DEF IInv, StateInv, TypeOK
  <2>3. FdInv'
    BY <1>0, <1>1, ChannelAssumption DEF IInv, FdInv, TypeOK, Fds
  <2>4. OldInv'
    BY <1>0, <1>1, ChannelAssumption DEF IInv, OldInv, TypeOK, Fds
  <2>5. ShakeInv'
    BY <1>0, <1>1, ChannelAssumption DEF IInv, ShakeInv, Current, FdInv, ControlInv, TypeOK, Fds
  <2>6. RulesInv'
    BY <1>0, <1>1 DEF IInv, RulesInv, TypeOK
  <2> QED BY <1>1, <2>1, <2>2, <2>3, <2>4, <2>5, <2>6 DEF IInv
<1>2. CASE send_switch
  BY <1>2, <1>0, <1>1, ChannelAssumption DEF send_switch, TypeOK, SendTop, SendPcs, Fds,
     FdStates, Tags
<1>3. CASE send_read
  BY <1>3, <1>0, <1>1, ChannelAssumption DEF send_read, TypeOK, SendTop, SendPcs, Fds,
     FdStates, Tags
<1>4. CASE send_write
  <2>1. UNCHANGED <<state, sfd, fds, rules, queue>>
    BY <1>4 DEF send_write
  <2>2. send' \in [pc : SendPcs, fd : Fds]
    <3>1. send \in [pc : SendPcs, fd : Fds] /\ sfd \in Fds /\ 0 \in Fds
      BY <1>0, ChannelAssumption DEF TypeOK, Fds
    <3>2. send' = SendTop \/ send' = [send EXCEPT !.pc = "fail", !.fd = sfd]
      BY <1>4, Zenon DEF send_write
    <3>3. SendTop \in [pc : SendPcs, fd : Fds] /\ "fail" \in SendPcs
      BY <3>1 DEF SendTop, SendPcs
    <3>4. [send EXCEPT !.pc = "fail", !.fd = sfd] \in [pc : SendPcs, fd : Fds]
      <4> HIDE DEF SendPcs
      <4> QED BY <3>1, <3>3
    <3> QED BY <3>2, <3>3, <3>4
  <2>3. TypeOK'
    BY <1>0, <2>1, <2>2 DEF TypeOK
  <2> QED BY <1>1, <2>1, <2>3
<1>5. CASE send_fail
  BY <1>5, <1>0, <1>1, ChannelAssumption DEF send_fail, TypeOK, SendTop, SendPcs, Fds,
     FdStates, Tags, Close
<1>6. CASE send_lost
  BY <1>6, <1>0, <1>1, ChannelAssumption DEF send_lost, TypeOK, SendTop, SendPcs, Fds,
     FdStates, Tags
<1>7. CASE send_lost_clear
  BY <1>7, <1>0, <1>1, ChannelAssumption DEF send_lost_clear, TypeOK, SendTop, SendPcs,
     Fds, FdStates, Tags
<1>8. CASE send_zero
  BY <1>8, <1>0, <1>1, ChannelAssumption DEF send_zero, TypeOK, SendTop, SendPcs, Fds,
     FdStates, Tags
<1>9. CASE send_invalid
  BY <1>9, <1>0, <1>1, ChannelAssumption DEF send_invalid, TypeOK, SendTop, SendPcs, Fds,
     FdStates, Tags
<1>10. CASE send_back
  BY <1>10, <1>0, <1>1, ChannelAssumption DEF send_back, TypeOK, SendTop, SendPcs, Fds,
     FdStates, Tags
<1> QED
  BY <1>2, <1>3, <1>4, <1>5, <1>6, <1>7, <1>8, <1>9, <1>10 DEF pofsc_send_msg_task
-----------------------------------------------------------------------------
(* The producers, and the end of a connection.                             *)

\* The datapath and the echo timer touch only the queue and the buffer.
LEMMA ProducersOK ==
    ASSUME IInv, Running,
           packet_in \/ packet_in_copy \/ echo_timer \/ (\E p \in Producers : enqueue(p))
    PROVE  IInv'
<1>1. /\ UNCHANGED <<state, sfd, fds, rules, main, send, shake, auto_clear>>
      /\ queue' \in 0..QueueMax /\ msgbuf' \in {"main", "dp"} /\ prod' \in [Producers -> ProdPcs]
  BY ChannelAssumption DEF IInv, TypeOK, Running, packet_in, packet_in_copy, echo_timer,
     enqueue, MayStart,
     Copied, ProdPcs
<1> QED
  BY <1>1 DEF IInv, TypeOK, ControlInv, StateInv, FdInv, OldInv, ShakeInv, RulesInv,
     Current, Ahead,
     Reading, Answering, At

\* The end of a connection only takes away what could be read.
LEMMA PeerCloseOK ==
    ASSUME IInv, Running, peer_close
    PROVE  IInv'
<1>1. PICK c \in Fds : ReadOK(c) /\ fds' = [fds EXCEPT ![c] = "down"]
  BY DEF peer_close
<1>2. /\ UNCHANGED <<state, sfd, rules, queue, msgbuf, main, send, prod, shake, auto_clear>>
      /\ fds' \in [Fds -> FdStates] /\ \A e \in Fds : fds'[e] \in {fds[e], "down"}
  BY <1>1 DEF peer_close, Running, IInv, TypeOK, FdStates
<1>3. TypeOK' /\ ControlInv' /\ StateInv' /\ RulesInv'
  BY <1>2 DEF IInv, TypeOK, ControlInv, StateInv, RulesInv, Reading, Answering, At
<1>4. FdInv' /\ OldInv'
  BY <1>2 DEF IInv, TypeOK, FdInv, OldInv, At, MainType
<1>5. Current' => Current
  BY <1>2 DEF IInv, TypeOK, Current, At
<1>6. ShakeInv'
  BY <1>2, <1>5 DEF IInv, ShakeInv, Ahead, Reading, Answering, At
<1> QED BY <1>3, <1>4, <1>6 DEF IInv
-----------------------------------------------------------------------------
(* The theorems.                                                           *)

\* The invariant is inductive.
LEMMA Inductive == IInv /\ [Next]_vars => IInv'
<1> SUFFICES ASSUME IInv, [Next]_vars PROVE IInv'
  OBVIOUS
<1>1. CASE UNCHANGED vars
  BY <1>1 DEF vars, IInv, TypeOK, ControlInv, StateInv, FdInv, OldInv, ShakeInv, RulesInv,
     Current,
     Ahead, Reading, Answering, At
<1>2. CASE Next
  BY <1>2, MainOK, SendOK, ProducersOK, PeerCloseOK DEF Next
<1> QED BY <1>1, <1>2

\* It holds in every reachable state.
LEMMA Invariance == Spec => []IInv
BY InitOK, Inductive, PTL DEF Spec

\* Whatever the interleaving of the tasks, the descriptors, the queue and the
\* variables of pofsc_main_task and pofsc_send_msg_task keep their types: the
\* queue never holds more than it has room for, no descriptor is out of range.
THEOREM TypeCorrect == Spec => []TypeOK
BY Invariance, PTL DEF IInv

\* A rule is installed only by a controller that has gone through the whole
\* handshake of pofsc_main_task on the same connection, although the send task
\* may reset the state in the middle of it.
THEOREM HandshakeFirst == Spec => []RulesAfterHandshake
<1>1. IInv => RulesAfterHandshake
  BY DEF IInv, RulesInv, RulesAfterHandshake
<1> QED BY <1>1, Invariance, PTL

\* After the HELLO of a connection the local resource has no rule of an earlier
\* one (poflr_clear_resource in pofsc_main_task), but for descriptor 0.
THEOREM StaleRulesCleared == Spec => []NoStaleRules
<1>1. IInv => NoStaleRules
  BY DEF IInv, RulesInv, NoStaleRules
<1> QED BY <1>1, Invariance, PTL
=============================================================================
