------------------------------- MODULE Ports -------------------------------
(***************************************************************************)
(* The ports of one slot (local_resource/pof_port.c): the task that        *)
(* detects them every 5 seconds, the commands addport and delport, the     *)
(* answer to GET_CONFIG_REQUEST, PORT_MOD, and the receive task of every   *)
(* port (datapath/pof_datapath.c).  Interfaces come and go at any time;    *)
(* the tasks share the two maps and the portInfo structures without locks. *)
(*                                                                         *)
(* Abstractions.  An interface is the index that the system gave it; its   *)
(* addresses are left out, of its state there is whether it is live.  The  *)
(* send queue keeps the order of the reports, so the controller's view     *)
(* changes when a report is queued; a PORT_MOD may take its time.  The     *)
(* queues of a port (tc) are left out.  Threads can always be created.     *)
(***************************************************************************)
EXTENDS Integers, FiniteSets, FiniteSetsExt, Sequences, SequencesExt

CONSTANTS
    Names,      \* names of interfaces
    Active,     \* interfaces with packets, and whose link goes up and down
    hash,       \* hmap_hashForString of each name
    IndexRange, \* number of values of the uint8_t portIndex
    Replug,     \* an interface may come back before its removal is noticed
    Overlap,    \* detection, commands and GET_CONFIG_REQUEST may overlap
    MaxSys,     \* bound: interfaces that ever appear, and ports ever created
    MaxConn     \* bound: connections

ASSUME PortsAssumption ==
    /\ IsFiniteSet(Names) /\ "" \notin Names /\ Active \subseteq Names
    /\ hash \in [Names -> Nat \ {0}]
    /\ IndexRange \in Nat \ {0} /\ MaxSys \in Nat /\ MaxConn \in Nat
    /\ Replug \in BOOLEAN /\ Overlap \in BOOLEAN

VARIABLES
    sys,        \* the system's index of each interface, 0 for none
    live,       \* whether the interface is up and running
    lastSys,    \* the last index that the system gave
    port,       \* the portInfo structures, in the order of their creation
    map,        \* the structures in portPofIndexMap and portNameMap
    portIndex,  \* the next index
    task,       \* the receive task of each structure
    job,        \* what the detect task, the main task and the listener do
    conn,       \* the channel: "down", "open" (handshake) or "run"
    nconn,      \* number of connections so far
    ctl,        \* what the controller has been told
    mod,        \* PORT_MODs on their way
    granted,    \* history: names that the controller has enabled
    custom,     \* POFLRPF_FROM_CUSTOM: ports are chosen by command
    fresh,      \* history: no interface has changed since detection began
    halted      \* "no", "exit" (terminate_handler) or "wild" (freed memory used)

system == <<sys, live, lastSys>>
channel == <<conn, nconn, ctl, mod, granted>>
vars == <<system, port, map, portIndex, task, job, channel, custom, fresh, halted>>

Tasks == {"detect", "main", "listener"}
Idle == [pc |-> "idle", todo |-> {}, obj |-> 0, next |-> 0, name |-> "", index |-> 0, msg |-> {}]
Busy(t) == job[t].pc # "idle"
\* A task may begin: without Overlap, when no other one is at work.
MayBegin(t) == ~Busy(t) /\ (Overlap \/ \A u \in Tasks : ~Busy(u))

Adrs == DOMAIN port
Hash(n) == IF n = "" THEN 0 ELSE hash[n]
Present(n) == n \in Names /\ sys[n] # 0
\* A structure of POF_MALLOC: all zero.
Zeroed == [name |-> "", sysIndex |-> 0, live |-> FALSE, pofIndex |-> 0, enable |-> FALSE]
Started == [pc |-> "start", bound |-> 0]
Ended == [pc |-> "ended", bound |-> 0]

\* A map is searched for a hash; nodes are put at the head of their bucket.
Newest(S) == IF S = {} THEN 0 ELSE Max(S)
poflr_get_port_with_name(n) == Newest({a \in map : Hash(port[a].name) = Hash(n)})
poflr_get_port_with_pofindex(i) == Newest({a \in map : port[a].pofIndex = i})

\* The order of the traversals: the buckets, by index, the newest node first.
Before(a, b) == \/ port[a].pofIndex < port[b].pofIndex
                \/ port[a].pofIndex = port[b].pofIndex /\ a > b
Least(S) == IF S = {} THEN 0 ELSE CHOOSE a \in S : \A b \in S \ {a} : Before(a, b)
hmap_nodeFirst == Least(map)
hmap_nodeNext(a) == Least({b \in map : Before(a, b)})

\* The structures that the traversal of task t begins with.
Traverse(t, pc) ==
    [Idle EXCEPT !.pc = IF hmap_nodeFirst = 0 THEN "end" ELSE pc,
                 !.obj = hmap_nodeFirst,
                 !.next = IF hmap_nodeFirst = 0 THEN 0 ELSE hmap_nodeNext(hmap_nodeFirst)]
-----------------------------------------------------------------------------
(* Reports to the controller.                                              *)

port_report_fill_msg(p) == [id |-> p.pofIndex, name |-> p.name, live |-> p.live]

\* pofec_reply_msg drops what is said before the controller's HELLO.
Told(reason, msg) ==
    IF conn = "down" THEN ctl
    ELSE {v \in ctl : v.id # msg.id} \cup (IF reason = "DELETE" THEN {} ELSE {msg})
poflr_port_report(reason, p) == ctl' = Told(reason, port_report_fill_msg(p))
-----------------------------------------------------------------------------
(* Ports.                                                                  *)

\* Mutant: the index is the number of ports.
MutantNewIndex == Cardinality(map) + 1

NewIndex == portIndex

\* Mutant: the index is not an uint8_t.
MutantIndexAfter == portIndex + 1

IndexAfter == (portIndex + 1) % IndexRange

\* poflr_set_port, once the interface's information has been read.
poflr_set_port(n, index) ==
    [name |-> n, sysIndex |-> index, live |-> live[n], pofIndex |-> NewIndex, enable |-> FALSE]

\* map_portInsert, the report and the listening task.
Added(p) ==
    /\ port' = Append(port, p)
    /\ map' = map \cup {Len(port) + 1}
    /\ task' = Append(task, Started)
    /\ poflr_port_report("ADD", p)

\* poflr_del_port: the task is cancelled, not awaited, and the port freed. A
\* task that waits in recvfrom ends; any other one goes on until it gets there.
poflr_del_port(a) ==
    /\ poflr_port_report("DELETE", port[a])
    /\ task' = [task EXCEPT ![a] = IF @.pc = "wait" THEN Ended ELSE @]
    /\ map' = map \ {a}
    /\ port' = [port EXCEPT ![a] = Zeroed]

\* Mutant: nobody looks whether the port is there already.
MutantWanted(n) == Present(n)

\* A task begins to add an interface, if the name's hash is not there yet.
Wanted(n) == poflr_get_port_with_name(n) = 0 /\ Present(n)

\* The next name of the list, or the end of the work.
NextName(t, rest) == IF rest = {} THEN Idle ELSE [Idle EXCEPT !.pc = "new", !.todo = rest]
\* poflr_add_port(n), and after it the rest of the list.
Adds(n, rest) == [Idle EXCEPT !.pc = "set", !.name = n, !.todo = rest]

\* The interface's information is read. Without an interface poflr_set_port
\* fails, but poflr_add_port goes on with the zeroed structure.
add_set(t) ==
    /\ halted = "no" /\ job[t].pc = "set"
    /\ IF Present(job[t].name)
       THEN /\ job' = [job EXCEPT ![t].pc = "open", ![t].index = sys[job[t].name]]
            /\ UNCHANGED <<port, map, task, ctl>>
       ELSE /\ Added(Zeroed)
            /\ job' = [job EXCEPT ![t] = NextName(t, job[t].todo)]
    /\ UNCHANGED <<system, portIndex, conn, nconn, mod, granted, custom, fresh, halted>>

\* openPort binds a socket to the interface; see terminate_handler.
add_open(t) ==
    LET n == job[t].name
    IN  /\ halted = "no" /\ job[t].pc = "open" /\ sys[n] = job[t].index
        /\ Added(poflr_set_port(n, job[t].index))
        /\ portIndex' = IndexAfter
        /\ job' = [job EXCEPT ![t] = NextName(t, job[t].todo)]
        /\ UNCHANGED <<system, conn, nconn, mod, granted, custom, fresh, halted>>
-----------------------------------------------------------------------------
(* The detect task. *)

detect_begin ==
    /\ halted = "no" /\ MayBegin("detect")
    /\ job' = [job EXCEPT !["detect"] = Traverse("detect", "old")]
    /\ fresh' = TRUE
    /\ UNCHANGED <<system, port, map, portIndex, task, channel, custom, halted>>

\* The next structure of a traversal of the map m. Its successor is looked up
\* before the body of the loop; see use_freed when it has been freed.
Step(t, m, pc) ==
    LET a == job[t].next
    IN  IF a = 0 THEN [Idle EXCEPT !.pc = "end"]
        ELSE [Idle EXCEPT !.pc = pc, !.obj = a, !.next = Least({b \in m : Before(a, b)})]

\* poflr_port_detect_old: a port whose interface is gone is removed.
detect_old ==
    LET a == job["detect"].obj
        d == poflr_get_port_with_name(port[a].name)
    IN  /\ halted = "no" /\ job["detect"].pc = "old" /\ a \in map
        /\ IF Present(port[a].name)
           THEN /\ job' = [job EXCEPT !["detect"].pc = "info"]
                /\ UNCHANGED <<port, map, task, ctl>>
           ELSE /\ poflr_del_port(d)
                /\ job' = [job EXCEPT !["detect"] = Step("detect", map \ {d}, "old")]
        /\ UNCHANGED <<system, portIndex, conn, nconn, mod, granted, custom, fresh, halted>>

\* Mutant: the state is not compared.
Mutant_comparePorts(p, q) == p.sysIndex = q.sysIndex

comparePorts(p, q) == p.sysIndex = q.sysIndex /\ p.live = q.live

\* updatePorts and its report, if comparePorts tells a difference.
detect_info ==
    LET a == job["detect"].obj
        n == port[a].name
        new == [port[a] EXCEPT !.sysIndex = sys[n], !.live = live[n]]
    IN  /\ halted = "no" /\ job["detect"].pc = "info" /\ a \in map /\ Present(n)
        /\ IF comparePorts(port[a], new)
           THEN UNCHANGED <<port, ctl>>
           ELSE port' = [port EXCEPT ![a] = new] /\ poflr_port_report("MODIFY", new)
        /\ job' = [job EXCEPT !["detect"] = Step("detect", map, "old")]
        /\ UNCHANGED <<system, map, portIndex, task, conn, nconn, mod, granted, custom, fresh, halted>>

\* Mutant: only interfaces that are live are listed.
MutantInterfaces == IF custom THEN {} ELSE {n \in Names : Present(n) /\ live[n]}

\* poflr_get_port_num_name_by_getifaddrs, unless the ports are custom.
Interfaces == IF custom THEN {} ELSE {n \in Names : Present(n)}

\* poflr_port_detect_new_add lists the interfaces.
detect_list ==
    /\ halted = "no" /\ job["detect"].pc = "end"
    /\ job' = [job EXCEPT !["detect"] = NextName("detect", Interfaces)]
    /\ UNCHANGED <<system, port, map, portIndex, task, channel, custom, fresh, halted>>

detect_new ==
    /\ halted = "no" /\ job["detect"].pc = "new"
    /\ \E n \in job["detect"].todo :
          LET rest == job["detect"].todo \ {n}
          IN  job' = [job EXCEPT !["detect"] =
                         IF Wanted(n) THEN Adds(n, rest)
                         ELSE NextName("detect", rest)]
    /\ UNCHANGED <<system, port, map, portIndex, task, channel, custom, fresh, halted>>
-----------------------------------------------------------------------------
(* The commands of pofsctrl, only with custom ports.                       *)

addport(n) ==
    /\ halted = "no" /\ custom /\ MayBegin("listener")
    /\ Len(port) < MaxSys
    /\ Wanted(n)
    /\ job' = [job EXCEPT !["listener"] = Adds(n, {})]
    /\ UNCHANGED <<system, port, map, portIndex, task, channel, custom, fresh, halted>>

delport(n) ==
    /\ halted = "no" /\ custom /\ MayBegin("listener")
    /\ poflr_get_port_with_name(n) # 0
    /\ poflr_del_port(poflr_get_port_with_name(n))
    /\ UNCHANGED <<system, portIndex, job, conn, nconn, mod, granted, custom, fresh, halted>>
-----------------------------------------------------------------------------
(* The main task.                                                          *)

poflr_disable_all_port == [a \in Adrs |-> IF a \in map THEN [port[a] EXCEPT !.enable = FALSE] ELSE port[a]]

\* The controller's HELLO: poflr_clear_resource.
hello ==
    /\ halted = "no" /\ conn = "down" /\ nconn < MaxConn /\ ~Busy("main")
    /\ conn' = "open" /\ nconn' = nconn + 1
    /\ port' = poflr_disable_all_port
    /\ UNCHANGED <<system, map, portIndex, task, job, ctl, mod, granted, custom, fresh, halted>>

\* poflr_reply_port_resource, the answer to GET_CONFIG_REQUEST.
get_config ==
    /\ halted = "no" /\ conn = "open" /\ MayBegin("main")
    /\ job' = [job EXCEPT !["main"] = Traverse("main", "fill")]
    /\ UNCHANGED <<system, port, map, portIndex, task, channel, custom, fresh, halted>>

reply_fill ==
    LET a == job["main"].obj
    IN  /\ halted = "no" /\ job["main"].pc = "fill" /\ a \in map
        /\ job' = [job EXCEPT !["main"].pc = "send",
                              !["main"].msg = {port_report_fill_msg(port[a])}]
        /\ UNCHANGED <<system, port, map, portIndex, task, channel, custom, fresh, halted>>

reply_send ==
    /\ halted = "no" /\ job["main"].pc = "send"
    /\ \E m \in job["main"].msg : ctl' = Told("ADD", m)
    /\ job' = [job EXCEPT !["main"] = Step("main", map, "fill")]
    /\ UNCHANGED <<system, port, map, portIndex, task, conn, nconn, mod, granted, custom, fresh, halted>>

\* The state becomes POFCS_CHANNEL_RUN, unless the connection was lost.
reply_end ==
    /\ halted = "no" /\ job["main"].pc = "end"
    /\ job' = [job EXCEPT !["main"] = Idle]
    /\ conn' = IF conn = "open" THEN "run" ELSE conn
    /\ UNCHANGED <<system, port, map, portIndex, task, nconn, ctl, mod, granted, custom, fresh, halted>>

\* PORT_MOD (poflr_port_openflow_enable).
port_mod(m) ==
    /\ halted = "no" /\ m \in mod /\ conn = "run" /\ ~Busy("main")
    /\ mod' = mod \ {m}
    /\ LET a == poflr_get_port_with_pofindex(m.id)
       IN  port' = IF a = 0 THEN port ELSE [port EXCEPT ![a].enable = m.flag]
    /\ UNCHANGED <<system, map, portIndex, task, job, conn, nconn, ctl, granted, custom, fresh, halted>>

\* The connection is lost; with --man-clear the ports keep their flags.
lost ==
    /\ halted = "no" /\ conn # "down"
    /\ conn' = "down"
    /\ ctl' = {} /\ mod' = {} /\ granted' = {}
    /\ port' \in {port, poflr_disable_all_port}
    /\ UNCHANGED <<system, map, portIndex, task, job, nconn, custom, fresh, halted>>
-----------------------------------------------------------------------------
(* The receive task of a port (pofdp_recv_raw_task).                       *)

\* The socket is bound to the interface that the port has now; to all of
\* them when the index is 0.
Bindable(i) == i = 0 \/ i \in Range(sys)

recv_start(a) ==
    /\ halted = "no" /\ task[a].pc = "start" /\ a \in map /\ Bindable(port[a].sysIndex)
    /\ task' = [task EXCEPT ![a] = [pc |-> "wait", bound |-> port[a].sysIndex]]
    /\ UNCHANGED <<system, port, map, portIndex, job, channel, custom, fresh, halted>>

\* recvfrom returns with a packet.
recv_packet(a) ==
    /\ halted = "no" /\ task[a].pc = "wait"
    /\ \E n \in Active : Present(n) /\ task[a].bound \in {0, sys[n]}
    /\ task' = [task EXCEPT ![a].pc = "busy"]
    /\ UNCHANGED <<system, port, map, portIndex, job, channel, custom, fresh, halted>>

\* The packet is filtered and forwarded: the flags and the index of the port
\* are read.
recv_use(a) ==
    /\ halted = "no" /\ task[a].pc = "busy" /\ a \in map
    /\ task' = [task EXCEPT ![a].pc = "wait"]
    /\ UNCHANGED <<system, port, map, portIndex, job, channel, custom, fresh, halted>>
-----------------------------------------------------------------------------
(* The ends of the process.                                                *)

Halt(why) ==
    /\ halted' = why
    /\ port' = <<>> /\ map' = {} /\ task' = <<>>
    /\ job' = [t \in Tasks |-> Idle]
    /\ conn' = "down" /\ ctl' = {} /\ mod' = {} /\ granted' = {}
    /\ UNCHANGED <<system, portIndex, nconn, custom, fresh>>

\* The calls of terminate_handler when an interface is gone: openPort and the
\* receive task cannot bind their socket, the detect task cannot read the
\* information of a port whose name it has just found.
terminate_handler ==
    /\ halted = "no"
    /\ \/ \E t \in Tasks : job[t].pc = "open" /\ sys[job[t].name] # job[t].index
       \/ \E a \in map : task[a].pc = "start" /\ ~Bindable(port[a].sysIndex)
       \/ LET a == job["detect"].obj
          IN  job["detect"].pc = "info" /\ a \in map /\ ~Present(port[a].name)
    /\ Halt("exit")

\* A task uses a structure that another one has freed.
use_freed ==
    /\ halted = "no"
    /\ \/ \E t \in Tasks : job[t].pc \in {"old", "info", "fill"} /\ job[t].obj \notin map
       \/ \E a \in Adrs \ map : task[a].pc \in {"start", "busy"}
    /\ Halt("wild")
-----------------------------------------------------------------------------
(* The surroundings: interfaces and the controller.                        *)

Unnoticed(n) == \E a \in map : port[a].name = n

plug(n) ==
    /\ halted = "no" /\ sys[n] = 0 /\ lastSys < MaxSys
    /\ Replug \/ ~Unnoticed(n)
    /\ lastSys' = lastSys + 1
    /\ sys' = [sys EXCEPT ![n] = lastSys + 1]
    /\ fresh' = FALSE
    /\ UNCHANGED <<live, port, map, portIndex, task, job, channel, custom, halted>>

unplug(n) ==
    /\ halted = "no" /\ sys[n] # 0
    /\ sys' = [sys EXCEPT ![n] = 0]
    /\ live' = [live EXCEPT ![n] = FALSE]
    /\ fresh' = FALSE
    /\ UNCHANGED <<lastSys, port, map, portIndex, task, job, channel, custom, halted>>

link(n) ==
    /\ halted = "no" /\ sys[n] # 0 /\ n \in Active
    /\ live' = [live EXCEPT ![n] = ~@]
    /\ fresh' = FALSE
    /\ UNCHANGED <<sys, lastSys, port, map, portIndex, task, job, channel, custom, halted>>

\* The controller enables or disables a port that it was told of; bound: one
\* interface is enabled on a connection, one PORT_MOD at a time.
controller(v, flag) ==
    /\ halted = "no" /\ conn = "run" /\ v \in ctl /\ mod = {}
    /\ flag => granted = {}
    /\ mod' = {[id |-> v.id, flag |-> flag]}
    /\ granted' = IF flag THEN granted \cup {v.name} ELSE granted
    /\ UNCHANGED <<system, port, map, portIndex, task, job, conn, nconn, ctl, custom, fresh, halted>>
-----------------------------------------------------------------------------
\* poflr_init_port and pof_datapath_init: the ports of the chosen interfaces,
\* and their tasks. With two of one hash the switch ends at once.
Init ==
    /\ custom \in BOOLEAN
    /\ \E plugged \in SUBSET Names :
         /\ Cardinality(plugged) <= MaxSys
         /\ sys = [n \in Names |-> IF n \in plugged
                     THEN CHOOSE i \in 1..Cardinality(plugged) : SetToSeq(plugged)[i] = n ELSE 0]
         /\ lastSys = Cardinality(plugged)
         /\ live = [n \in Names |-> FALSE]
         /\ \E chosen \in SUBSET plugged :
              /\ custom \/ chosen = plugged
              /\ \A n, m \in chosen : hash[n] = hash[m] => n = m
              /\ LET names == SetToSeq(chosen)
                 IN  port = [a \in 1..Len(names) |-> [name |-> names[a], sysIndex |-> sys[names[a]],
                               live |-> FALSE, pofIndex |-> a % IndexRange, enable |-> FALSE]]
    /\ map = DOMAIN port
    /\ portIndex = (Len(port) + 1) % IndexRange
    /\ task = [a \in DOMAIN port |-> Started]
    /\ job = [t \in Tasks |-> Idle]
    /\ conn = "down" /\ nconn = 0 /\ ctl = {} /\ mod = {} /\ granted = {}
    /\ fresh = FALSE
    /\ halted = "no"

Detect == detect_begin \/ detect_old \/ detect_info \/ detect_list \/ detect_new
          \/ add_set("detect") \/ add_open("detect")
Reply == reply_fill \/ reply_send \/ reply_end
Listener == add_set("listener") \/ add_open("listener") \/ \E n \in Names : addport(n) \/ delport(n)
Receive(a) == recv_start(a) \/ recv_packet(a) \/ recv_use(a)

Next ==
    \/ Detect \/ Reply \/ Listener \/ terminate_handler \/ use_freed \/ hello \/ get_config \/ lost
    \/ \E m \in mod : port_mod(m)
    \/ \E a \in Adrs : Receive(a)
    \/ \E n \in Names : plug(n) \/ unplug(n) \/ link(n)
    \/ \E v \in ctl, flag \in BOOLEAN : controller(v, flag)

Spec == Init /\ [][Next]_vars
-----------------------------------------------------------------------------
(* Properties.                                                             *)

AnyName == Names \cup {""}
PortInfo == [name : AnyName, sysIndex : 0..MaxSys, live : BOOLEAN,
             pofIndex : 0..(IndexRange - 1), enable : BOOLEAN]

TypeOK ==
    /\ sys \in [Names -> 0..MaxSys] /\ live \in [Names -> BOOLEAN] /\ lastSys \in 0..MaxSys
    /\ port \in Seq(PortInfo) /\ Len(port) <= MaxSys
    /\ map \subseteq Adrs
    /\ portIndex \in 0..(IndexRange - 1)
    /\ task \in [Adrs -> [pc : {"start", "wait", "busy", "ended"}, bound : 0..MaxSys]]
    /\ \A t \in Tasks : job[t].obj \in Adrs \cup {0} /\ job[t].next \in Adrs \cup {0}
    /\ conn \in {"down", "open", "run"} /\ halted \in {"no", "exit", "wild"}
    /\ custom \in BOOLEAN /\ fresh \in BOOLEAN

\* "By default, the OpenFlow functions of all ports are disabled at beginning"
\* (README.md:415), and a PORT_MOD concerns the port that the controller knows
\* under the index, though ports come and go while it is on its way: a port
\* is enabled only if the controller has enabled its interface since HELLO.
EnabledAsMeant ==
    conn # "down" => \A a \in map : port[a].enable => port[a].name \in granted

\* "Detect all of ports, and report to Controller if any change"
\* (pof_port.c:1064): when the tasks rest, a connected controller has been told
\* of the ports that exist, and of no others; of their present states, if
\* no interface has changed since the detection.
ViewAgrees ==
    conn = "run" /\ halted = "no" /\ (\A t \in Tasks : ~Busy(t)) =>
        /\ ctl = {port_report_fill_msg(port[a]) : a \in map}
        /\ fresh => \A a \in map : port[a].live = live[port[a].name]

Listens(n) ==
    \E a \in map : /\ port[a].name = n
                   /\ \/ task[a].pc = "start" /\ port[a].sysIndex = sys[n]
                      \/ task[a].pc \in {"wait", "busy"} /\ task[a].bound = sys[n]

\* "POFSwitch keep listening all of the local network physical ports all the
\* time" (README.md:330): after a detection during and since which no
\* interface changed, every interface has a task that is bound to it.
ListensToAll ==
    fresh /\ ~Busy("detect") /\ halted = "no" =>
        \A n \in Names : Present(n) /\ (custom => Unnoticed(n)) => Listens(n)

\* No interface has two tasks: a packet would be forwarded twice.
OneTask ==
    \A a, b \in {c \in map : task[c].bound # 0} :
        task[a].bound = task[b].bound => a = b
=============================================================================
