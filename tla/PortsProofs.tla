----------------------------- MODULE PortsProofs -----------------------------
(***************************************************************************)
(* Proofs about Ports, for any set of interfaces, any hashes of their      *)
(* names and any number of ports, also when the tasks overlap and when an  *)
(* interface comes back before its removal is noticed.                     *)
(*                                                                         *)
(* The maps have no lock; what saves them is that one task at most adds    *)
(* ports, the detect task or, with custom ports, the listener. Between the *)
(* moment that it finds no port with the hash of a name and the moment     *)
(* that it adds one, the others can only remove ports, so no hash is there *)
(* twice (HashInv). With one port at most for each index that the system   *)
(* gave (CountInv, OwnInv) and an 8-bit index that has not wrapped         *)
(* (IndexInv) follow the properties.                                       *)
(*                                                                         *)
(* On top of this inductive invariant, the last two parts prove what the   *)
(* switch hears (ListensToAll, from ListenInv) and what the controller     *)
(* knows (ViewAgrees, from ViewInv).                                       *)
(***************************************************************************)
EXTENDS Ports, SeqLemmas, FiniteSetTheorems

MsgType == [id : 0..(IndexRange - 1), name : AnyName, live : BOOLEAN]
ModType == [id : 0..(IndexRange - 1), flag : BOOLEAN]
TaskType == [pc : {"start", "wait", "busy", "ended"}, bound : 0..MaxSys]
Pcs == {"idle", "old", "info", "end", "new", "set", "open", "fill", "send"}
JobType == [pc : Pcs, todo : SUBSET Names, obj : Nat, next : Nat,
            name : AnyName, index : 0..MaxSys, msg : SUBSET MsgType]

\* The types: of the structures, of the jobs, of the system and of the channel.
StructType == /\ port \in Seq(PortInfo) /\ Len(port) <= MaxSys
              /\ map \subseteq Adrs /\ task \in [Adrs -> TaskType]
JobsType == /\ job \in [Tasks -> JobType]
            /\ \A t \in Tasks : job[t].obj \in Adrs \cup {0} /\ job[t].next \in Adrs \cup {0}
SysType == /\ sys \in [Names -> 0..MaxSys] /\ lastSys \in 0..MaxSys
           /\ portIndex \in 0..(IndexRange - 1)
ChanType == ctl \in SUBSET MsgType /\ mod \in SUBSET ModType
FlagType == /\ conn \in {"down", "open", "run"} /\ halted \in {"no", "exit", "wild"}
            /\ custom \in BOOLEAN /\ fresh \in BOOLEAN /\ live \in [Names -> BOOLEAN]
TypeInv == StructType /\ JobsType /\ SysType /\ ChanType /\ FlagType

\* Which task does what, and that one task at most adds ports: the detect
\* task, or with custom ports the listener.
Adding(t) == job[t].pc \in {"set", "open"}
MayDo(t, j) ==
    /\ t = "main" => j.pc \in {"idle", "fill", "send", "end"}
    /\ t = "listener" => j.pc \in {"idle", "set", "open"} /\ j.todo = {} /\ (~custom => j.pc = "idle")
    /\ t = "detect" => /\ j.pc \in {"idle", "old", "info", "end", "new", "set", "open"}
                       /\ custom => j.pc \notin {"new", "set", "open"}
    /\ j.pc = "open" => j.index # 0
    /\ t # "main" => j.msg = {}
ControlInv == \A t \in Tasks : MayDo(t, job[t])

\* No two ports of the maps have the same hash, and none has that of the
\* interface that is being added; but for the ports without a name.
HashInv ==
    /\ \A a, b \in map : a # b => port[a].name = "" \/ Hash(port[a].name) # Hash(port[b].name)
    /\ \A t \in Tasks : Adding(t) =>
          job[t].name \in Names /\ \A a \in map : Hash(port[a].name) # Hash(job[t].name)

\* Every index of the system is good for one port: the interfaces without
\* a port of their name, and the one that vanished while it was added.
Owed == {n \in Names : sys[n] # 0 /\ \A a \in map : port[a].name # n}
Vanished == job["detect"].pc = "set" /\ ~Present(job["detect"].name)
CountInv ==
    halted = "no" =>
        IF custom
        THEN Len(port) + (IF Adding("listener") THEN 1 ELSE 0) <= MaxSys
        ELSE Len(port) + Cardinality(Owed) + (IF Vanished THEN 1 ELSE 0) <= lastSys

\* The indexes of the system that a port has or listens to.
Own(a) == {port[a].sysIndex, task[a].bound} \ {0}
OwnInv ==
    /\ \A n, m \in Names : sys[n] = sys[m] /\ sys[n] # 0 => n = m
    /\ \A n \in Names : sys[n] <= lastSys
    /\ \A a, b \in map : a # b => Own(a) \cap Own(b) = {}
    /\ \A a \in map : \A n \in Names : sys[n] \in Own(a) => port[a].name = n
    /\ \A a \in map : \A i \in Own(a) : i <= lastSys

\* The index that a port is known by to the controller is the index of no
\* other port: what was told of it, or is about to be told.
Known == ctl \cup job["main"].msg
IndexInv ==
    halted = "no" =>
        /\ Len(port) < MaxSys =>
              /\ 1 <= portIndex /\ portIndex <= Len(port) + 1
              /\ \A a \in map : port[a].pofIndex < portIndex
              /\ \A v \in Known : v.id < portIndex
              /\ \A m \in mod : m.id < portIndex
        /\ \A a, b \in map : port[a].pofIndex = port[b].pofIndex => port[a].name = port[b].name
        /\ \A a \in map, v \in Known : port[a].pofIndex = v.id => port[a].name = v.name
        /\ \A a \in map : port[a].pofIndex = 0 => port[a].name = ""
        /\ \A v \in Known : v.id = 0 => v.name = ""

\* What the PORT_MODs on their way ask for has been granted.
GrantInv ==
    /\ \A m \in mod : m.flag =>
          /\ \A a \in map : port[a].pofIndex = m.id => port[a].name \in granted
          /\ m.id = 0 => "" \in granted
    /\ EnabledAsMeant

IInv == /\ TypeInv /\ ControlInv /\ HashInv /\ CountInv /\ OwnInv
        /\ MaxSys < IndexRange => IndexInv /\ GrantInv
-----------------------------------------------------------------------------
\* The constants as numbers.
LEMMA Numbers ==
    IndexRange \in Nat /\ IndexRange >= 1 /\ MaxSys \in Nat /\ MaxConn \in Nat
<1>1. IndexRange \in Nat \ {0} /\ MaxSys \in Nat /\ MaxConn \in Nat
  BY PortsAssumption, Zenon
<1> QED
  BY <1>1

\* Only the empty name has the hash 0.
LEMMA Hashes ==
    /\ "" \notin Names
    /\ Hash("") = 0
    /\ \A n \in Names : Hash(n) \in Nat /\ Hash(n) # 0 /\ n # ""
<1>1. \A n \in Names : hash[n] \in Nat \ {0}
  BY PortsAssumption
<1>2. ASSUME NEW n \in Names PROVE Hash(n) = hash[n] /\ n # ""
  <2>1. n # ""
    BY PortsAssumption
  <2> QED
    BY <2>1 DEF Hash
<1>3. Hash("") = 0
  BY DEF Hash
<1>4. \A n \in Names : Hash(n) \in Nat /\ Hash(n) # 0 /\ n # ""
  BY <1>1, <1>2
<1> QED
  BY <1>3, <1>4, PortsAssumption, Zenon

\* The structures and their tasks as functions on 1..Len(port).
LEMMA Structures ==
    ASSUME TypeInv
    PROVE  /\ Len(port) \in Nat /\ Adrs = 1..Len(port) /\ port \in Seq(PortInfo)
           /\ port \in [1..Len(port) -> PortInfo]
           /\ task \in [1..Len(port) -> TaskType]
           /\ map \subseteq 1..Len(port)
           /\ \A a \in map : port[a] \in PortInfo /\ task[a] \in TaskType
<1>1. port \in Seq(PortInfo) /\ map \subseteq Adrs /\ task \in [Adrs -> TaskType]
  BY DEF TypeInv, StructType
<1>2. Len(port) \in Nat /\ DOMAIN port = 1..Len(port) /\ port \in [1..Len(port) -> PortInfo]
  BY <1>1, LenProperties
<1> QED
  BY <1>1, <1>2 DEF Adrs

\* The search of a map finds one of the ports that it is asked for, if any.
LEMMA NewestIn ==
    ASSUME TypeInv, NEW S \in SUBSET map
    PROVE  /\ S = {} => Newest(S) = 0
           /\ S # {} => Newest(S) \in S /\ Newest(S) # 0
<1>1. Len(port) \in Nat /\ S \subseteq 1..Len(port)
  BY Structures
<1>2. CASE S = {}
  BY <1>2 DEF Newest
<1>3. CASE S # {}
  <2>1. S \subseteq 0..Len(port)
    BY <1>1
  <2>2. \E x \in S : \A y \in S : x >= y
    BY <1>1, <1>3, <2>1, GreatestNat
  <2>3. Max(S) \in S
    BY <2>2, Zenon DEF Max
  <2>4. Newest(S) = Max(S)
    BY <1>3, Zenon DEF Newest
  <2>5. Max(S) # 0
    BY <1>1, <2>3
  <2> QED
    BY <1>3, <2>3, <2>4, <2>5, Zenon
<1> QED
  BY <1>2, <1>3

\* The structures of a map have a first one in the order of the traversals.
LEMMA LeastIsFirst ==
    ASSUME TypeInv, NEW S \in SUBSET map
    PROVE  /\ S = {} => Least(S) = 0
           /\ S # {} => Least(S) \in S /\ \A b \in S \ {Least(S)} : Before(Least(S), b)
<1>1. Len(port) \in Nat /\ S \subseteq 1..Len(port) /\ \A a \in S : port[a] \in PortInfo
  BY Structures
<1>2. CASE S = {}
  BY <1>2 DEF Least
<1>3. CASE S # {}
  <2> DEFINE I == {port[a].pofIndex : a \in S}
  <2>1. I \subseteq Nat /\ I # {}
    <3>1. \A a \in S : port[a].pofIndex \in 0..(IndexRange - 1)
      BY <1>1 DEF PortInfo
    <3>2. \A i \in 0..(IndexRange - 1) : i \in Nat
      BY Numbers
    <3> QED
      BY <1>3, <3>1, <3>2
  <2>2. \E i \in I : \A j \in I : i <= j
    <3> HIDE DEF I
    <3> QED  BY <2>1, LeastNat
  <2>3. PICK i \in I : \A j \in I : i <= j
    BY <2>2
  <2> DEFINE T == {a \in S : port[a].pofIndex = i}
  <2>4. T \subseteq 0..Len(port) /\ T # {}
    <3>1. \A a \in S : a \in 0..Len(port)
      BY <1>1
    <3>2. \E a \in S : port[a].pofIndex = i
      BY <2>3
    <3> QED
      BY <3>1, <3>2
  <2>5. \E x \in T : \A y \in T : x >= y
    <3> HIDE DEF T
    <3> QED  BY <1>1, <2>4, GreatestNat
  <2>6. PICK x \in T : \A y \in T : x >= y
    BY <2>5
  <2>7. ASSUME NEW b \in S \ {x} PROVE Before(x, b)
    <3>1. port[b].pofIndex \in I /\ port[x].pofIndex = i /\ i \in Nat
      BY <2>1
    <3>2. port[b].pofIndex \in Nat /\ i <= port[b].pofIndex
      BY <2>1, <2>3, <3>1
    <3>3. CASE port[b].pofIndex = i
      <4>1. b \in T
        BY <3>3
      <4>2. x >= b /\ x # b
        BY <2>6, <4>1
      <4>3. x \in Nat /\ b \in Nat
        BY <1>1
      <4> QED
        BY <3>1, <3>3, <4>2, <4>3 DEF Before
    <3>4. CASE port[b].pofIndex # i
      BY <3>1, <3>2, <3>4 DEF Before
    <3> QED
      BY <3>3, <3>4
  <2>8. x \in S /\ \A b \in S \ {x} : Before(x, b)
    BY <2>7
  <2>9. Least(S) = CHOOSE a \in S : \A b \in S \ {a} : Before(a, b)
    BY <1>3 DEF Least
  <2>10. Least(S) \in S /\ \A b \in S \ {Least(S)} : Before(Least(S), b)
    BY <2>8, <2>9, Zenon
  <2> QED
    BY <1>3, <2>10
<1> QED
  BY <1>2, <1>3

\* A traversal goes from one structure of the map to another.
LEMMA LeastIn ==
    ASSUME TypeInv, NEW S \in SUBSET map
    PROVE  /\ S = {} => Least(S) = 0
           /\ S # {} => Least(S) \in S
BY LeastIsFirst
-----------------------------------------------------------------------------
(* What the tasks remember.                                                *)

LEMMA NamesAreAnyNames == "" \in AnyName /\ \A n \in Names : n \in AnyName
<1>1. "" \in AnyName
  BY DEF AnyName
<1>2. \A n \in Names : n \in AnyName
  BY DEF AnyName
<1> QED
  BY <1>1, <1>2

LEMMA IdleJob ==
    /\ Idle \in JobType /\ Idle.pc = "idle" /\ Idle.obj = 0 /\ Idle.next = 0
    /\ Idle.name = "" /\ Idle.msg = {} /\ Idle.todo = {}
<1>1. ASSUME NEW e \in AnyName, NEW p \in Pcs
      PROVE  [pc |-> p, todo |-> {}, obj |-> 0, next |-> 0, name |-> e, index |-> 0, msg |-> {}]
                \in JobType
  BY Numbers DEF JobType
<1>2. "idle" \in Pcs
  BY DEF Pcs
<1>3. Idle \in JobType
  BY <1>1, <1>2, NamesAreAnyNames, Zenon DEF Idle
<1>4. /\ Idle.pc = "idle" /\ Idle.obj = 0 /\ Idle.next = 0
      /\ Idle.name = "" /\ Idle.msg = {} /\ Idle.todo = {}
  BY DEF Idle
<1> QED
  BY <1>3, <1>4

\* One field of a job is changed.
LEMMA JobUpdate ==
    ASSUME NEW j \in JobType
    PROVE  /\ \A v \in Pcs : [j EXCEPT !.pc = v] \in JobType
           /\ \A v \in SUBSET Names : [j EXCEPT !.todo = v] \in JobType
           /\ \A v \in Nat : [j EXCEPT !.obj = v] \in JobType
           /\ \A v \in Nat : [j EXCEPT !.next = v] \in JobType
           /\ \A v \in AnyName : [j EXCEPT !.name = v] \in JobType
           /\ \A v \in 0..MaxSys : [j EXCEPT !.index = v] \in JobType
           /\ \A v \in SUBSET MsgType : [j EXCEPT !.msg = v] \in JobType
<1>1. \A v \in Pcs : [j EXCEPT !.pc = v] \in JobType
  BY DEF JobType
<1>2. \A v \in SUBSET Names : [j EXCEPT !.todo = v] \in JobType
  BY DEF JobType
<1>3. \A v \in Nat : [j EXCEPT !.obj = v] \in JobType
  BY DEF JobType
<1>4. \A v \in Nat : [j EXCEPT !.next = v] \in JobType
  BY DEF JobType
<1>5. \A v \in AnyName : [j EXCEPT !.name = v] \in JobType
  BY DEF JobType
<1>6. \A v \in 0..MaxSys : [j EXCEPT !.index = v] \in JobType
  BY DEF JobType
<1>7. \A v \in SUBSET MsgType : [j EXCEPT !.msg = v] \in JobType
  BY DEF JobType
<1> QED
  BY <1>1, <1>2, <1>3, <1>4, <1>5, <1>6, <1>7

\* The job of a task that takes names from a list.
IsNextName(j, rest) ==
    /\ j \in JobType /\ j.obj = 0 /\ j.next = 0 /\ j.name = "" /\ j.msg = {}
    /\ j.pc \in {"idle", "new"} /\ (rest = {} => j.pc = "idle")
    /\ j.todo = rest

LEMMA NextNameJob ==
    ASSUME NEW t, NEW rest \in SUBSET Names
    PROVE  IsNextName(NextName(t, rest), rest)
<1>1. CASE rest = {}
  <2>1. NextName(t, rest) = Idle
    BY <1>1 DEF NextName
  <2> QED
    BY <1>1, <2>1, IdleJob DEF IsNextName
<1>2. CASE rest # {}
  <2> DEFINE j == [Idle EXCEPT !.pc = "new", !.todo = rest]
             k == [Idle EXCEPT !.pc = "new"]
  <2>1. NextName(t, rest) = j
    BY <1>2 DEF NextName
  <2>2. j = [k EXCEPT !.todo = rest]
    OBVIOUS
  <2>3. k \in JobType
    BY IdleJob, JobUpdate DEF Pcs
  <2>4. j \in JobType
    <3> HIDE DEF k
    <3> QED  BY <2>2, <2>3, JobUpdate
  <2>5. j.obj = 0 /\ j.next = 0 /\ j.name = "" /\ j.msg = {} /\ j.pc = "new" /\ j.todo = rest
    BY DEF Idle
  <2> HIDE DEF j
  <2> QED
    BY <1>2, <2>1, <2>4, <2>5 DEF IsNextName
<1> QED
  BY <1>1, <1>2

\* The job of a task that begins to add an interface.
LEMMA AddJob ==
    ASSUME NEW n \in Names, NEW rest \in SUBSET Names
    PROVE  LET j == Adds(n, rest)
           IN  /\ j \in JobType /\ j.obj = 0 /\ j.next = 0 /\ j.name = n /\ j.msg = {} /\ j.pc = "set"
               /\ j.todo = rest
<1> DEFINE j == [Idle EXCEPT !.pc = "set", !.name = n, !.todo = rest]
           k == [Idle EXCEPT !.pc = "set"]
           l == [k EXCEPT !.name = n]
<1>1. k \in JobType
  BY IdleJob, JobUpdate DEF Pcs
<1>2. l \in JobType
  <2> HIDE DEF k
  <2> QED  BY <1>1, JobUpdate, NamesAreAnyNames
<1>3. j = [l EXCEPT !.todo = rest]
  OBVIOUS
<1>4. j \in JobType
  <2> HIDE DEF l
  <2> QED  BY <1>2, <1>3, JobUpdate
<1>5. j.obj = 0 /\ j.next = 0 /\ j.name = n /\ j.msg = {} /\ j.pc = "set" /\ j.todo = rest
  BY DEF Idle
<1> QED
  BY <1>4, <1>5, Zenon DEF Adds

\* The job of a task that walks through a map.
IsWalk(j, p, a, b) ==
    j \in JobType /\ j.obj = a /\ j.next = b /\ j.name = "" /\ j.msg = {} /\ j.pc = p
Walk(p, a, b) == [Idle EXCEPT !.pc = p, !.obj = a, !.next = b]

LEMMA WalkJob ==
    ASSUME NEW a \in Nat, NEW b \in Nat, NEW p \in Pcs
    PROVE  IsWalk(Walk(p, a, b), p, a, b)
<1> DEFINE j == [Idle EXCEPT !.pc = p, !.obj = a, !.next = b]
           k == [Idle EXCEPT !.pc = p]
           l == [k EXCEPT !.obj = a]
<1>1. k \in JobType
  BY IdleJob, JobUpdate
<1>2. l \in JobType
  <2> HIDE DEF k
  <2> QED  BY <1>1, JobUpdate
<1>3. j = [l EXCEPT !.next = b]
  OBVIOUS
<1>4. j \in JobType
  <2> HIDE DEF l
  <2> QED  BY <1>2, <1>3, JobUpdate
<1>5. j.obj = a /\ j.next = b /\ j.name = "" /\ j.msg = {} /\ j.pc = p
  BY DEF Idle
<1> QED
  BY <1>4, <1>5, Zenon DEF Walk, IsWalk

LEMMA TraverseJob ==
    ASSUME TypeInv, NEW t, NEW p \in Pcs
    PROVE  LET j == Traverse(t, p)
           IN  /\ j \in JobType /\ j.obj \in map \cup {0} /\ j.next \in map \cup {0}
               /\ j.name = "" /\ j.msg = {} /\ j.pc \in {"end", p}
<1> DEFINE f == hmap_nodeFirst
           g == IF f = 0 THEN 0 ELSE hmap_nodeNext(f)
           q == IF f = 0 THEN "end" ELSE p
<1>1. f \in map \cup {0}
  BY LeastIn DEF hmap_nodeFirst
<1>2. hmap_nodeNext(f) \in map \cup {0}
  <2>1. {b \in map : Before(f, b)} \in SUBSET map
    OBVIOUS
  <2> HIDE DEF f
  <2> QED
    BY <2>1, LeastIn DEF hmap_nodeNext
<1>3. map \subseteq Nat
  BY Structures
<1>4. f \in Nat /\ g \in Nat /\ g \in map \cup {0}
  <2>1. \A x \in map \cup {0} : x \in Nat
    BY <1>3
  <2>2. g \in map \cup {0}
    <3> HIDE DEF f
    <3> QED  BY <1>2, Zenon
  <2> QED
    BY <1>1, <2>1, <2>2, Zenon
<1>5. "end" \in Pcs
  BY DEF Pcs
<1>6. q \in Pcs /\ q \in {"end", p}
  BY <1>5, Zenon
<1>7. Traverse(t, p) = Walk(q, f, g)
  BY Zenon DEF Traverse, Walk
<1> HIDE DEF f, g, q
<1>8. IsWalk(Walk(q, f, g), q, f, g)
  BY <1>4, <1>6, WalkJob, Zenon
<1> QED
  BY <1>1, <1>4, <1>6, <1>7, <1>8, Zenon DEF IsWalk

LEMMA StepJob ==
    ASSUME TypeInv, NEW t \in Tasks, NEW m \in SUBSET map, NEW p \in Pcs
    PROVE  LET j == Step(t, m, p)
           IN  /\ j \in JobType /\ j.obj \in Adrs \cup {0} /\ j.next \in map \cup {0}
               /\ j.name = "" /\ j.msg = {} /\ j.pc \in {"end", p}
<1> DEFINE a == job[t].next
           l == Least({b \in m : Before(a, b)})
<1>1. a \in Adrs \cup {0} /\ a \in Nat /\ Adrs \subseteq Nat /\ map \subseteq Nat
  <2>1. a \in Adrs \cup {0}
    BY DEF TypeInv, JobsType
  <2>2. Adrs \subseteq Nat /\ map \subseteq Nat
    BY Structures
  <2>3. \A x \in Adrs \cup {0} : x \in Nat
    BY <2>2
  <2> HIDE DEF a
  <2> QED
    BY <2>1, <2>2, <2>3, Zenon
<1>2. l \in map \cup {0}
  <2>1. {b \in m : Before(a, b)} \in SUBSET map
    OBVIOUS
  <2> HIDE DEF a
  <2> QED
    BY <2>1, LeastIn
<1>3. CASE a = 0
  <2>1. Step(t, m, p) = [Idle EXCEPT !.pc = "end"]
    BY <1>3, Zenon DEF Step
  <2>2. "end" \in Pcs
    BY DEF Pcs
  <2>3. LET j == [Idle EXCEPT !.pc = "end"]
        IN  /\ j.obj = 0 /\ j.next = 0 /\ j.name = "" /\ j.msg = {} /\ j.pc = "end"
    BY DEF Idle
  <2>4. [Idle EXCEPT !.pc = "end"] \in JobType
    BY <2>2, IdleJob, JobUpdate
  <2> QED
    BY <2>1, <2>3, <2>4, Zenon
<1>4. CASE a # 0
  <2>1. Step(t, m, p) = Walk(p, a, l)
    BY <1>4, Zenon DEF Step, Walk
  <2> HIDE DEF a, l
  <2>2. l \in Nat
    BY <1>1, <1>2
  <2>3. IsWalk(Walk(p, a, l), p, a, l)
    BY <1>1, <2>2, WalkJob, Zenon
  <2> QED
    BY <1>1, <1>2, <2>1, <2>3, Zenon DEF IsWalk
<1> QED
  BY <1>3, <1>4
-----------------------------------------------------------------------------
(* What the operations do to the structures.                               *)

\* One field of a structure is changed.
LEMMA PortUpdate ==
    ASSUME NEW p \in PortInfo
    PROVE  /\ \A v \in BOOLEAN : /\ [p EXCEPT !.enable = v] \in PortInfo
                                 /\ [p EXCEPT !.live = v] \in PortInfo
           /\ \A v \in 0..MaxSys : [p EXCEPT !.sysIndex = v] \in PortInfo
<1>1. ASSUME NEW v \in BOOLEAN PROVE [p EXCEPT !.enable = v] \in PortInfo
  BY DEF PortInfo
<1>2. ASSUME NEW v \in BOOLEAN PROVE [p EXCEPT !.live = v] \in PortInfo
  BY DEF PortInfo
<1>3. ASSUME NEW v \in 0..MaxSys PROVE [p EXCEPT !.sysIndex = v] \in PortInfo
  BY DEF PortInfo
<1> QED
  BY <1>1, <1>2, <1>3, Zenon

LEMMA ZeroedPort ==
    /\ Zeroed \in PortInfo /\ Zeroed.name = "" /\ Zeroed.sysIndex = 0 /\ Zeroed.pofIndex = 0
    /\ ~Zeroed.enable
<1>1. ASSUME NEW e \in AnyName, NEW f \in BOOLEAN
      PROVE  [name |-> e, sysIndex |-> 0, live |-> f, pofIndex |-> 0, enable |-> f] \in PortInfo
  BY Numbers DEF PortInfo
<1>2. Zeroed \in PortInfo
  <2>1. FALSE \in BOOLEAN
    OBVIOUS
  <2> QED
    BY <1>1, <2>1, NamesAreAnyNames, Zenon DEF Zeroed
<1>3. Zeroed.name = "" /\ Zeroed.sysIndex = 0 /\ Zeroed.pofIndex = 0
  BY DEF Zeroed
<1>4. ~Zeroed.enable
  BY DEF Zeroed
<1> QED
  BY <1>2, <1>3, <1>4

\* A structure is set.
LEMMA PortSet ==
    ASSUME TypeInv, NEW a \in map, NEW p \in PortInfo
    PROVE  LET q == [port EXCEPT ![a] = p]
           IN  /\ q \in Seq(PortInfo) /\ Len(q) = Len(port) /\ DOMAIN q = Adrs
               /\ q[a] = p /\ \A b \in Adrs \ {a} : q[b] = port[b]
<1> DEFINE q == [port EXCEPT ![a] = p]
<1>1. /\ Len(port) \in Nat /\ Adrs = 1..Len(port) /\ port \in Seq(PortInfo)
      /\ a \in 1..Len(port)
  BY Structures
<1>2. /\ q \in Seq(PortInfo) /\ Len(q) = Len(port)
      /\ \A j \in 1..Len(port) : q[j] = IF j = a THEN p ELSE port[j]
  BY <1>1, ExceptSeq
<1>3. DOMAIN q = Adrs
  BY DEF Adrs
<1> HIDE DEF q
<1>4. q[a] = p /\ \A b \in Adrs \ {a} : q[b] = port[b]
  BY <1>1, <1>2
<1> QED
  BY <1>2, <1>3, <1>4 DEF q

\* A structure is added.
LEMMA AddedFacts ==
    ASSUME TypeInv, NEW p \in PortInfo, Added(p)
    PROVE  /\ port' \in Seq(PortInfo) /\ Len(port') = Len(port) + 1 /\ Adrs' = 1..(Len(port) + 1)
           /\ \A a \in Adrs : port'[a] = port[a] /\ task'[a] = task[a]
           /\ port'[Len(port) + 1] = p /\ task'[Len(port) + 1] = Started
           /\ task' \in [Adrs' -> TaskType]
           /\ map' = map \cup {Len(port) + 1} /\ map' \subseteq Adrs'
<1>1. /\ Len(port) \in Nat /\ Adrs = 1..Len(port) /\ port \in Seq(PortInfo)
      /\ task \in [1..Len(port) -> TaskType] /\ map \subseteq 1..Len(port)
  BY Structures
<1>2. port' = Append(port, p) /\ task' = Append(task, Started) /\ map' = map \cup {Len(port) + 1}
  BY DEF Added
<1>3. /\ port' \in Seq(PortInfo) /\ Len(port') = Len(port) + 1
      /\ \A a \in 1..Len(port) : port'[a] = port[a]
      /\ port'[Len(port) + 1] = p
  BY <1>1, <1>2, AppendProperties
<1>4. Started \in TaskType
  BY Numbers DEF Started, TaskType
<1>5. task \in Seq(TaskType) /\ Len(task) = Len(port)
  <2>1. task \in Seq(TaskType)
    BY <1>1, SeqDef
  <2>2. Len(task) \in Nat /\ DOMAIN task = 1..Len(task) /\ DOMAIN task = 1..Len(port)
    BY <1>1, <2>1, LenProperties
  <2> QED
    BY <1>1, <2>1, <2>2
<1>6. /\ task' \in Seq(TaskType) /\ Len(task') = Len(port) + 1
      /\ \A a \in 1..Len(port) : task'[a] = task[a]
      /\ task'[Len(port) + 1] = Started
  BY <1>2, <1>4, <1>5, AppendProperties
<1>7. Adrs' = 1..(Len(port) + 1)
  BY <1>1, <1>3, LenProperties DEF Adrs
<1>8. task' \in [Adrs' -> TaskType]
  BY <1>1, <1>6, <1>7, LenProperties
<1>9. map' \subseteq Adrs'
  <2>1. \A a \in map : a \in 1..(Len(port) + 1)
    BY <1>1
  <2>2. Len(port) + 1 \in 1..(Len(port) + 1)
    BY <1>1
  <2> QED
    BY <1>2, <1>7, <2>1, <2>2, Zenon
<1>10. \A a \in Adrs : port'[a] = port[a] /\ task'[a] = task[a]
  BY <1>1, <1>3, <1>6
<1> QED
  BY <1>2, <1>3, <1>6, <1>7, <1>8, <1>9, <1>10

\* A structure is freed.
LEMMA DelFacts ==
    ASSUME TypeInv, NEW d \in map, poflr_del_port(d)
    PROVE  /\ port' \in Seq(PortInfo) /\ Len(port') = Len(port) /\ Adrs' = Adrs
           /\ \A a \in Adrs \ {d} : port'[a] = port[a] /\ task'[a] = task[a]
           /\ task' \in [Adrs' -> TaskType]
           /\ map' = map \ {d} /\ map' \subseteq Adrs'
<1>1. /\ Adrs = 1..Len(port) /\ task \in [1..Len(port) -> TaskType] /\ map \subseteq Adrs
      /\ task[d] \in TaskType /\ d \in 1..Len(port)
  BY Structures
<1>2. /\ port' = [port EXCEPT ![d] = Zeroed] /\ map' = map \ {d}
      /\ task' = [task EXCEPT ![d] = IF task[d].pc = "wait" THEN Ended ELSE task[d]]
  BY DEF poflr_del_port
<1>3. /\ port' \in Seq(PortInfo) /\ Len(port') = Len(port) /\ Adrs' = Adrs
      /\ \A a \in Adrs \ {d} : port'[a] = port[a]
  BY <1>2, PortSet, ZeroedPort DEF Adrs
<1>4. Ended \in TaskType
  BY Numbers DEF Ended, TaskType
<1>5. PICK e \in TaskType : task' = [task EXCEPT ![d] = e]
  BY <1>1, <1>2, <1>4, Zenon
<1>6. task' \in [Adrs -> TaskType] /\ \A a \in Adrs \ {d} : task'[a] = task[a]
  BY <1>1, <1>5
<1> QED
  BY <1>1, <1>2, <1>3, <1>6
\* All ports of the map are disabled.
LEMMA DisabledFacts ==
    ASSUME TypeInv, port' = poflr_disable_all_port
    PROVE  /\ port' \in Seq(PortInfo) /\ Len(port') = Len(port) /\ Adrs' = Adrs
           /\ \A a \in map : /\ port'[a].name = port[a].name /\ port'[a].pofIndex = port[a].pofIndex
                             /\ port'[a].sysIndex = port[a].sysIndex /\ ~port'[a].enable
<1>1. /\ Len(port) \in Nat /\ Adrs = 1..Len(port) /\ map \subseteq Adrs
      /\ port \in [1..Len(port) -> PortInfo]
  BY Structures
<1>2. port' = [a \in Adrs |-> IF a \in map THEN [port[a] EXCEPT !.enable = FALSE] ELSE port[a]]
  BY DEF poflr_disable_all_port
<1>3. \A a \in Adrs : port[a] \in PortInfo
  BY <1>1
<1>4. \A a \in Adrs : [port[a] EXCEPT !.enable = FALSE] \in PortInfo
  BY <1>3, PortUpdate
<1>5. port' \in [1..Len(port) -> PortInfo]
  BY <1>1, <1>2, <1>3, <1>4
<1>6. port' \in Seq(PortInfo)
  BY <1>1, <1>5, SeqDef
<1>7. Len(port') = Len(port) /\ Adrs' = Adrs
  <2>1. Len(port') \in Nat /\ DOMAIN port' = 1..Len(port')
    BY <1>6, LenProperties
  <2>2. DOMAIN port' = 1..Len(port)
    BY <1>5
  <2>3. Len(port') = Len(port)
    <3>1. ASSUME NEW k \in Nat, NEW l \in Nat, 1..k = 1..l PROVE k = l
      BY <3>1
    <3> QED
      BY <1>1, <2>1, <2>2, <3>1, Zenon
  <2> QED
    BY <1>1, <2>2, <2>3 DEF Adrs
<1>8. ASSUME NEW a \in map
      PROVE  /\ port'[a].name = port[a].name /\ port'[a].pofIndex = port[a].pofIndex
             /\ port'[a].sysIndex = port[a].sysIndex /\ ~port'[a].enable
  <2>1. port'[a] = [port[a] EXCEPT !.enable = FALSE] /\ port[a] \in PortInfo
    BY <1>1, <1>2, <1>3
  <2> QED
    BY <2>1 DEF PortInfo
<1> QED
  BY <1>6, <1>7, <1>8

\* The job of one task is set.
LEMMA JobSet ==
    ASSUME TypeInv, NEW t \in Tasks, NEW j \in JobType, job' = [job EXCEPT ![t] = j]
    PROVE  /\ job' \in [Tasks -> JobType] /\ job'[t] = j
           /\ \A u \in Tasks \ {t} : job'[u] = job[u]
<1>1. job \in [Tasks -> JobType]
  BY DEF TypeInv, JobsType
<1> QED
  BY <1>1

\* The jobs keep their types when one of them is set.
LEMMA JobsTypeKept ==
    ASSUME TypeInv, NEW t \in Tasks, NEW j \in JobType, job' = [job EXCEPT ![t] = j],
           Adrs \subseteq Adrs', j.obj \in Adrs' \cup {0}, j.next \in Adrs' \cup {0}
    PROVE  JobsType'
<1>1. /\ job' \in [Tasks -> JobType] /\ job'[t] = j
      /\ \A u \in Tasks \ {t} : job'[u] = job[u]
  BY JobSet
<1>2. ASSUME NEW u \in Tasks
      PROVE  job'[u].obj \in Adrs' \cup {0} /\ job'[u].next \in Adrs' \cup {0}
  <2>1. CASE u = t
    BY <1>1, <2>1
  <2>2. CASE u # t
    <3>1. job'[u] = job[u]
      BY <1>1, <2>2
    <3>2. job[u].obj \in Adrs \cup {0} /\ job[u].next \in Adrs \cup {0}
      BY DEF TypeInv, JobsType
    <3> QED
      BY <3>1, <3>2
  <2> QED
    BY <2>1, <2>2
<1> QED
  BY <1>1, <1>2 DEF JobsType

\* The reports are messages.
LEMMA ReportType ==
    ASSUME NEW p \in PortInfo
    PROVE  /\ port_report_fill_msg(p) \in MsgType
           /\ port_report_fill_msg(p).id = p.pofIndex /\ port_report_fill_msg(p).name = p.name
  BY DEF PortInfo, port_report_fill_msg, MsgType

LEMMA ToldType ==
    ASSUME TypeInv, NEW m \in MsgType, NEW reason, ctl' = Told(reason, m)
    PROVE  ctl' \in SUBSET MsgType /\ ctl' \subseteq ctl \cup {m}
<1>1. ctl \in SUBSET MsgType
  BY DEF TypeInv, ChanType
<1>2. ctl' \subseteq ctl \cup {m}
  BY DEF Told
<1> QED
  BY <1>1, <1>2

\* A deleted port is not told of anew.
LEMMA ToldDelete ==
    ASSUME NEW m, ctl' = Told("DELETE", m)
    PROVE  ctl' \subseteq ctl
  BY DEF Told
-----------------------------------------------------------------------------
(* What a step leaves alone, and which parts of the invariant stay.        *)

\* No port is new, and none has another name or index.
SamePorts ==
    /\ map' \subseteq map
    /\ \A a \in map' : port'[a].name = port[a].name /\ port'[a].pofIndex = port[a].pofIndex
SameOwn ==
    \A a \in map' : /\ port'[a].sysIndex = port[a].sysIndex
                    /\ task'[a].bound \in {task[a].bound, port[a].sysIndex}
NoNewAdding ==
    \A t \in Tasks : job'[t].pc \in {"set", "open"} =>
                        job[t].pc \in {"set", "open"} /\ job'[t].name = job[t].name
KnownFromPorts ==
    \A v \in Known' : v \in Known \/ \E a \in map : v.id = port[a].pofIndex /\ v.name = port[a].name

LEMMA HashFrame ==
    ASSUME HashInv, SamePorts, NoNewAdding
    PROVE  HashInv'
<1>1. \A a \in map' : a \in map /\ port'[a].name = port[a].name
  BY DEF SamePorts
<1>2. ASSUME NEW a \in map', NEW b \in map', a # b
      PROVE  port'[a].name = "" \/ Hash(port'[a].name) # Hash(port'[b].name)
  BY <1>1, <1>2 DEF HashInv
<1>3. ASSUME NEW t \in Tasks, job'[t].pc \in {"set", "open"}
      PROVE  /\ job'[t].name \in Names
             /\ \A a \in map' : Hash(port'[a].name) # Hash(job'[t].name)
  <2>1. job[t].pc \in {"set", "open"} /\ job'[t].name = job[t].name
    BY <1>3 DEF NoNewAdding
  <2>2. job[t].name \in Names /\ \A a \in map : Hash(port[a].name) # Hash(job[t].name)
    BY <2>1 DEF HashInv, Adding
  <2> QED
    BY <1>1, <2>1, <2>2
<1> QED
  BY <1>2, <1>3 DEF HashInv, Hash, Adding

LEMMA OwedFinite == IsFiniteSet(Owed) /\ Cardinality(Owed) \in Nat
<1>1. Owed \in SUBSET Names /\ IsFiniteSet(Names)
  BY PortsAssumption, Zenon DEF Owed
<1>2. IsFiniteSet(Owed)
  BY <1>1, FS_Subset
<1> QED
  BY <1>2, FS_CardinalityType

LEMMA OwedKept ==
    ASSUME SamePorts, map' = map, sys' = sys
    PROVE  Owed' = Owed
<1>1. \A a \in map : port'[a].name = port[a].name
  BY DEF SamePorts
<1> QED
  BY <1>1 DEF Owed

LEMMA CountFrame ==
    ASSUME CountInv, halted = "no", Len(port') = Len(port), custom' = custom, lastSys' = lastSys,
           ~custom => Owed' = Owed, ~custom => (Vanished' => Vanished),
           job'["listener"].pc \in {"set", "open"} => job["listener"].pc \in {"set", "open"},
           TypeInv
    PROVE  CountInv'
<1>1. Len(port) \in Nat
  BY Structures
<1>2. Cardinality(Owed) \in Nat
  BY OwedFinite
<1>3. lastSys \in Nat /\ MaxSys \in Nat
  BY Numbers DEF TypeInv, SysType
<1>4. CASE custom
  <2>1. Len(port) + (IF job["listener"].pc \in {"set", "open"} THEN 1 ELSE 0) <= MaxSys
    BY <1>4 DEF CountInv, Adding
  <2>2. Len(port') + (IF job'["listener"].pc \in {"set", "open"} THEN 1 ELSE 0) <= MaxSys
    BY <1>1, <1>3, <2>1
  <2> QED
    BY <1>4, <2>2 DEF CountInv, Adding
<1>5. CASE ~custom
  <2>1. Len(port) + Cardinality(Owed) + (IF Vanished THEN 1 ELSE 0) <= lastSys
    BY <1>5 DEF CountInv
  <2>2. Cardinality(Owed') = Cardinality(Owed) /\ (Vanished' => Vanished)
    BY <1>5
  <2>3. Len(port') + Cardinality(Owed') + (IF Vanished' THEN 1 ELSE 0) <= lastSys'
    BY <1>1, <1>2, <1>3, <2>1, <2>2
  <2> QED
    BY <1>5, <2>3 DEF CountInv
<1> QED
  BY <1>4, <1>5

LEMMA OwnFrame ==
    ASSUME OwnInv, SamePorts, SameOwn, sys' = sys, lastSys' = lastSys
    PROVE  OwnInv'
<1>1. \A a \in map' : a \in map /\ port'[a].name = port[a].name
  BY DEF SamePorts
<1>2. ASSUME NEW a \in map' PROVE Own(a)' \subseteq Own(a)
  BY DEF SameOwn, Own
<1>3. \A n, m \in Names : sys[n] = sys[m] /\ sys[n] # 0 => n = m
  BY DEF OwnInv
<1>4. \A n \in Names : sys[n] <= lastSys
  BY DEF OwnInv
<1>5. ASSUME NEW a \in map', NEW b \in map', a # b PROVE Own(a)' \cap Own(b)' = {}
  <2>1. Own(a) \cap Own(b) = {}
    BY <1>1, <1>5 DEF OwnInv
  <2> QED
    BY <1>2, <2>1
<1>6. ASSUME NEW a \in map', NEW n \in Names, sys[n] \in Own(a)' PROVE port'[a].name = n
  <2>1. sys[n] \in Own(a)
    BY <1>2, <1>6
  <2> QED
    BY <1>1, <2>1 DEF OwnInv
<1>7. ASSUME NEW a \in map', NEW i \in Own(a)' PROVE i <= lastSys
  BY <1>1, <1>2 DEF OwnInv
<1> QED
  BY <1>3, <1>4, <1>5, <1>6, <1>7 DEF OwnInv
LEMMA IndexFrame ==
    ASSUME IndexInv, halted = "no", SamePorts, KnownFromPorts,
           Len(port') = Len(port), portIndex' = portIndex,
           \A m \in mod' : m \in mod \/ \E v \in Known : m.id = v.id
    PROVE  IndexInv'
<1>1. \A a \in map' : a \in map /\ port'[a].name = port[a].name /\ port'[a].pofIndex = port[a].pofIndex
  BY DEF SamePorts
<1>2. ASSUME Len(port) < MaxSys
      PROVE  /\ 1 <= portIndex /\ portIndex <= Len(port) + 1
             /\ \A a \in map' : port'[a].pofIndex < portIndex
             /\ \A v \in Known' : v.id < portIndex
             /\ \A m \in mod' : m.id < portIndex
  <2>1. /\ 1 <= portIndex /\ portIndex <= Len(port) + 1
        /\ \A a \in map : port[a].pofIndex < portIndex
        /\ \A v \in Known : v.id < portIndex
        /\ \A m \in mod : m.id < portIndex
    BY <1>2 DEF IndexInv
  <2> QED
    BY <1>1, <2>1 DEF KnownFromPorts
<1>3. /\ \A a, b \in map : port[a].pofIndex = port[b].pofIndex => port[a].name = port[b].name
      /\ \A a \in map, v \in Known : port[a].pofIndex = v.id => port[a].name = v.name
      /\ \A a \in map : port[a].pofIndex = 0 => port[a].name = ""
      /\ \A v \in Known : v.id = 0 => v.name = ""
  BY DEF IndexInv
<1>4. ASSUME NEW a \in map', NEW b \in map', port'[a].pofIndex = port'[b].pofIndex
      PROVE  port'[a].name = port'[b].name
  <2>1. a \in map /\ b \in map /\ port[a].pofIndex = port[b].pofIndex
    BY <1>1, <1>4
  <2>2. port[a].name = port[b].name
    BY <1>3, <2>1, Zenon
  <2> QED
    BY <1>1, <2>2
<1>5. ASSUME NEW a \in map', NEW v \in Known', port'[a].pofIndex = v.id
      PROVE  port'[a].name = v.name
  <2>1. a \in map /\ port[a].pofIndex = v.id /\ port'[a].name = port[a].name
    BY <1>1, <1>5
  <2>2. CASE v \in Known
    BY <1>3, <2>1, <2>2
  <2>3. ASSUME NEW b \in map, v.id = port[b].pofIndex, v.name = port[b].name
        PROVE  port[a].name = v.name
    BY <1>3, <2>1, <2>3
  <2> QED
    BY <2>1, <2>2, <2>3 DEF KnownFromPorts
<1>6. \A a \in map' : port'[a].pofIndex = 0 => port'[a].name = ""
  BY <1>1, <1>3
<1>7. ASSUME NEW v \in Known', v.id = 0 PROVE v.name = ""
  BY <1>3, <1>7 DEF KnownFromPorts
<1> QED
  BY <1>2, <1>4, <1>5, <1>6, <1>7 DEF IndexInv

LEMMA GrantFrame ==
    ASSUME GrantInv, SamePorts, \A a \in map' : port'[a].enable => port[a].enable,
           mod' \subseteq mod, granted' = granted, conn' # "down" => conn # "down"
    PROVE  GrantInv'
<1>1. \A a \in map' : a \in map /\ port'[a].name = port[a].name /\ port'[a].pofIndex = port[a].pofIndex
  BY DEF SamePorts
<1>2. ASSUME NEW m \in mod', m.flag
      PROVE  /\ \A a \in map' : port'[a].pofIndex = m.id => port'[a].name \in granted
             /\ m.id = 0 => "" \in granted
  <2>1. /\ \A a \in map : port[a].pofIndex = m.id => port[a].name \in granted
        /\ m.id = 0 => "" \in granted
    BY <1>2 DEF GrantInv
  <2> QED
    BY <1>1, <2>1
<1>3. ASSUME NEW a \in map', conn' # "down", port'[a].enable PROVE port'[a].name \in granted
  <2>1. conn # "down" /\ a \in map /\ port[a].enable
    BY <1>1, <1>3
  <2>2. port[a].name \in granted
    BY <2>1 DEF GrantInv, EnabledAsMeant
  <2> QED
    BY <1>1, <2>2
<1> QED
  BY <1>2, <1>3 DEF GrantInv, EnabledAsMeant
LEMMA StillPorts ==
    ASSUME UNCHANGED <<port, map, task>>
    PROVE  /\ SamePorts /\ SameOwn /\ Len(port') = Len(port) /\ Adrs' = Adrs
           /\ StructType => StructType'
  BY DEF SamePorts, SameOwn, StructType, Adrs

\* A task takes up its next work; no port changes.
JobChange(t, j) ==
    /\ halted = "no" /\ t \in Tasks /\ j \in JobType /\ job' = [job EXCEPT ![t] = j]
    /\ j.obj \in Adrs \cup {0} /\ j.next \in Adrs \cup {0} /\ MayDo(t, j)
    /\ \A v \in j.msg : v \in Known \/ \E a \in map : v.id = port[a].pofIndex /\ v.name = port[a].name
    /\ UNCHANGED <<port, map, task, sys, lastSys, portIndex, mod>>
    /\ custom' = custom /\ granted' = granted
    /\ ctl' \subseteq Known
    /\ conn' # "down" => conn # "down"
    /\ FlagType'

LEMMA JobChangeRest ==
    ASSUME IInv, NEW t, NEW j, JobChange(t, j)
    PROVE  /\ TypeInv' /\ ControlInv' /\ OwnInv'
           /\ MaxSys < IndexRange => IndexInv' /\ GrantInv'
<1>1. TypeInv /\ ControlInv /\ OwnInv /\ (MaxSys < IndexRange => IndexInv /\ GrantInv)
  BY DEF IInv
<1>2. /\ halted = "no" /\ t \in Tasks /\ j \in JobType /\ job' = [job EXCEPT ![t] = j]
      /\ j.obj \in Adrs \cup {0} /\ j.next \in Adrs \cup {0} /\ MayDo(t, j)
      /\ UNCHANGED <<port, map, task, sys, lastSys, portIndex, mod>>
      /\ custom' = custom /\ granted' = granted
      /\ ctl' \subseteq Known
      /\ conn' # "down" => conn # "down"
      /\ FlagType'
  BY DEF JobChange
<1>3. /\ SamePorts /\ SameOwn /\ Len(port') = Len(port) /\ Adrs' = Adrs
      /\ StructType => StructType'
  BY <1>2, StillPorts
<1>4. job' \in [Tasks -> JobType] /\ job'[t] = j /\ \A u \in Tasks \ {t} : job'[u] = job[u]
  BY <1>1, <1>2, JobSet
<1>5. TypeInv'
  <2>1. StructType'
    BY <1>1, <1>3 DEF TypeInv
  <2>2. JobsType'
    BY <1>1, <1>2, <1>3, JobsTypeKept
  <2>3. SysType'
    BY <1>1, <1>2 DEF TypeInv, SysType
  <2>4. ChanType'
    <3>1. job["main"].msg \in SUBSET MsgType
      <4>1. job["main"] \in JobType
        BY <1>1 DEF TypeInv, JobsType, Tasks
      <4> QED
        BY <4>1 DEF JobType
    <3>2. ctl \in SUBSET MsgType /\ mod \in SUBSET ModType
      BY <1>1 DEF TypeInv, ChanType
    <3> QED
      BY <1>2, <3>1, <3>2 DEF ChanType, Known
  <2> QED
    BY <1>2, <2>1, <2>2, <2>3, <2>4 DEF TypeInv
<1>6. ControlInv'
  <2>1. ASSUME NEW u \in Tasks PROVE MayDo(u, job'[u])
    BY <1>1, <1>2, <1>4 DEF ControlInv
  <2>2. ASSUME NEW u \in Tasks PROVE MayDo(u, job[u])'
    <3>1. MayDo(u, job'[u])
      BY <2>1
    <3> QED
      BY <1>2, <3>1, Zenon DEF MayDo
  <2> QED
    BY <2>2 DEF ControlInv
<1>7. OwnInv'
  BY <1>1, <1>2, <1>3, OwnFrame
<1>8. ASSUME MaxSys < IndexRange PROVE IndexInv' /\ GrantInv'
  <2>1. IndexInv /\ GrantInv
    BY <1>1, <1>8
  <2>2. KnownFromPorts
    <3> SUFFICES ASSUME NEW v \in Known'
                 PROVE  v \in Known \/ \E a \in map : v.id = port[a].pofIndex /\ v.name = port[a].name
      BY DEF KnownFromPorts
    <3>1. CASE v \in ctl'
      BY <1>2, <3>1
    <3>2. CASE v \in job'["main"].msg
      <4>1. CASE t = "main"
        BY <1>4, <3>2, <4>1 DEF JobChange
      <4>2. CASE t # "main"
        <5>1. job'["main"] = job["main"]
          BY <1>4, <4>2 DEF Tasks
        <5> QED
          BY <3>2, <5>1 DEF Known
      <4> QED
        BY <4>1, <4>2
    <3> QED
      BY <3>1, <3>2 DEF Known
  <2>3. IndexInv'
    BY <1>2, <1>3, <2>1, <2>2, IndexFrame
  <2>4. GrantInv'
    BY <1>2, <1>3, <2>1, GrantFrame
  <2> QED
    BY <2>3, <2>4
<1> QED
  BY <1>5, <1>6, <1>7, <1>8

\* The work is not that of adding a port, or it was so before.
LEMMA JobChangeStep ==
    ASSUME IInv, NEW t, NEW j, JobChange(t, j),
           j.pc # "set",
           j.pc = "open" => job[t].pc = "set" /\ j.name = job[t].name
    PROVE  IInv'
<1>1. /\ TypeInv' /\ ControlInv' /\ OwnInv' /\ (MaxSys < IndexRange => IndexInv' /\ GrantInv')
  BY JobChangeRest
<1>2. TypeInv /\ HashInv /\ CountInv
  BY DEF IInv
<1>3. /\ halted = "no" /\ t \in Tasks /\ j \in JobType /\ job' = [job EXCEPT ![t] = j]
      /\ UNCHANGED <<port, map, task, sys, lastSys>> /\ custom' = custom
  BY DEF JobChange
<1>4. SamePorts /\ Len(port') = Len(port)
  BY <1>3, StillPorts
<1>5. job'[t] = j /\ \A u \in Tasks \ {t} : job'[u] = job[u]
  BY <1>2, <1>3, JobSet
<1>6. NoNewAdding
  BY <1>5 DEF NoNewAdding
<1>7. HashInv'
  BY <1>2, <1>4, <1>6, HashFrame
<1>8. Vanished' => Vanished
  <2>1. CASE t = "detect"
    <3>1. job'["detect"].pc # "set"
      BY <1>5, <2>1
    <3> QED
      BY <3>1 DEF Vanished
  <2>2. CASE t # "detect"
    <3>1. job'["detect"] = job["detect"]
      BY <1>5, <2>2 DEF Tasks
    <3> QED
      BY <1>3, <3>1 DEF Vanished, Present
  <2> QED
    BY <2>1, <2>2
<1>9. Owed' = Owed
  BY <1>3, <1>4, OwedKept
<1>10. job'["listener"].pc \in {"set", "open"} => job["listener"].pc \in {"set", "open"}
  BY <1>6 DEF NoNewAdding, Tasks
<1>11. CountInv'
  BY <1>2, <1>3, <1>4, <1>8, <1>9, <1>10, CountFrame
<1> QED
  BY <1>1, <1>7, <1>11 DEF IInv
-----------------------------------------------------------------------------
(* The steps that change the jobs only.                                    *)

LEMMA TasksAre == "detect" \in Tasks /\ "main" \in Tasks /\ "listener" \in Tasks
  BY DEF Tasks

LEMMA PcsAre == \A p \in {"idle", "old", "info", "end", "new", "set", "open", "fill", "send"} : p \in Pcs
  BY DEF Pcs

LEMMA MapInAdrs == ASSUME TypeInv PROVE map \cup {0} \subseteq Adrs \cup {0}
  BY DEF TypeInv, StructType

LEMMA DetectBegin ==
    ASSUME IInv, detect_begin
    PROVE  IInv'
<1> DEFINE j == Traverse("detect", "old")
<1>1. TypeInv
  BY DEF IInv
<1>2. /\ j \in JobType /\ j.obj \in map \cup {0} /\ j.next \in map \cup {0}
      /\ j.name = "" /\ j.msg = {} /\ j.pc \in {"end", "old"}
  BY <1>1, TraverseJob, PcsAre
<1>3. /\ halted = "no" /\ job' = [job EXCEPT !["detect"] = j]
      /\ UNCHANGED <<port, map, task, sys, lastSys, portIndex, mod>>
      /\ custom' = custom /\ granted' = granted /\ ctl' = ctl /\ conn' = conn
  BY DEF detect_begin, system, channel
<1>4. FlagType'
  BY <1>1, <1>3 DEF TypeInv, FlagType, detect_begin, system
<1> HIDE DEF j
<1>5. MayDo("detect", j)
  BY <1>2 DEF MayDo
<1>6. JobChange("detect", j)
  BY <1>1, <1>2, <1>3, <1>4, <1>5, TasksAre, MapInAdrs DEF JobChange, Known
<1> QED
  BY <1>2, <1>6, JobChangeStep

LEMMA DetectList ==
    ASSUME IInv, detect_list
    PROVE  IInv'
<1> DEFINE j == NextName("detect", Interfaces)
<1>1. TypeInv
  BY DEF IInv
<1>2. Interfaces \in SUBSET Names /\ (custom => Interfaces = {})
  BY DEF Interfaces
<1>3. /\ j \in JobType /\ j.obj = 0 /\ j.next = 0 /\ j.name = "" /\ j.msg = {}
      /\ j.pc \in {"idle", "new"} /\ (Interfaces = {} => j = Idle)
  <2>1. IsNextName(j, Interfaces)
    BY <1>2, NextNameJob, Zenon
  <2> QED
    BY <2>1 DEF IsNextName, NextName
<1>4. /\ halted = "no" /\ job' = [job EXCEPT !["detect"] = j]
      /\ UNCHANGED <<port, map, task, sys, lastSys, portIndex, mod>>
      /\ custom' = custom /\ granted' = granted /\ ctl' = ctl /\ conn' = conn
  BY DEF detect_list, system, channel
<1>5. FlagType'
  BY <1>1, <1>4 DEF TypeInv, FlagType, detect_list, system
<1> HIDE DEF j
<1>6. MayDo("detect", j)
  BY <1>2, <1>3, IdleJob DEF MayDo
<1>7. JobChange("detect", j)
  BY <1>1, <1>3, <1>4, <1>5, <1>6, TasksAre DEF JobChange, Known
<1> QED
  BY <1>3, <1>7, JobChangeStep

LEMMA GetConfig ==
    ASSUME IInv, get_config
    PROVE  IInv'
<1> DEFINE j == Traverse("main", "fill")
<1>1. TypeInv
  BY DEF IInv
<1>2. /\ j \in JobType /\ j.obj \in map \cup {0} /\ j.next \in map \cup {0}
      /\ j.name = "" /\ j.msg = {} /\ j.pc \in {"end", "fill"}
  BY <1>1, TraverseJob, PcsAre
<1>3. /\ halted = "no" /\ job' = [job EXCEPT !["main"] = j]
      /\ UNCHANGED <<port, map, task, sys, lastSys, portIndex, mod>>
      /\ custom' = custom /\ granted' = granted /\ ctl' = ctl /\ conn' = conn
  BY DEF get_config, system, channel
<1>4. FlagType'
  BY <1>1, <1>3 DEF TypeInv, FlagType, get_config, system
<1> HIDE DEF j
<1>5. MayDo("main", j)
  BY <1>2 DEF MayDo
<1>6. JobChange("main", j)
  BY <1>1, <1>2, <1>3, <1>4, <1>5, TasksAre, MapInAdrs DEF JobChange, Known
<1> QED
  BY <1>2, <1>6, JobChangeStep

LEMMA ReplyFill ==
    ASSUME IInv, reply_fill
    PROVE  IInv'
<1> DEFINE a == job["main"].obj
           m == port_report_fill_msg(port[a])
           k == [job["main"] EXCEPT !.pc = "send"]
           j == [k EXCEPT !.msg = {m}]
<1>1. TypeInv
  BY DEF IInv
<1>2. /\ halted = "no" /\ a \in map
      /\ job' = [job EXCEPT !["main"].pc = "send", !["main"].msg = {m}]
      /\ UNCHANGED <<port, map, task, sys, lastSys, portIndex, mod>>
      /\ custom' = custom /\ granted' = granted /\ ctl' = ctl /\ conn' = conn
  BY DEF reply_fill, system, channel
<1>3. job["main"] \in JobType /\ job \in [Tasks -> JobType]
  BY <1>1, TasksAre DEF TypeInv, JobsType
<1>4. job["main"].obj \in Adrs \cup {0} /\ job["main"].next \in Adrs \cup {0}
  BY <1>1, TasksAre DEF TypeInv, JobsType
<1>5. port[a] \in PortInfo
  BY <1>1, <1>2, Structures
<1>6. m \in MsgType /\ m.id = port[a].pofIndex /\ m.name = port[a].name
  BY <1>5, ReportType
<1>7. k \in JobType
  BY <1>3, JobUpdate, PcsAre
<1>8. job' = [job EXCEPT !["main"] = j]
  BY <1>2, <1>3, TasksAre
<1>9. j.pc = "send" /\ j.msg = {m} /\ j.obj = job["main"].obj /\ j.next = job["main"].next
  BY <1>3 DEF JobType
<1>10. j \in JobType
  <2> HIDE DEF k, m
  <2> QED  BY <1>6, <1>7, JobUpdate
<1>11. FlagType'
  BY <1>1, <1>2 DEF TypeInv, FlagType, reply_fill, system
<1> HIDE DEF j, m
<1>12. MayDo("main", j)
  BY <1>9 DEF MayDo
<1>13. JobChange("main", j)
  BY <1>2, <1>4, <1>6, <1>8, <1>9, <1>10, <1>11, <1>12, TasksAre DEF JobChange, Known
<1> QED
  BY <1>9, <1>13, JobChangeStep

LEMMA ReplySend ==
    ASSUME IInv, reply_send
    PROVE  IInv'
<1> DEFINE j == Step("main", map, "fill")
<1>1. TypeInv
  BY DEF IInv
<1>2. /\ j \in JobType /\ j.obj \in Adrs \cup {0} /\ j.next \in map \cup {0}
      /\ j.name = "" /\ j.msg = {} /\ j.pc \in {"end", "fill"}
  BY <1>1, StepJob, PcsAre, TasksAre
<1>3. /\ halted = "no" /\ job' = [job EXCEPT !["main"] = j]
      /\ UNCHANGED <<port, map, task, sys, lastSys, portIndex, mod>>
      /\ custom' = custom /\ granted' = granted /\ conn' = conn
  BY DEF reply_send, system, channel
<1>4. ctl' \subseteq Known
  <2>1. PICK m \in job["main"].msg : ctl' = Told("ADD", m)
    BY DEF reply_send
  <2>2. job["main"] \in JobType
    BY <1>1, TasksAre DEF TypeInv, JobsType
  <2>3. m \in MsgType
    BY <2>2 DEF JobType
  <2>4. ctl' \subseteq ctl \cup {m}
    BY <1>1, <2>1, <2>3, ToldType
  <2> QED
    BY <2>4 DEF Known
<1>5. FlagType'
  BY <1>1, <1>3 DEF TypeInv, FlagType, reply_send, system
<1> HIDE DEF j
<1>6. MayDo("main", j)
  BY <1>2 DEF MayDo
<1>7. JobChange("main", j)
  BY <1>1, <1>2, <1>3, <1>4, <1>5, <1>6, TasksAre, MapInAdrs DEF JobChange
<1> QED
  BY <1>2, <1>7, JobChangeStep

LEMMA ReplyEnd ==
    ASSUME IInv, reply_end
    PROVE  IInv'
<1>1. TypeInv
  BY DEF IInv
<1>2. /\ halted = "no" /\ job' = [job EXCEPT !["main"] = Idle]
      /\ UNCHANGED <<port, map, task, sys, lastSys, portIndex, mod>>
      /\ custom' = custom /\ granted' = granted /\ ctl' = ctl
      /\ conn' = IF conn = "open" THEN "run" ELSE conn
  BY DEF reply_end, system, channel
<1>3. FlagType'
  BY <1>1, <1>2 DEF TypeInv, FlagType, reply_end, system
<1>4. MayDo("main", Idle)
  BY IdleJob DEF MayDo
<1>5. JobChange("main", Idle)
  BY <1>2, <1>3, <1>4, TasksAre, IdleJob DEF JobChange, Known
<1> QED
  BY <1>5, IdleJob, JobChangeStep
\* A name that is wanted is that of an interface, and its hash is not there.
LEMMA WantedHash ==
    ASSUME TypeInv, NEW n, Wanted(n)
    PROVE  n \in Names /\ Present(n) /\ \A a \in map : Hash(port[a].name) # Hash(n)
<1> DEFINE S == {a \in map : Hash(port[a].name) = Hash(n)}
<1>1. Newest(S) = 0 /\ Present(n)
  BY DEF Wanted, poflr_get_port_with_name
<1>2. S \in SUBSET map
  OBVIOUS
<1>3. S = {}
  <2> HIDE DEF S
  <2> QED  BY <1>1, <1>2, NewestIn
<1>4. \A a \in map : Hash(port[a].name) # Hash(n)
  BY <1>3
<1> QED
  BY <1>1, <1>4 DEF Present

\* A task begins to add an interface.
LEMMA BeginAdd ==
    ASSUME IInv, NEW t, NEW n \in Names, NEW rest \in SUBSET Names, JobChange(t, Adds(n, rest)),
           Wanted(n), t = "listener" => custom /\ Len(port) < MaxSys
    PROVE  IInv'
<1> DEFINE j == Adds(n, rest)
<1>1. /\ TypeInv' /\ ControlInv' /\ OwnInv' /\ (MaxSys < IndexRange => IndexInv' /\ GrantInv')
  BY JobChangeRest
<1>2. TypeInv /\ HashInv /\ CountInv /\ ControlInv
  BY DEF IInv
<1>3. /\ halted = "no" /\ t \in Tasks /\ j \in JobType /\ job' = [job EXCEPT ![t] = j]
      /\ UNCHANGED <<port, map, task, sys, lastSys>> /\ custom' = custom
  BY DEF JobChange
<1>4. SamePorts /\ Len(port') = Len(port)
  BY <1>3, StillPorts
<1>5. j.pc = "set" /\ j.name = n
  BY AddJob
<1> HIDE DEF j
<1>6. job'[t] = j /\ \A u \in Tasks \ {t} : job'[u] = job[u]
  BY <1>2, <1>3, JobSet
<1>7. Present(n) /\ \A a \in map : Hash(port[a].name) # Hash(n)
  BY <1>2, WantedHash
<1>8. HashInv'
  <2>1. \A a, b \in map : a # b => port[a].name = "" \/ Hash(port[a].name) # Hash(port[b].name)
    BY <1>2 DEF HashInv
  <2>2. ASSUME NEW u \in Tasks, job'[u].pc \in {"set", "open"}
        PROVE  job'[u].name \in Names /\ \A a \in map : Hash(port[a].name) # Hash(job'[u].name)
    <3>1. CASE u = t
      BY <1>5, <1>6, <1>7, <3>1
    <3>2. CASE u # t
      BY <1>2, <1>6, <2>2, <3>2 DEF HashInv, Adding
    <3> QED
      BY <3>1, <3>2
  <2> QED
    BY <1>3, <2>1, <2>2 DEF HashInv, Hash, Adding
<1>9. Owed' = Owed
  BY <1>3, <1>4, OwedKept
<1>10. CASE t = "listener"
  <2>1. Len(port) + 1 <= MaxSys /\ custom /\ MaxSys \in Nat /\ Len(port) \in Nat
    BY <1>2, <1>10, Structures, Numbers
  <2>2. CountInv'
    BY <1>3, <2>1 DEF CountInv
  <2> QED
    BY <1>1, <1>8, <2>2 DEF IInv
<1>11. CASE t = "detect"
  <2>1. job'["detect"] = j /\ job'["listener"] = job["listener"]
    BY <1>6, <1>11 DEF Tasks
  <2>2. ~Vanished'
    BY <1>3, <1>5, <1>7, <2>1 DEF Vanished, Present
  <2>3. CountInv'
    BY <1>2, <1>3, <1>4, <1>9, <2>1, <2>2, CountFrame
  <2> QED
    BY <1>1, <1>8, <2>3 DEF IInv
<1>12. t # "main"
  <2>1. MayDo(t, j)
    BY DEF JobChange, j
  <2> QED
    BY <1>5, <2>1 DEF MayDo
<1> QED
  BY <1>3, <1>10, <1>11, <1>12 DEF Tasks

LEMMA DetectNew ==
    ASSUME IInv, detect_new
    PROVE  IInv'
<1>1. TypeInv /\ ControlInv
  BY DEF IInv
<1>2. /\ halted = "no" /\ job["detect"].pc = "new"
      /\ UNCHANGED <<port, map, task, sys, lastSys, portIndex, mod>>
      /\ custom' = custom /\ granted' = granted /\ ctl' = ctl /\ conn' = conn
  BY DEF detect_new, system, channel
<1>3. PICK n \in job["detect"].todo :
         job' = [job EXCEPT !["detect"] =
                    IF Wanted(n) THEN Adds(n, job["detect"].todo \ {n})
                    ELSE NextName("detect", job["detect"].todo \ {n})]
  BY DEF detect_new
<1> DEFINE rest == job["detect"].todo \ {n}
<1>4. n \in Names /\ rest \in SUBSET Names
  <2>1. job["detect"] \in JobType
    BY <1>1, TasksAre DEF TypeInv, JobsType
  <2> QED
    BY <2>1 DEF JobType
<1>5. ~custom
  <2>1. MayDo("detect", job["detect"])
    BY <1>1, TasksAre DEF ControlInv
  <2> QED
    BY <1>2, <2>1 DEF MayDo
<1>6. FlagType'
  BY <1>1, <1>2 DEF TypeInv, FlagType, detect_new, system
<1> HIDE DEF rest
<1>7. CASE Wanted(n)
  <2> DEFINE j == Adds(n, rest)
  <2>1. job' = [job EXCEPT !["detect"] = j]
    BY <1>3, <1>7 DEF rest
  <2>2. j \in JobType /\ j.obj = 0 /\ j.next = 0 /\ j.msg = {} /\ j.pc = "set"
    BY <1>4, AddJob
  <2> HIDE DEF j
  <2>3. MayDo("detect", j)
    BY <1>5, <2>2 DEF MayDo
  <2>4. JobChange("detect", j)
    BY <1>2, <1>6, <2>1, <2>2, <2>3, TasksAre DEF JobChange, Known
  <2> QED
    BY <1>4, <1>7, <2>4, BeginAdd DEF j
<1>8. CASE ~Wanted(n)
  <2> DEFINE j == NextName("detect", rest)
  <2>1. job' = [job EXCEPT !["detect"] = j]
    BY <1>3, <1>8 DEF rest
  <2>2. j \in JobType /\ j.obj = 0 /\ j.next = 0 /\ j.msg = {} /\ j.pc \in {"idle", "new"}
    <3>1. IsNextName(j, rest)
      BY <1>4, NextNameJob, Zenon
    <3> HIDE DEF j
    <3> QED
      BY <3>1 DEF IsNextName
  <2> HIDE DEF j
  <2>3. MayDo("detect", j)
    BY <1>5, <2>2 DEF MayDo
  <2>4. JobChange("detect", j)
    BY <1>2, <1>6, <2>1, <2>2, <2>3, TasksAre DEF JobChange, Known
  <2> QED
    BY <2>2, <2>4, JobChangeStep
<1> QED
  BY <1>7, <1>8

LEMMA AddPort ==
    ASSUME IInv, NEW n \in Names, addport(n)
    PROVE  IInv'
<1> DEFINE j == Adds(n, {})
<1>1. TypeInv
  BY DEF IInv
<1>2. /\ halted = "no" /\ custom /\ Len(port) < MaxSys /\ Wanted(n)
      /\ job' = [job EXCEPT !["listener"] = j]
      /\ UNCHANGED <<port, map, task, sys, lastSys, portIndex, mod>>
      /\ custom' = custom /\ granted' = granted /\ ctl' = ctl /\ conn' = conn
  BY DEF addport, system, channel
<1>3. {} \in SUBSET Names
  OBVIOUS
<1>4. j \in JobType /\ j.obj = 0 /\ j.next = 0 /\ j.msg = {} /\ j.pc = "set" /\ j.todo = {}
  BY <1>3, AddJob
<1>5. FlagType'
  BY <1>1, <1>2 DEF TypeInv, FlagType, addport, system
<1> HIDE DEF j
<1>6. MayDo("listener", j)
  BY <1>2, <1>4 DEF MayDo
<1>7. JobChange("listener", j)
  BY <1>2, <1>4, <1>5, <1>6, TasksAre DEF JobChange, Known
<1> QED
  BY <1>2, <1>3, <1>7, BeginAdd DEF j
-----------------------------------------------------------------------------
(* A port is added.                                                        *)

\* One task adds ports, the detect task or, with custom ports, the listener.
LEMMA Adder ==
    ASSUME ControlInv, NEW t \in Tasks, Adding(t)
    PROVE  /\ (t = "detect" /\ ~custom) \/ (t = "listener" /\ custom)
           /\ \A u \in Tasks \ {t} : ~Adding(u)
<1>1. \A u \in Tasks : MayDo(u, job[u])
  BY DEF ControlInv
<1>2. MayDo("detect", job["detect"]) /\ MayDo("main", job["main"]) /\ MayDo("listener", job["listener"])
  BY <1>1, TasksAre
<1>3. ~Adding("main")
  BY <1>2 DEF MayDo, Adding
<1>4. custom => ~Adding("detect")
  BY <1>2 DEF MayDo, Adding
<1>5. ~custom => ~Adding("listener")
  BY <1>2 DEF MayDo, Adding
<1> QED
  BY <1>3, <1>4, <1>5 DEF Tasks

\* The interface that is being added has no port.
LEMMA AddedIsOwed ==
    ASSUME HashInv, NEW t \in Tasks, Adding(t)
    PROVE  /\ job[t].name \in Names
           /\ \A a \in map : port[a].name # job[t].name
           /\ sys[job[t].name] # 0 => job[t].name \in Owed
<1>1. job[t].name \in Names /\ \A a \in map : Hash(port[a].name) # Hash(job[t].name)
  BY DEF HashInv
<1>2. \A a \in map : port[a].name # job[t].name
  BY <1>1
<1> QED
  BY <1>1, <1>2 DEF Owed

\* There is room for it.
LEMMA RoomToAdd ==
    ASSUME IInv, halted = "no", NEW t \in Tasks, Adding(t),
           sys[job[t].name] # 0 \/ job[t].pc = "set"
    PROVE  Len(port) + 1 <= MaxSys
<1>1. TypeInv /\ ControlInv /\ HashInv /\ CountInv
  BY DEF IInv
<1>2. Len(port) \in Nat /\ MaxSys \in Nat /\ Cardinality(Owed) \in Nat /\ IsFiniteSet(Owed)
  BY <1>1, Structures, Numbers, OwedFinite
<1>3. CASE t = "listener" /\ custom
  BY <1>1, <1>2, <1>3 DEF CountInv
<1>4. CASE t = "detect" /\ ~custom
  <2>1. Len(port) + Cardinality(Owed) + (IF Vanished THEN 1 ELSE 0) <= lastSys
    BY <1>1, <1>4 DEF CountInv
  <2>2. lastSys \in Nat /\ lastSys <= MaxSys
    BY <1>1, <1>2 DEF TypeInv, SysType
  <2>3. CASE Vanished
    BY <1>2, <2>1, <2>2, <2>3
  <2>4. CASE ~Vanished
    <3>1. job[t].name \in Owed
      <4>1. job[t].name \in Names
        BY <1>1, AddedIsOwed
      <4>2. sys[job[t].name] # 0
        BY <1>4, <2>4, <4>1 DEF Vanished, Present
      <4> QED
        BY <1>1, <4>2, AddedIsOwed
    <3>2. Cardinality(Owed) # 0
      BY <1>2, <3>1, FS_EmptySet
    <3> QED
      BY <1>2, <2>1, <2>2, <2>4, <3>2
  <2> QED
    BY <2>3, <2>4
<1> QED
  BY <1>1, <1>3, <1>4, Adder

\* What add_set, without the interface, and add_open have in common.
AddStep(t, p) ==
    /\ halted = "no" /\ t \in Tasks /\ Adding(t) /\ p \in PortInfo /\ ~p.enable
    /\ p.name = "" \/ p.name = job[t].name
    /\ sys[job[t].name] # 0 \/ job[t].pc = "set"
    /\ Added(p)
    /\ job' = [job EXCEPT ![t] = NextName(t, job[t].todo)]
    /\ UNCHANGED <<sys, lastSys, mod>>
    /\ custom' = custom /\ granted' = granted /\ conn' = conn /\ halted' = halted
    /\ portIndex' \in 0..(IndexRange - 1)
    /\ FlagType'

LEMMA AddCommon ==
    ASSUME IInv, NEW t, NEW p, AddStep(t, p)
    PROVE  /\ TypeInv' /\ ControlInv' /\ HashInv'
           /\ \A u \in Tasks : job'[u].pc \notin {"set", "open"} 
           /\ Known' \subseteq Known \cup {port_report_fill_msg(p)}
<1>1. TypeInv /\ ControlInv /\ HashInv
  BY DEF IInv
<1>2. /\ halted = "no" /\ t \in Tasks /\ Adding(t) /\ p \in PortInfo
      /\ p.name = "" \/ p.name = job[t].name
      /\ sys[job[t].name] # 0 \/ job[t].pc = "set"
      /\ Added(p)
      /\ job' = [job EXCEPT ![t] = NextName(t, job[t].todo)]
      /\ UNCHANGED <<sys, lastSys, mod>>
      /\ custom' = custom
      /\ portIndex' \in 0..(IndexRange - 1)
      /\ FlagType'
  BY DEF AddStep
<1> DEFINE N == Len(port) + 1
           j == NextName(t, job[t].todo)
<1>3. /\ port' \in Seq(PortInfo) /\ Len(port') = N /\ Adrs' = 1..N
      /\ \A a \in Adrs : port'[a] = port[a] /\ task'[a] = task[a]
      /\ port'[N] = p /\ task'[N] = Started
      /\ task' \in [Adrs' -> TaskType]
      /\ map' = map \cup {N} /\ map' \subseteq Adrs'
  BY <1>1, <1>2, AddedFacts
<1>4. N <= MaxSys
  BY <1>2, RoomToAdd
<1>5. Adrs = 1..Len(port) /\ Len(port) \in Nat /\ map \subseteq Adrs /\ \A a \in map : port[a] \in PortInfo
  BY <1>1, Structures
<1>6. IsNextName(j, job[t].todo)
  <2>1. job[t] \in JobType
    BY <1>1, <1>2 DEF TypeInv, JobsType
  <2>2. job[t].todo \in SUBSET Names
    BY <2>1 DEF JobType
  <2> QED
    BY <2>2, NextNameJob, Zenon
<1> HIDE DEF N, j
<1>7. j \in JobType /\ j.obj = 0 /\ j.next = 0 /\ j.msg = {} /\ j.pc \in {"idle", "new"}
  BY <1>6 DEF IsNextName
<1>8. job' = [job EXCEPT ![t] = j]
  BY <1>2 DEF j
<1>9. job' \in [Tasks -> JobType] /\ job'[t] = j /\ \A u \in Tasks \ {t} : job'[u] = job[u]
  BY <1>1, <1>2, <1>7, <1>8, JobSet
<1>10. ctl' = Told("ADD", port_report_fill_msg(p))
  BY <1>2 DEF Added, poflr_port_report
<1>11. port_report_fill_msg(p) \in MsgType
  BY <1>2, ReportType
<1>12. ctl' \in SUBSET MsgType /\ ctl' \subseteq ctl \cup {port_report_fill_msg(p)}
  BY <1>1, <1>10, <1>11, ToldType
<1>13. TypeInv'
  <2>1. StructType'
    BY <1>3, <1>4 DEF StructType
  <2>2. JobsType'
    <3>1. Adrs \subseteq Adrs'
      BY <1>3, <1>5 DEF N
    <3> QED
      BY <1>1, <1>2, <1>7, <1>8, <3>1, JobsTypeKept
  <2>3. SysType'
    BY <1>1, <1>2 DEF TypeInv, SysType
  <2>4. ChanType'
    BY <1>1, <1>2, <1>12 DEF TypeInv, ChanType
  <2> QED
    BY <1>2, <2>1, <2>2, <2>3, <2>4 DEF TypeInv
<1>14. (t = "detect" /\ ~custom) \/ (t = "listener" /\ custom)
  BY <1>1, <1>2, Adder
<1>15. ControlInv'
  <2>1. ASSUME NEW u \in Tasks PROVE MayDo(u, job'[u])
    <3>1. CASE u = t
      <4>1. t = "listener" => j.pc = "idle"
        BY <1>1, <1>2, <1>6 DEF ControlInv, MayDo, IsNextName
      <4> QED
        BY <1>1, <1>2, <1>6, <1>7, <1>9, <1>14, <3>1, <4>1 DEF MayDo, ControlInv, IsNextName
    <3>2. CASE u # t
      BY <1>1, <1>9, <3>2 DEF ControlInv
    <3> QED
      BY <3>1, <3>2
  <2>2. ASSUME NEW u \in Tasks PROVE MayDo(u, job[u])'
    <3>1. MayDo(u, job'[u])
      BY <2>1
    <3> QED
      BY <1>2, <3>1, Zenon DEF MayDo
  <2> QED
    BY <2>2 DEF ControlInv
<1>16. \A u \in Tasks : job'[u].pc \notin {"set", "open"}
  <2>1. \A u \in Tasks \ {t} : ~Adding(u)
    BY <1>1, <1>2, Adder
  <2> QED
    BY <1>7, <1>9, <2>1 DEF Adding
<1>17. HashInv'
  <2>1. /\ \A a \in map : Hash(port[a].name) # Hash(job[t].name)
        /\ \A a, b \in map : a # b => port[a].name = "" \/ Hash(port[a].name) # Hash(port[b].name)
        /\ job[t].name \in Names
    BY <1>1, <1>2 DEF HashInv
  <2>2. \A a \in map : port'[a] = port[a]
    BY <1>3, <1>5
  <2>3. ASSUME NEW a \in map PROVE port[a].name = "" \/ Hash(port[a].name) # Hash(p.name)
    <3>1. CASE p.name = job[t].name
      BY <2>1, <3>1
    <3>2. CASE p.name = ""
      <4>1. port[a].name \in AnyName
        BY <1>5 DEF PortInfo
      <4> QED
        BY <3>2, <4>1, Hashes DEF AnyName
    <3> QED
      BY <1>2, <3>1, <3>2
  <2>4. ASSUME NEW a \in map', NEW b \in map', a # b
        PROVE  port'[a].name = "" \/ Hash(port'[a].name) # Hash(port'[b].name)
    <3>1. CASE a \in map /\ b \in map
      BY <2>1, <2>2, <2>4, <3>1
    <3>2. CASE a \in map /\ b = N
      BY <1>3, <2>2, <2>3, <3>2
    <3>3. CASE a = N /\ b \in map
      <4>1. p.name = "" \/ Hash(port[b].name) # Hash(p.name)
        <5>1. CASE p.name = ""
          BY <5>1
        <5>2. CASE p.name = job[t].name
          BY <2>1, <3>3, <5>2
        <5> QED
          BY <1>2, <5>1, <5>2
      <4> QED
        BY <1>3, <2>2, <3>3, <4>1
    <3> QED
      BY <1>3, <2>4, <3>1, <3>2, <3>3
  <2> QED
    BY <1>16, <2>4 DEF HashInv, Hash, Adding
<1>18. Known' \subseteq Known \cup {port_report_fill_msg(p)}
  <2>1. job'["main"] = job["main"]
    BY <1>9, <1>14 DEF Tasks
  <2> QED
    BY <1>12, <2>1 DEF Known
<1> QED
  BY <1>13, <1>15, <1>16, <1>17, <1>18
\* The port that is added owns at most the interface that it is for.
LEMMA AddOwn ==
    ASSUME IInv, NEW t, NEW p, AddStep(t, p),
           p.sysIndex = 0 \/ (p.sysIndex = sys[job[t].name] /\ p.name = job[t].name)
    PROVE  OwnInv'
<1>1. TypeInv /\ HashInv /\ OwnInv
  BY DEF IInv
<1>2. /\ t \in Tasks /\ Adding(t) /\ p \in PortInfo /\ Added(p)
      /\ UNCHANGED <<sys, lastSys>>
  BY DEF AddStep
<1>0. PICK N : N = Len(port) + 1
  OBVIOUS
<1> DEFINE n == job[t].name
<1>3. /\ \A a \in Adrs : port'[a] = port[a] /\ task'[a] = task[a]
      /\ port'[N] = p /\ task'[N] = Started
      /\ map' = map \cup {N}
  BY <1>0, <1>1, <1>2, AddedFacts
<1>4. map \subseteq Adrs
  BY <1>1, Structures
<1>5. n \in Names /\ \A a \in map : port[a].name # n
  BY <1>1, <1>2, AddedIsOwed
<1>6. /\ \A k, m \in Names : sys[k] = sys[m] /\ sys[k] # 0 => k = m
      /\ \A k \in Names : sys[k] <= lastSys
      /\ \A a, b \in map : a # b => Own(a) \cap Own(b) = {}
      /\ \A a \in map : \A k \in Names : sys[k] \in Own(a) => port[a].name = k
      /\ \A a \in map : \A i \in Own(a) : i <= lastSys
  BY <1>1 DEF OwnInv
<1> HIDE DEF n
<1>7. ASSUME NEW a \in map PROVE Own(a)' = Own(a) /\ port'[a] = port[a]
  BY <1>3, <1>4 DEF Own
<1>8. ASSUME NEW i \in Own(N)' PROVE i = sys[n] /\ i # 0 /\ p.name = n
  <2>1. Own(N)' = {p.sysIndex, 0} \ {0}
    BY <1>3 DEF Own, Started
  <2> QED
    BY <2>1 DEF n
<1>9. ASSUME NEW a \in map PROVE Own(a) \cap Own(N)' = {}
  BY <1>5, <1>6, <1>8
<1>10. ASSUME NEW a \in map', NEW b \in map', a # b PROVE Own(a)' \cap Own(b)' = {}
  <2>1. CASE a \in map /\ b \in map
    BY <1>6, <1>7, <1>10, <2>1
  <2>2. CASE a \in map /\ b = N
    BY <1>7, <1>9, <2>2
  <2>3. CASE a = N /\ b \in map
    BY <1>7, <1>9, <2>3
  <2> QED
    BY <1>3, <1>10, <2>1, <2>2, <2>3
<1>11. ASSUME NEW a \in map', NEW k \in Names, sys[k] \in Own(a)' PROVE port'[a].name = k
  <2>1. CASE a \in map
    BY <1>6, <1>7, <1>11, <2>1
  <2>2. CASE a = N
    <3>1. sys[k] = sys[n] /\ sys[k] # 0 /\ p.name = n
      BY <1>8, <1>11, <2>2
    <3>2. k = n
      BY <1>5, <1>6, <3>1
    <3> QED
      BY <1>3, <2>2, <3>1, <3>2
  <2> QED
    BY <1>3, <2>1, <2>2
<1>12. ASSUME NEW a \in map', NEW i \in Own(a)' PROVE i <= lastSys
  <2>1. CASE a \in map
    BY <1>6, <1>7, <2>1
  <2>2. CASE a = N
    BY <1>5, <1>6, <1>8, <2>2
  <2> QED
    BY <1>3, <2>1, <2>2
<1> QED
  BY <1>2, <1>6, <1>10, <1>11, <1>12 DEF OwnInv

\* The port of zeros takes the place that the vanished interface had left.
LEMMA AddZeroed ==
    ASSUME IInv, NEW t, AddStep(t, Zeroed), job[t].pc = "set", ~Present(job[t].name),
           portIndex' = portIndex
    PROVE  IInv'
<1>1. TypeInv /\ ControlInv /\ HashInv /\ CountInv /\ OwnInv /\ (MaxSys < IndexRange => IndexInv /\ GrantInv)
  BY DEF IInv
<1>2. /\ halted = "no" /\ t \in Tasks /\ Adding(t) /\ Zeroed \in PortInfo /\ Added(Zeroed)
      /\ UNCHANGED <<sys, lastSys, mod>>
      /\ custom' = custom /\ granted' = granted /\ conn' = conn /\ halted' = halted
  BY DEF AddStep
<1> DEFINE N == Len(port) + 1
           m == port_report_fill_msg(Zeroed)
<1>3. /\ Len(port') = N
      /\ \A a \in Adrs : port'[a] = port[a] /\ task'[a] = task[a]
      /\ port'[N] = Zeroed
      /\ map' = map \cup {N}
  BY <1>1, <1>2, AddedFacts
<1>4. map \subseteq Adrs /\ Len(port) \in Nat
  BY <1>1, Structures
<1>5. /\ TypeInv' /\ ControlInv' /\ HashInv'
      /\ \A u \in Tasks : job'[u].pc \notin {"set", "open"}
      /\ Known' \subseteq Known \cup {m}
  BY AddCommon
<1>6. OwnInv'
  BY ZeroedPort, AddOwn
<1>7. m.id = 0 /\ m.name = ""
  BY ZeroedPort, ReportType
<1> HIDE DEF N, m
<1>8. \A a \in map : port'[a] = port[a]
  BY <1>3, <1>4
<1>9. CountInv'
  <2>1. ~Vanished'
    BY <1>5, TasksAre DEF Vanished
  <2>2. MaxSys \in Nat /\ lastSys \in Nat /\ Cardinality(Owed) \in Nat
    BY <1>1, Numbers, OwedFinite DEF TypeInv, SysType
  <2>3. CASE custom
    <3>1. Len(port) + 1 <= MaxSys
      BY <1>2, RoomToAdd
    <3>2. ~Adding("listener")'
      BY <1>5, TasksAre DEF Adding
    <3> QED
      BY <1>2, <1>3, <1>4, <2>2, <2>3, <3>1, <3>2 DEF CountInv, N
  <2>4. CASE ~custom
    <3>1. Owed' = Owed
      <4>1. ASSUME NEW k \in Names PROVE (\A a \in map' : port'[a].name # k) <=> (\A a \in map : port[a].name # k)
        <5>1. Zeroed.name # k
          BY ZeroedPort, Hashes
        <5> QED
          BY <1>3, <1>8, <5>1
      <4> QED
        BY <1>2, <4>1 DEF Owed
    <3>2. Vanished
      BY <1>1, <1>2, <2>4, Adder DEF Vanished
    <3>3. Len(port) + Cardinality(Owed) + 1 <= lastSys
      BY <1>1, <1>2, <2>4, <3>2 DEF CountInv
    <3> QED
      BY <1>2, <1>3, <1>4, <2>1, <2>2, <2>4, <3>1, <3>3 DEF CountInv, N
  <2> QED
    BY <2>3, <2>4
<1>10. ASSUME MaxSys < IndexRange PROVE IndexInv' /\ GrantInv'
  <2>1. IndexInv /\ GrantInv
    BY <1>1, <1>10
  <2>2. /\ \A a, b \in map : port[a].pofIndex = port[b].pofIndex => port[a].name = port[b].name
        /\ \A a \in map : port[a].pofIndex = 0 => port[a].name = ""
        /\ \A v \in Known : v.id = 0 => v.name = ""
    BY <1>2, <2>1 DEF IndexInv
  <2>3. \A a \in map, v \in Known : port[a].pofIndex = v.id => port[a].name = v.name
    BY <1>2, <2>1 DEF IndexInv
  <2>4. Len(port) < MaxSys /\ MaxSys \in Nat
    <3>1. Len(port) + 1 <= MaxSys
      BY <1>2, RoomToAdd
    <3> QED
      BY <1>4, <3>1, Numbers
  <2>5. /\ 1 <= portIndex /\ portIndex <= Len(port) + 1 /\ portIndex \in Int
        /\ \A a \in map : port[a].pofIndex < portIndex
        /\ \A v \in Known : v.id < portIndex
        /\ \A v \in mod : v.id < portIndex
    <3>1. portIndex \in Int
      BY <1>1, Numbers DEF TypeInv, SysType
    <3> QED
      BY <1>2, <2>1, <2>4, <3>1 DEF IndexInv
  <2>6. port'[N].pofIndex = 0 /\ port'[N].name = "" /\ ~port'[N].enable
    BY <1>3, ZeroedPort
  <2>0. 0 < portIndex
    BY <2>5
  <2>7. ASSUME NEW a \in map' PROVE port'[a].pofIndex < portIndex
    BY <1>3, <1>8, <2>0, <2>5, <2>6, Zenon
  <2>8. ASSUME NEW v \in Known' PROVE v.id < portIndex
    <3>1. CASE v = m
      BY <1>7, <2>0, <3>1
    <3>2. CASE v # m
      BY <1>5, <2>5, <3>2
    <3> QED
      BY <3>1, <3>2
  <2>9. 1 <= portIndex /\ portIndex <= Len(port') + 1
    BY <1>3, <1>4, <2>5 DEF N
  <2>10. ASSUME NEW a \in map' PROVE port'[a].pofIndex = 0 => port'[a].name = ""
    BY <1>3, <1>8, <2>2, <2>6
  <2>11. \A v \in Known' : v.id = 0 => v.name = ""
    BY <1>5, <1>7, <2>2
  <2>12. ASSUME NEW a \in map', NEW b \in map', port'[a].pofIndex = port'[b].pofIndex
         PROVE  port'[a].name = port'[b].name
    <3>1. CASE a = N \/ b = N
      <4>1. port'[a].pofIndex = 0 /\ port'[b].pofIndex = 0
        BY <2>6, <2>12, <3>1
      <4> QED
        BY <2>10, <4>1
    <3>2. CASE a \in map /\ b \in map
      BY <1>8, <2>2, <2>12, <3>2
    <3> QED
      BY <1>3, <3>1, <3>2
  <2>13. ASSUME NEW a \in map', NEW v \in Known', port'[a].pofIndex = v.id
         PROVE  port'[a].name = v.name
    <3>1. CASE v.id = 0
      BY <2>10, <2>11, <2>13, <3>1
    <3>2. CASE v.id # 0
      <4>1. a \in map /\ v \in Known
        BY <1>3, <1>5, <1>7, <2>6, <2>13, <3>2
      <4> QED
        BY <1>8, <2>3, <2>13, <4>1
    <3> QED
      BY <3>1, <3>2
  <2>14. IndexInv'
    BY <1>2, <2>5, <2>7, <2>8, <2>9, <2>10, <2>11, <2>12, <2>13 DEF IndexInv
  <2>15. ASSUME NEW v \in mod, v.flag
         PROVE  /\ \A a \in map' : port'[a].pofIndex = v.id => port'[a].name \in granted
                /\ v.id = 0 => "" \in granted
    <3>1. /\ \A a \in map : port[a].pofIndex = v.id => port[a].name \in granted
          /\ v.id = 0 => "" \in granted
      BY <2>1, <2>15 DEF GrantInv
    <3> QED
      BY <1>3, <1>8, <2>6, <3>1
  <2>16. ASSUME NEW a \in map', conn # "down", port'[a].enable PROVE port'[a].name \in granted
    <3>1. a \in map /\ port'[a] = port[a]
      BY <1>3, <1>8, <2>6, <2>16
    <3> QED
      BY <2>1, <2>16, <3>1 DEF GrantInv, EnabledAsMeant
  <2>17. GrantInv'
    BY <1>2, <2>15, <2>16 DEF GrantInv, EnabledAsMeant
  <2> QED
    BY <2>14, <2>17
<1> QED
  BY <1>5, <1>6, <1>9, <1>10 DEF IInv
\* The structure that poflr_set_port fills.
LEMMA SetPortType ==
    ASSUME TypeInv, NEW n \in Names, NEW i \in 0..MaxSys
    PROVE  LET p == poflr_set_port(n, i)
           IN  /\ p \in PortInfo /\ p.name = n /\ p.sysIndex = i /\ p.pofIndex = portIndex
               /\ ~p.enable
<1>1. ASSUME NEW e \in AnyName, NEW l \in BOOLEAN, NEW f \in BOOLEAN, NEW k \in 0..(IndexRange - 1)
      PROVE  [name |-> e, sysIndex |-> i, live |-> l, pofIndex |-> k, enable |-> f] \in PortInfo
  BY DEF PortInfo
<1>2. portIndex \in 0..(IndexRange - 1)
  BY DEF TypeInv, SysType
<1>3. live[n] \in BOOLEAN
  BY DEF TypeInv, FlagType
<1>4. poflr_set_port(n, i) \in PortInfo
  <2>1. FALSE \in BOOLEAN /\ n \in AnyName
    BY NamesAreAnyNames
  <2> QED
    BY <1>1, <1>2, <1>3, <2>1, Zenon DEF poflr_set_port, NewIndex
<1>5. /\ poflr_set_port(n, i).name = n /\ poflr_set_port(n, i).sysIndex = i
      /\ poflr_set_port(n, i).pofIndex = portIndex
  BY DEF poflr_set_port, NewIndex
<1>6. ~poflr_set_port(n, i).enable
  BY DEF poflr_set_port
<1> QED
  BY <1>4, <1>5, <1>6

\* The port of an interface takes the place that the interface had before.
LEMMA AddNamed ==
    ASSUME IInv, NEW t, NEW p, AddStep(t, p), sys[job[t].name] # 0,
           p.name = job[t].name, p.sysIndex = sys[job[t].name], p.pofIndex = portIndex,
           portIndex' = IndexAfter
    PROVE  IInv'
<1>1. TypeInv /\ ControlInv /\ HashInv /\ CountInv /\ OwnInv /\ (MaxSys < IndexRange => IndexInv /\ GrantInv)
  BY DEF IInv
<1>2. /\ halted = "no" /\ t \in Tasks /\ Adding(t) /\ p \in PortInfo /\ ~p.enable /\ Added(p)
      /\ UNCHANGED <<sys, lastSys, mod>>
      /\ custom' = custom /\ granted' = granted /\ conn' = conn /\ halted' = halted
  BY DEF AddStep
<1> DEFINE N == Len(port) + 1
           m == port_report_fill_msg(p)
           n == job[t].name
<1>3. /\ Len(port') = N
      /\ \A a \in Adrs : port'[a] = port[a] /\ task'[a] = task[a]
      /\ port'[N] = p
      /\ map' = map \cup {N}
  BY <1>1, <1>2, AddedFacts
<1>4. map \subseteq Adrs /\ Len(port) \in Nat
  BY <1>1, Structures
<1>5. /\ TypeInv' /\ ControlInv' /\ HashInv'
      /\ \A u \in Tasks : job'[u].pc \notin {"set", "open"}
      /\ Known' \subseteq Known \cup {m}
  BY AddCommon
<1>6. OwnInv'
  BY AddOwn
<1>7. m.id = portIndex /\ m.name = n
  BY <1>2, ReportType
<1>8. n \in Names /\ n \in Owed /\ \A a \in map : port[a].name # n
  BY <1>1, <1>2, AddedIsOwed
<1>9. Len(port) + 1 <= MaxSys
  BY <1>2, RoomToAdd
<1>10. p.name = n
  OBVIOUS
<1> HIDE DEF N, m, n
<1>11. \A a \in map : port'[a] = port[a]
  BY <1>3, <1>4
<1>12. MaxSys \in Nat /\ lastSys \in Nat /\ Cardinality(Owed) \in Nat /\ IsFiniteSet(Owed)
  BY <1>1, Numbers, OwedFinite DEF TypeInv, SysType
<1>13. CountInv'
  <2>1. ~Vanished'
    BY <1>5, TasksAre DEF Vanished
  <2>2. CASE custom
    <3>1. ~Adding("listener")'
      BY <1>5, TasksAre DEF Adding
    <3> QED
      BY <1>2, <1>3, <1>4, <1>9, <1>12, <2>2, <3>1 DEF CountInv, N
  <2>3. CASE ~custom
    <3>1. Owed' = Owed \ {n}
      <4>1. ASSUME NEW k \in Names
            PROVE  (\A a \in map' : port'[a].name # k) <=> k # n /\ (\A a \in map : port[a].name # k)
        BY <1>3, <1>10, <1>11
      <4> QED
        BY <1>2, <4>1 DEF Owed
    <3>2. Cardinality(Owed \ {n}) = Cardinality(Owed) - 1
      BY <1>8, <1>12, FS_RemoveElement
    <3>3. Len(port) + Cardinality(Owed) + (IF Vanished THEN 1 ELSE 0) <= lastSys
      BY <1>1, <1>2, <2>3 DEF CountInv
    <3>4. Len(port') + Cardinality(Owed') <= lastSys
      BY <1>3, <1>4, <1>12, <3>1, <3>2, <3>3 DEF N
    <3> QED
      <4>1. Len(port') + Cardinality(Owed') + (IF Vanished' THEN 1 ELSE 0) <= lastSys'
        <5>1. Cardinality(Owed') \in Nat /\ Len(port') \in Nat
          BY <1>3, <1>4, <1>8, <1>12, <3>1, <3>2, FS_EmptySet DEF N
        <5> QED
          BY <1>2, <2>1, <3>4, <5>1
      <4> QED
        BY <1>2, <2>3, <4>1 DEF CountInv
  <2> QED
    BY <2>2, <2>3
<1>14. ASSUME MaxSys < IndexRange PROVE IndexInv' /\ GrantInv'
  <2>1. IndexInv /\ GrantInv
    BY <1>1, <1>14
  <2>2. /\ \A a, b \in map : port[a].pofIndex = port[b].pofIndex => port[a].name = port[b].name
        /\ \A a \in map : port[a].pofIndex = 0 => port[a].name = ""
        /\ \A v \in Known : v.id = 0 => v.name = ""
    BY <1>2, <2>1 DEF IndexInv
  <2>3. \A a \in map, v \in Known : port[a].pofIndex = v.id => port[a].name = v.name
    BY <1>2, <2>1 DEF IndexInv
  <2>4. Len(port) < MaxSys
    BY <1>4, <1>9, <1>12
  <2>5. portIndex \in Nat
    BY <1>1, Numbers DEF TypeInv, SysType
  <2>6. /\ 1 <= portIndex /\ portIndex <= Len(port) + 1
        /\ \A a \in map : port[a].pofIndex < portIndex
        /\ \A v \in Known : v.id < portIndex
        /\ \A v \in mod : v.id < portIndex
    BY <1>2, <2>1, <2>4 DEF IndexInv
  <2>7. port'[N].pofIndex = portIndex /\ port'[N].name = n /\ ~port'[N].enable
    BY <1>2, <1>3, <1>10
  <2>8. /\ \A a \in map : port[a].pofIndex \in Nat
        /\ \A v \in Known : v.id \in Nat
        /\ \A v \in mod : v.id \in Nat
    <3>1. \A i \in 0..(IndexRange - 1) : i \in Nat
      BY Numbers
    <3>2. \A a \in map : port[a].pofIndex \in 0..(IndexRange - 1)
      BY <1>1, Structures DEF PortInfo
    <3>3. \A v \in mod : v.id \in 0..(IndexRange - 1)
      BY <1>1 DEF TypeInv, ChanType, ModType
    <3>4. job["main"].msg \in SUBSET MsgType
      <4>1. job["main"] \in JobType
        BY <1>1, TasksAre DEF TypeInv, JobsType
      <4> QED
        BY <4>1 DEF JobType
    <3>5. Known \in SUBSET MsgType
      BY <1>1, <3>4 DEF TypeInv, ChanType, Known
    <3>6. \A v \in Known : v.id \in 0..(IndexRange - 1)
      BY <3>5 DEF MsgType
    <3> QED
      BY <3>1, <3>2, <3>3, <3>6
  <2>9. ASSUME Len(port') < MaxSys
        PROVE  /\ 1 <= portIndex' /\ portIndex' <= Len(port') + 1
               /\ \A a \in map' : port'[a].pofIndex < portIndex'
               /\ \A v \in Known' : v.id < portIndex'
               /\ \A v \in mod' : v.id < portIndex'
    <3>1. portIndex + 1 < IndexRange
      BY <1>3, <1>4, <1>12, <1>14, <2>5, <2>6, <2>9, Numbers DEF N
    <3>2. portIndex' = portIndex + 1
      BY <2>5, <3>1, Numbers DEF IndexAfter
    <3>3. ASSUME NEW a \in map' PROVE port'[a].pofIndex < portIndex'
      <4>1. CASE a \in map
        <5>1. port[a].pofIndex < portIndex /\ port[a].pofIndex \in Nat /\ port'[a] = port[a]
          BY <1>11, <2>6, <2>8, <4>1
        <5> QED
          BY <2>5, <3>2, <5>1
      <4>2. CASE a = N
        <5>1. port'[a].pofIndex = portIndex
          BY <2>7, <4>2
        <5> QED
          BY <2>5, <3>2, <5>1
      <4> QED
        BY <1>3, <4>1, <4>2
    <3>4. ASSUME NEW v \in Known' PROVE v.id < portIndex'
      <4>1. CASE v \in Known
        <5>1. v.id < portIndex /\ v.id \in Nat
          BY <2>6, <2>8, <4>1
        <5> QED
          BY <2>5, <3>2, <5>1
      <4>2. CASE v = m
        BY <1>7, <2>5, <3>2, <4>2
      <4> QED
        BY <1>5, <4>1, <4>2
    <3>5. ASSUME NEW v \in mod PROVE v.id < portIndex'
      <4>1. v.id < portIndex /\ v.id \in Nat
        BY <2>6, <2>8
      <4> QED
        BY <2>5, <3>2, <4>1
    <3>6. 1 <= portIndex' /\ portIndex' <= Len(port') + 1
      BY <1>3, <1>4, <2>5, <2>6, <3>2 DEF N
    <3> QED
      BY <1>2, <3>3, <3>4, <3>5, <3>6
  <2>10. ASSUME NEW a \in map', port'[a].pofIndex = 0 PROVE port'[a].name = ""
    <3>1. a # N
      BY <2>5, <2>6, <2>7, <2>10
    <3> QED
      BY <1>3, <1>11, <2>2, <2>10, <3>1
  <2>11. ASSUME NEW v \in Known', v.id = 0 PROVE v.name = ""
    <3>1. v # m
      BY <1>7, <2>5, <2>6, <2>11
    <3> QED
      BY <1>5, <2>2, <2>11, <3>1
  <2>12. ASSUME NEW a \in map', NEW b \in map', port'[a].pofIndex = port'[b].pofIndex
         PROVE  port'[a].name = port'[b].name
    <3>1. ASSUME NEW c \in map PROVE port'[c].pofIndex # portIndex
      <4>1. port[c].pofIndex < portIndex /\ port[c].pofIndex \in Nat
        BY <2>6, <2>8
      <4> QED
        BY <1>11, <2>5, <4>1
    <3>2. CASE a \in map /\ b \in map
      BY <1>11, <2>2, <2>12, <3>2
    <3>3. CASE a = N \/ b = N
      <4>1. a = N /\ b = N
        BY <1>3, <2>7, <2>12, <3>1, <3>3
      <4> QED
        BY <4>1
    <3> QED
      BY <1>3, <3>2, <3>3
  <2>13. ASSUME NEW a \in map', NEW v \in Known', port'[a].pofIndex = v.id
         PROVE  port'[a].name = v.name
    <3>1. CASE a = N
      <4>1. v.id = portIndex
        BY <2>7, <2>13, <3>1
      <4>2. v \notin Known
        <5>1. ASSUME v \in Known PROVE FALSE
          <6>1. v.id < portIndex
            BY <2>6, <5>1
          <6> QED
            BY <2>5, <4>1, <6>1
        <5> QED
          BY <5>1
      <4>3. v = m
        BY <1>5, <4>2
      <4> QED
        BY <1>7, <2>7, <3>1, <4>3
    <3>2. CASE a \in map
      <4>1. port[a].pofIndex < portIndex /\ port[a].pofIndex \in Nat /\ port'[a] = port[a]
        BY <1>11, <2>6, <2>8, <3>2
      <4>2. v # m
        BY <1>7, <2>5, <2>13, <4>1
      <4>3. v \in Known
        BY <1>5, <4>2
      <4> QED
        BY <2>3, <2>13, <3>2, <4>1, <4>3
    <3> QED
      BY <1>3, <3>1, <3>2
  <2>14. IndexInv'
    BY <1>2, <2>9, <2>10, <2>11, <2>12, <2>13 DEF IndexInv
  <2>15. ASSUME NEW v \in mod, v.flag
         PROVE  /\ \A a \in map' : port'[a].pofIndex = v.id => port'[a].name \in granted
                /\ v.id = 0 => "" \in granted
    <3>1. /\ \A a \in map : port[a].pofIndex = v.id => port[a].name \in granted
          /\ v.id = 0 => "" \in granted
      BY <2>1, <2>15 DEF GrantInv
    <3>2. port'[N].pofIndex # v.id
      <4>1. v.id < portIndex /\ v.id \in Nat
        BY <2>6, <2>8
      <4> QED
        BY <2>5, <2>7, <4>1
    <3> QED
      BY <1>3, <1>11, <3>1, <3>2
  <2>16. ASSUME NEW a \in map', conn # "down", port'[a].enable PROVE port'[a].name \in granted
    <3>1. a \in map /\ port'[a] = port[a]
      BY <1>3, <1>11, <2>7, <2>16
    <3> QED
      BY <2>1, <2>16, <3>1 DEF GrantInv, EnabledAsMeant
  <2>17. GrantInv'
    BY <1>2, <2>15, <2>16 DEF GrantInv, EnabledAsMeant
  <2> QED
    BY <2>14, <2>17
<1> QED
  BY <1>5, <1>6, <1>13, <1>14 DEF IInv
LEMMA AddSet ==
    ASSUME IInv, NEW t \in Tasks, add_set(t)
    PROVE  IInv'
<1>1. TypeInv /\ ControlInv /\ HashInv
  BY DEF IInv
<1>2. /\ halted = "no" /\ job[t].pc = "set"
      /\ UNCHANGED <<sys, lastSys, portIndex, mod>>
      /\ custom' = custom /\ granted' = granted /\ conn' = conn /\ halted' = halted
  BY DEF add_set, system
<1>3. FlagType'
  BY <1>1, <1>2 DEF TypeInv, FlagType, add_set, system
<1>4. job[t] \in JobType /\ job \in [Tasks -> JobType]
  BY <1>1 DEF TypeInv, JobsType
<1>5. Adding(t)
  BY <1>2 DEF Adding
<1>6. job[t].name \in Names
  BY <1>1, <1>5, AddedIsOwed
<1>7. CASE Present(job[t].name)
  <2> DEFINE i == sys[job[t].name]
             k == [job[t] EXCEPT !.pc = "open"]
             j == [k EXCEPT !.index = i]
  <2>1. /\ job' = [job EXCEPT ![t].pc = "open", ![t].index = i]
        /\ UNCHANGED <<port, map, task>> /\ ctl' = ctl
    BY <1>7 DEF add_set
  <2>2. job' = [job EXCEPT ![t] = j]
    BY <1>4, <2>1
  <2>3. i \in 0..MaxSys /\ i # 0
    BY <1>1, <1>6, <1>7 DEF TypeInv, SysType, Present
  <2>4. k \in JobType
    BY <1>4, JobUpdate, PcsAre
  <2>5. /\ j.pc = "open" /\ j.index = i /\ j.name = job[t].name /\ j.obj = job[t].obj
        /\ j.next = job[t].next /\ j.msg = job[t].msg /\ j.todo = job[t].todo
    BY <1>4 DEF JobType
  <2>6. j \in JobType
    <3> HIDE DEF k, i
    <3> QED  BY <2>3, <2>4, JobUpdate
  <2>7. j.obj \in Adrs \cup {0} /\ j.next \in Adrs \cup {0}
    <3>1. job[t].obj \in Adrs \cup {0} /\ job[t].next \in Adrs \cup {0}
      BY <1>1 DEF TypeInv, JobsType
    <3> QED
      BY <2>5, <3>1
  <2> HIDE DEF i, j
  <2>8. MayDo(t, job[t])
    BY <1>1 DEF ControlInv
  <2>9. MayDo(t, j)
    BY <1>2, <2>3, <2>5, <2>8 DEF MayDo
  <2>10. (t = "detect" /\ ~custom) \/ (t = "listener" /\ custom)
    BY <1>1, <1>5, Adder
  <2>11. j.msg \subseteq Known
    BY <1>1, <2>5, <2>8, <2>10 DEF MayDo
  <2>12. JobChange(t, j)
    BY <1>2, <1>3, <2>1, <2>2, <2>6, <2>7, <2>9, <2>11 DEF JobChange, Known
  <2> QED
    BY <1>2, <2>5, <2>12, JobChangeStep
<1>8. CASE ~Present(job[t].name)
  <2>1. Added(Zeroed) /\ job' = [job EXCEPT ![t] = NextName(t, job[t].todo)]
    BY <1>8 DEF add_set
  <2>2. portIndex \in 0..(IndexRange - 1)
    BY <1>1 DEF TypeInv, SysType
  <2>3. AddStep(t, Zeroed)
    BY <1>2, <1>3, <1>5, <2>1, <2>2, ZeroedPort DEF AddStep
  <2> QED
    BY <1>2, <1>8, <2>3, AddZeroed
<1> QED
  BY <1>7, <1>8

LEMMA AddOpen ==
    ASSUME IInv, NEW t \in Tasks, add_open(t)
    PROVE  IInv'
<1> DEFINE n == job[t].name
           p == poflr_set_port(n, job[t].index)
<1>1. TypeInv /\ ControlInv /\ HashInv
  BY DEF IInv
<1>2. /\ halted = "no" /\ job[t].pc = "open" /\ sys[n] = job[t].index
      /\ Added(p) /\ job' = [job EXCEPT ![t] = NextName(t, job[t].todo)]
      /\ portIndex' = IndexAfter
      /\ UNCHANGED <<sys, lastSys, mod>>
      /\ custom' = custom /\ granted' = granted /\ conn' = conn /\ halted' = halted
  BY DEF add_open, system
<1>3. FlagType'
  BY <1>1, <1>2 DEF TypeInv, FlagType, add_open, system
<1>4. Adding(t)
  BY <1>2 DEF Adding
<1>5. n \in Names
  BY <1>1, <1>4, AddedIsOwed
<1>6. sys[n] # 0 /\ sys[n] \in 0..MaxSys
  BY <1>1, <1>2, <1>5 DEF ControlInv, MayDo, TypeInv, SysType
<1>7. p \in PortInfo /\ p.name = n /\ p.sysIndex = sys[n] /\ p.pofIndex = portIndex /\ ~p.enable
  BY <1>1, <1>2, <1>5, <1>6, SetPortType
<1>8. portIndex' \in 0..(IndexRange - 1)
  <2>1. portIndex \in Nat /\ IndexRange \in Nat /\ IndexRange >= 1
    BY <1>1, Numbers DEF TypeInv, SysType
  <2> QED
    BY <1>2, <2>1 DEF IndexAfter
<1> HIDE DEF p
<1>9. AddStep(t, p)
  BY <1>2, <1>3, <1>4, <1>6, <1>7, <1>8 DEF AddStep
<1> QED
  BY <1>2, <1>6, <1>7, <1>9, AddNamed
-----------------------------------------------------------------------------
(* A port is removed.                                                      *)

\* What poflr_del_port does, when no interface loses its port.
LEMMA DelStep ==
    ASSUME IInv, halted = "no", NEW d \in map, poflr_del_port(d),
           custom \/ ~Present(port[d].name),
           JobsType', ControlInv', NoNewAdding, FlagType',
           job'["detect"].pc # "set" \/ job'["detect"] = job["detect"],
           job'["main"].msg = job["main"].msg,
           UNCHANGED <<sys, lastSys, portIndex, mod>>,
           custom' = custom, granted' = granted, conn' = conn
    PROVE  IInv'
<1>1. TypeInv /\ HashInv /\ CountInv /\ OwnInv /\ (MaxSys < IndexRange => IndexInv /\ GrantInv)
  BY DEF IInv
<1>2. /\ port' \in Seq(PortInfo) /\ Len(port') = Len(port) /\ Adrs' = Adrs
      /\ \A a \in Adrs \ {d} : port'[a] = port[a] /\ task'[a] = task[a]
      /\ task' \in [Adrs' -> TaskType]
      /\ map' = map \ {d} /\ map' \subseteq Adrs'
  BY <1>1, DelFacts
<1>3. map \subseteq Adrs /\ port[d] \in PortInfo
  BY <1>1, Structures
<1>4. ctl' = Told("DELETE", port_report_fill_msg(port[d]))
  BY DEF poflr_del_port, poflr_port_report
<1>5. ctl' \subseteq ctl
  BY <1>4, ToldDelete
<1>6. TypeInv'
  <2>1. StructType'
    BY <1>1, <1>2 DEF StructType, TypeInv
  <2>2. SysType'
    BY <1>1 DEF TypeInv, SysType
  <2>3. ChanType'
    BY <1>1, <1>5 DEF TypeInv, ChanType
  <2> QED
    BY <2>1, <2>2, <2>3 DEF TypeInv
<1>7. \A a \in map' : a \in map /\ port'[a] = port[a] /\ task'[a] = task[a]
  BY <1>2, <1>3
<1>8. SamePorts
  BY <1>2, <1>7 DEF SamePorts
<1>9. SameOwn
  BY <1>7 DEF SameOwn
<1>10. HashInv'
  BY <1>1, <1>8, HashFrame
<1>11. OwnInv'
  BY <1>1, <1>8, <1>9, OwnFrame
<1>12. CountInv'
  <2>1. ASSUME ~custom PROVE Owed' = Owed
    <3>1. ~Present(port[d].name)
      BY <2>1
    <3>2. ASSUME NEW k \in Names, sys[k] # 0
          PROVE  (\A a \in map' : port'[a].name # k) <=> (\A a \in map : port[a].name # k)
      <4>1. port[d].name # k
        BY <3>1, <3>2 DEF Present
      <4> QED
        BY <1>2, <1>7, <4>1
    <3> QED
      BY <3>2 DEF Owed
  <2>2. Vanished' => Vanished
    BY DEF Vanished, Present
  <2>3. job'["listener"].pc \in {"set", "open"} => job["listener"].pc \in {"set", "open"}
    BY TasksAre DEF NoNewAdding
  <2> QED
    BY <1>1, <1>2, <2>1, <2>2, <2>3, CountFrame
<1>13. ASSUME MaxSys < IndexRange PROVE IndexInv' /\ GrantInv'
  <2>1. IndexInv /\ GrantInv
    BY <1>1, <1>13
  <2>2. KnownFromPorts
    BY <1>5 DEF KnownFromPorts, Known
  <2>3. IndexInv'
    BY <1>2, <1>8, <2>1, <2>2, IndexFrame
  <2>4. GrantInv'
    BY <1>7, <1>8, <2>1, GrantFrame
  <2> QED
    BY <2>3, <2>4
<1> QED
  BY <1>6, <1>10, <1>11, <1>12, <1>13 DEF IInv

\* The port that is found under the name of another one is that one, or one
\* that has no name.
LEMMA FoundIsSame ==
    ASSUME TypeInv, HashInv, NEW a \in map
    PROVE  LET d == poflr_get_port_with_name(port[a].name)
           IN  d \in map /\ (d = a \/ port[d].name = "")
<1> DEFINE S == {b \in map : Hash(port[b].name) = Hash(port[a].name)}
           d == Newest(S)
<1>1. S \in SUBSET map /\ a \in S
  OBVIOUS
<1>2. d \in S
  <2> HIDE DEF S
  <2> QED  BY <1>1, NewestIn
<1>3. d \in map /\ Hash(port[d].name) = Hash(port[a].name)
  BY <1>2
<1>4. poflr_get_port_with_name(port[a].name) = d
  BY DEF poflr_get_port_with_name
<1> HIDE DEF d
<1>5. d = a \/ port[d].name = ""
  BY <1>3 DEF HashInv
<1> QED
  BY <1>3, <1>4, <1>5

LEMMA DetectOld ==
    ASSUME IInv, detect_old
    PROVE  IInv'
<1> DEFINE a == job["detect"].obj
           d == poflr_get_port_with_name(port[a].name)
<1>1. TypeInv /\ ControlInv /\ HashInv
  BY DEF IInv
<1>2. /\ halted = "no" /\ job["detect"].pc = "old" /\ a \in map
      /\ UNCHANGED <<sys, lastSys, portIndex, mod>>
      /\ custom' = custom /\ granted' = granted /\ conn' = conn /\ halted' = halted
  BY DEF detect_old, system
<1>3. FlagType'
  BY <1>1, <1>2 DEF TypeInv, FlagType, detect_old, system
<1>4. job["detect"] \in JobType /\ job \in [Tasks -> JobType]
  BY <1>1, TasksAre DEF TypeInv, JobsType
<1>5. MayDo("detect", job["detect"])
  BY <1>1, TasksAre DEF ControlInv
<1>6. CASE Present(port[a].name)
  <2> DEFINE j == [job["detect"] EXCEPT !.pc = "info"]
  <2>1. job' = [job EXCEPT !["detect"].pc = "info"] /\ UNCHANGED <<port, map, task>> /\ ctl' = ctl
    BY <1>6 DEF detect_old
  <2>2. job' = [job EXCEPT !["detect"] = j]
    BY <1>4, <2>1, TasksAre
  <2>3. j \in JobType
    BY <1>4, JobUpdate, PcsAre
  <2>4. /\ j.pc = "info" /\ j.obj = job["detect"].obj /\ j.next = job["detect"].next
        /\ j.msg = job["detect"].msg
    BY <1>4 DEF JobType
  <2>5. job["detect"].obj \in Adrs \cup {0} /\ job["detect"].next \in Adrs \cup {0}
    BY <1>1, TasksAre DEF TypeInv, JobsType
  <2> HIDE DEF j
  <2>6. MayDo("detect", j) /\ j.msg = {}
    BY <1>2, <1>5, <2>4 DEF MayDo
  <2>7. JobChange("detect", j)
    BY <1>2, <1>3, <2>1, <2>2, <2>3, <2>4, <2>5, <2>6, TasksAre DEF JobChange, Known
  <2> QED
    BY <2>4, <2>7, JobChangeStep
<1>7. CASE ~Present(port[a].name)
  <2> DEFINE j == Step("detect", map \ {d}, "old")
  <2>1. poflr_del_port(d) /\ job' = [job EXCEPT !["detect"] = j]
    BY <1>7 DEF detect_old
  <2>2. d \in map /\ (d = a \/ port[d].name = "")
    <3> HIDE DEF a
    <3> QED  BY <1>1, <1>2, FoundIsSame
  <2>3. ~Present(port[d].name)
    <3> HIDE DEF a, d
    <3>1. ~Present("")
      BY Hashes DEF Present
    <3> QED
      BY <1>7, <2>2, <3>1
  <2>4. map \ {d} \in SUBSET map
    OBVIOUS
  <2> HIDE DEF d
  <2>5. /\ j \in JobType /\ j.obj \in Adrs \cup {0} /\ j.next \in map \cup {0}
        /\ j.name = "" /\ j.msg = {} /\ j.pc \in {"end", "old"}
    BY <1>1, <2>4, StepJob, PcsAre, TasksAre
  <2> HIDE DEF j
  <2>6. Adrs' = Adrs
    BY <1>1, <2>1, <2>2, DelFacts
  <2>7. JobsType'
    BY <1>1, <2>1, <2>5, <2>6, JobsTypeKept, MapInAdrs, TasksAre
  <2>8. job'["detect"] = j /\ \A u \in Tasks \ {"detect"} : job'[u] = job[u]
    BY <1>1, <2>1, <2>5, JobSet, TasksAre
  <2>9. ControlInv'
    <3>1. ASSUME NEW u \in Tasks PROVE MayDo(u, job'[u])
      BY <1>1, <2>5, <2>8 DEF ControlInv, MayDo
    <3>2. ASSUME NEW u \in Tasks PROVE MayDo(u, job[u])'
      <4>1. MayDo(u, job'[u])
        BY <3>1
      <4> QED
        BY <1>2, <4>1, Zenon DEF MayDo
    <3> QED
      BY <3>2 DEF ControlInv
  <2>10. NoNewAdding
    BY <2>5, <2>8 DEF NoNewAdding
  <2>11. job'["main"].msg = job["main"].msg
    BY <2>8 DEF Tasks
  <2>12. job'["detect"].pc # "set"
    BY <2>5, <2>8
  <2> QED
    BY <1>2, <1>3, <2>1, <2>2, <2>3, <2>7, <2>9, <2>10, <2>11, <2>12, DelStep
<1> QED
  BY <1>6, <1>7

LEMMA DelPort ==
    ASSUME IInv, NEW n \in Names, delport(n)
    PROVE  IInv'
<1> DEFINE S == {b \in map : Hash(port[b].name) = Hash(n)}
           d == Newest(S)
<1>1. TypeInv /\ ControlInv
  BY DEF IInv
<1>2. /\ halted = "no" /\ custom /\ d # 0 /\ poflr_del_port(d)
      /\ UNCHANGED <<sys, lastSys, portIndex, mod>> /\ job' = job
      /\ custom' = custom /\ granted' = granted /\ conn' = conn /\ halted' = halted
  BY DEF delport, system, poflr_get_port_with_name
<1>3. FlagType'
  BY <1>1, <1>2 DEF TypeInv, FlagType, delport, system
<1>4. d \in map
  <2>1. S \in SUBSET map
    OBVIOUS
  <2> HIDE DEF S
  <2> QED  BY <1>1, <1>2, <2>1, NewestIn
<1> HIDE DEF d
<1>5. Adrs' = Adrs
  BY <1>1, <1>2, <1>4, DelFacts
<1>6. JobsType'
  BY <1>1, <1>2, <1>5 DEF TypeInv, JobsType
<1>7. ControlInv'
  <2>1. ASSUME NEW u \in Tasks PROVE MayDo(u, job[u])'
    <3>1. MayDo(u, job[u])
      BY <1>1 DEF ControlInv
    <3> QED
      BY <1>2, <3>1 DEF MayDo
  <2> QED
    BY <2>1 DEF ControlInv
<1>8. NoNewAdding
  BY <1>2 DEF NoNewAdding
<1> QED
  BY <1>2, <1>3, <1>4, <1>6, <1>7, <1>8, DelStep
-----------------------------------------------------------------------------
(* The steps that leave the jobs and the names of the ports as they are.   *)

LEMMA ControlKept ==
    ASSUME ControlInv, job' = job, custom' = custom
    PROVE  ControlInv'
<1>1. ASSUME NEW u \in Tasks PROVE MayDo(u, job[u])'
  <2>1. MayDo(u, job[u])
    BY DEF ControlInv
  <2> QED
    BY <2>1 DEF MayDo
<1> QED
  BY <1>1 DEF ControlInv

LEMMA QuietStep ==
    ASSUME IInv, halted = "no", SamePorts, SameOwn, map' = map, job' = job,
           UNCHANGED <<sys, lastSys, portIndex>>, custom' = custom,
           Len(port') = Len(port), Adrs' = Adrs, StructType', ChanType', FlagType',
           ctl' \subseteq ctl, \A m \in mod' : m \in mod \/ \E v \in Known : m.id = v.id,
           MaxSys < IndexRange /\ IndexInv /\ GrantInv => GrantInv'
    PROVE  IInv'
<1>1. TypeInv /\ ControlInv /\ HashInv /\ CountInv /\ OwnInv /\ (MaxSys < IndexRange => IndexInv /\ GrantInv)
  BY DEF IInv
<1>2. TypeInv'
  <2>1. JobsType'
    BY <1>1 DEF TypeInv, JobsType
  <2>2. SysType'
    BY <1>1 DEF TypeInv, SysType
  <2> QED
    BY <2>1, <2>2 DEF TypeInv
<1>3. ControlInv'
  BY <1>1, ControlKept
<1>4. HashInv'
  <2>1. NoNewAdding
    BY DEF NoNewAdding
  <2> QED
    BY <1>1, <2>1, HashFrame
<1>5. CountInv'
  <2>1. Owed' = Owed
    BY OwedKept
  <2>2. Vanished' => Vanished
    BY DEF Vanished, Present
  <2> QED
    BY <1>1, <2>1, <2>2, CountFrame
<1>6. OwnInv'
  BY <1>1, OwnFrame
<1>7. ASSUME MaxSys < IndexRange PROVE IndexInv' /\ GrantInv'
  <2>1. KnownFromPorts
    BY DEF KnownFromPorts, Known
  <2> QED
    BY <1>1, <1>7, <2>1, IndexFrame
<1> QED
  BY <1>2, <1>3, <1>4, <1>5, <1>6, <1>7 DEF IInv

\* The ports of the map are disabled.
LEMMA DisableStep ==
    ASSUME IInv, port' = poflr_disable_all_port, UNCHANGED <<map, task>>
    PROVE  /\ SamePorts /\ SameOwn /\ Len(port') = Len(port) /\ Adrs' = Adrs /\ StructType'
           /\ \A a \in map' : ~port'[a].enable
<1>1. TypeInv
  BY DEF IInv
<1>2. /\ port' \in Seq(PortInfo) /\ Len(port') = Len(port) /\ Adrs' = Adrs
      /\ \A a \in map : /\ port'[a].name = port[a].name /\ port'[a].pofIndex = port[a].pofIndex
                        /\ port'[a].sysIndex = port[a].sysIndex /\ ~port'[a].enable
  BY <1>1, DisabledFacts
<1>3. StructType'
  BY <1>1, <1>2 DEF TypeInv, StructType
<1> QED
  BY <1>2, <1>3 DEF SamePorts, SameOwn

LEMMA Hello ==
    ASSUME IInv, hello
    PROVE  IInv'
<1>1. TypeInv
  BY DEF IInv
<1>2. /\ halted = "no" /\ port' = poflr_disable_all_port /\ UNCHANGED <<map, task>>
      /\ UNCHANGED <<sys, lastSys, portIndex, ctl, mod>> /\ job' = job
      /\ custom' = custom /\ granted' = granted /\ conn' = "open"
  BY DEF hello, system
<1>3. FlagType'
  BY <1>1, <1>2 DEF TypeInv, FlagType, hello, system
<1>4. ChanType'
  BY <1>1, <1>2 DEF TypeInv, ChanType
<1>5. /\ SamePorts /\ SameOwn /\ Len(port') = Len(port) /\ Adrs' = Adrs /\ StructType'
      /\ \A a \in map' : ~port'[a].enable
  BY <1>2, DisableStep
<1>6. ASSUME GrantInv PROVE GrantInv'
  <2>1. ASSUME NEW m \in mod, m.flag
        PROVE  /\ \A a \in map' : port'[a].pofIndex = m.id => port'[a].name \in granted
               /\ m.id = 0 => "" \in granted
    BY <1>5, <1>6, <2>1 DEF GrantInv, SamePorts
  <2> QED
    BY <1>2, <1>5, <2>1 DEF GrantInv, EnabledAsMeant
<1> QED
  BY <1>2, <1>3, <1>4, <1>5, <1>6, QuietStep

LEMMA Lost ==
    ASSUME IInv, lost
    PROVE  IInv'
<1>1. TypeInv
  BY DEF IInv
<1>2. /\ halted = "no" /\ UNCHANGED <<map, task, sys, lastSys, portIndex>> /\ job' = job
      /\ custom' = custom /\ conn' = "down" /\ ctl' = {} /\ mod' = {}
      /\ port' = port \/ port' = poflr_disable_all_port
  BY DEF lost, system
<1>3. FlagType'
  BY <1>1, <1>2 DEF TypeInv, FlagType, lost, system
<1>4. ChanType'
  BY <1>2 DEF ChanType
<1>5. SamePorts /\ SameOwn /\ Len(port') = Len(port) /\ Adrs' = Adrs /\ StructType'
  <2>1. CASE port' = port
    BY <1>1, <1>2, <2>1, StillPorts DEF TypeInv
  <2>2. CASE port' = poflr_disable_all_port
    BY <1>2, <2>2, DisableStep
  <2> QED
    BY <1>2, <2>1, <2>2
<1>6. GrantInv'
  BY <1>2 DEF GrantInv, EnabledAsMeant
<1> QED
  BY <1>2, <1>3, <1>4, <1>5, <1>6, QuietStep

LEMMA PortMod ==
    ASSUME IInv, NEW m \in mod, port_mod(m)
    PROVE  IInv'
<1> DEFINE S == {b \in map : port[b].pofIndex = m.id}
           a == Newest(S)
<1>1. TypeInv
  BY DEF IInv
<1>2. /\ halted = "no" /\ UNCHANGED <<map, task, sys, lastSys, portIndex, ctl>> /\ job' = job
      /\ custom' = custom /\ conn' = conn /\ granted' = granted /\ mod' = mod \ {m}
      /\ port' = IF a = 0 THEN port ELSE [port EXCEPT ![a].enable = m.flag]
  BY DEF port_mod, system, poflr_get_port_with_pofindex
<1>3. FlagType'
  BY <1>1, <1>2 DEF TypeInv, FlagType, port_mod, system
<1>4. ChanType'
  BY <1>1, <1>2 DEF TypeInv, ChanType
<1>5. m.flag \in BOOLEAN
  BY <1>1 DEF TypeInv, ChanType, ModType
<1>6. CASE a = 0
  <2>1. port' = port
    BY <1>2, <1>6
  <2>2. SamePorts /\ SameOwn /\ Len(port') = Len(port) /\ Adrs' = Adrs /\ StructType'
    BY <1>1, <1>2, <2>1, StillPorts DEF TypeInv
  <2>3. ASSUME GrantInv PROVE GrantInv'
    BY <1>2, <2>1, <2>2, <2>3, GrantFrame
  <2> QED
    BY <1>2, <1>3, <1>4, <2>2, <2>3, QuietStep
<1>7. CASE a # 0
  <2>1. a \in map /\ port[a].pofIndex = m.id
    <3>1. S \in SUBSET map
      OBVIOUS
    <3>2. a \in S
      <4> HIDE DEF S
      <4> QED  BY <1>1, <1>7, <3>1, NewestIn
    <3> QED
      BY <3>2
  <2> DEFINE p == [port[a] EXCEPT !.enable = m.flag]
  <2>2. port' = [port EXCEPT ![a] = p]
    BY <1>2, <1>7
  <2> HIDE DEF a
  <2>3. port[a] \in PortInfo /\ map \subseteq Adrs
    BY <1>1, <2>1, Structures
  <2>4. p \in PortInfo
    BY <1>5, <2>3, PortUpdate
  <2>5. /\ p.name = port[a].name /\ p.pofIndex = port[a].pofIndex /\ p.sysIndex = port[a].sysIndex
        /\ p.enable = m.flag
    BY <2>3 DEF PortInfo
  <2> HIDE DEF p
  <2>6. /\ port' \in Seq(PortInfo) /\ Len(port') = Len(port) /\ Adrs' = Adrs
        /\ port'[a] = p /\ \A b \in Adrs \ {a} : port'[b] = port[b]
    BY <1>1, <2>1, <2>2, <2>4, PortSet DEF Adrs
  <2>7. StructType'
    BY <1>1, <1>2, <2>6 DEF TypeInv, StructType
  <2>8. ASSUME NEW b \in map
        PROVE  /\ port'[b].name = port[b].name /\ port'[b].pofIndex = port[b].pofIndex
               /\ port'[b].sysIndex = port[b].sysIndex
    BY <2>3, <2>5, <2>6
  <2>9. SamePorts /\ SameOwn
    BY <1>2, <2>8 DEF SamePorts, SameOwn
  <2>10. ASSUME GrantInv PROVE GrantInv'
    <3>1. ASSUME NEW k \in mod', k.flag
          PROVE  /\ \A b \in map' : port'[b].pofIndex = k.id => port'[b].name \in granted
                 /\ k.id = 0 => "" \in granted
      BY <1>2, <2>8, <2>10, <3>1 DEF GrantInv
    <3>2. ASSUME NEW b \in map, conn # "down", port'[b].enable PROVE port'[b].name \in granted
      <4>1. CASE b = a
        <5>1. m.flag
          BY <2>5, <2>6, <3>2, <4>1
        <5>2. port[a].name \in granted
          BY <2>1, <2>10, <5>1 DEF GrantInv
        <5> QED
          BY <2>8, <4>1, <5>2
      <4>2. CASE b # a
        <5>1. port'[b] = port[b]
          BY <2>3, <2>6, <4>2
        <5> QED
          BY <2>10, <3>2, <5>1 DEF GrantInv, EnabledAsMeant
      <4> QED
        BY <4>1, <4>2
    <3> QED
      BY <1>2, <3>1, <3>2 DEF GrantInv, EnabledAsMeant
  <2> QED
    BY <1>2, <1>3, <1>4, <2>6, <2>7, <2>9, <2>10, QuietStep
<1> QED
  BY <1>6, <1>7
LEMMA DetectInfo ==
    ASSUME IInv, detect_info
    PROVE  IInv'
<1> DEFINE a == job["detect"].obj
           n == port[a].name
           new == [port[a] EXCEPT !.sysIndex = sys[n], !.live = live[n]]
           j == Step("detect", map, "old")
<1>1. TypeInv /\ ControlInv /\ HashInv /\ CountInv /\ OwnInv /\ (MaxSys < IndexRange => IndexInv /\ GrantInv)
  BY DEF IInv
<1>2. /\ halted = "no" /\ job["detect"].pc = "info" /\ a \in map /\ Present(n)
      /\ job' = [job EXCEPT !["detect"] = j]
      /\ UNCHANGED <<map, task, sys, lastSys, portIndex, mod>>
      /\ custom' = custom /\ granted' = granted /\ conn' = conn
  BY DEF detect_info, system
<1>3. FlagType'
  BY <1>1, <1>2 DEF TypeInv, FlagType, detect_info, system
<1>4. /\ j \in JobType /\ j.obj \in Adrs \cup {0} /\ j.next \in map \cup {0}
      /\ j.name = "" /\ j.msg = {} /\ j.pc \in {"end", "old"}
  BY <1>1, StepJob, PcsAre, TasksAre
<1>5. MayDo("detect", j)
  <2> HIDE DEF j
  <2> QED  BY <1>4 DEF MayDo
<1>6. CASE comparePorts(port[a], new)
  <2>1. port' = port /\ ctl' = ctl
    BY <1>6 DEF detect_info
  <2> HIDE DEF j
  <2>2. JobChange("detect", j)
    BY <1>1, <1>2, <1>3, <1>4, <1>5, <2>1, TasksAre, MapInAdrs DEF JobChange, Known
  <2> QED
    BY <1>4, <2>2, JobChangeStep
<1>7. CASE ~comparePorts(port[a], new)
  <2>1. port' = [port EXCEPT ![a] = new] /\ ctl' = Told("MODIFY", port_report_fill_msg(new))
    BY <1>7 DEF detect_info, poflr_port_report
  <2>2. n \in Names /\ sys[n] # 0
    BY <1>2 DEF Present
  <2>3. port[a] \in PortInfo /\ map \subseteq Adrs
    BY <1>1, <1>2, Structures
  <2>4. new \in PortInfo
    <3> DEFINE q == [port[a] EXCEPT !.sysIndex = sys[n]]
    <3>1. sys[n] \in 0..MaxSys
      BY <1>1, <2>2 DEF TypeInv, SysType
    <3>2. live[n] \in BOOLEAN
      BY <1>1, <2>2 DEF TypeInv, FlagType
    <3>3. q \in PortInfo
      BY <2>3, <3>1, PortUpdate
    <3>4. new = [q EXCEPT !.live = live[n]]
      OBVIOUS
    <3> HIDE DEF q, new, n
    <3> QED
      BY <3>2, <3>3, <3>4, PortUpdate
  <2>5. new.name = n /\ new.pofIndex = port[a].pofIndex /\ new.sysIndex = sys[n]
    BY <2>3 DEF PortInfo
  <2>6. new.enable = port[a].enable
    BY <2>3 DEF PortInfo
  <2>7. port[a].name = n
    OBVIOUS
  <2>8. job' \in [Tasks -> JobType] /\ job'["detect"] = j /\ \A u \in Tasks \ {"detect"} : job'[u] = job[u]
    BY <1>1, <1>2, <1>4, JobSet, TasksAre
  <2> HIDE DEF new, n, j, a
  <2>9. /\ port' \in Seq(PortInfo) /\ Len(port') = Len(port) /\ Adrs' = Adrs
        /\ port'[a] = new /\ \A b \in Adrs \ {a} : port'[b] = port[b]
    BY <1>1, <1>2, <2>1, <2>4, PortSet DEF Adrs
  <2>10. ASSUME NEW b \in map
         PROVE  /\ port'[b].name = port[b].name /\ port'[b].pofIndex = port[b].pofIndex
    BY <2>3, <2>5, <2>7, <2>9
  <2>11. ASSUME NEW b \in map PROVE port'[b].enable = port[b].enable
    BY <2>3, <2>6, <2>9
  <2>12. SamePorts
    BY <1>2, <2>10 DEF SamePorts
  <2> DEFINE m == port_report_fill_msg(new)
  <2>13. m \in MsgType /\ m.id = port[a].pofIndex /\ m.name = port[a].name
    BY <2>4, <2>5, <2>7, ReportType
  <2> HIDE DEF m
  <2>14. ctl' \in SUBSET MsgType /\ ctl' \subseteq ctl \cup {m}
    BY <1>1, <2>1, <2>13, ToldType DEF m
  <2>15. TypeInv'
    <3>1. StructType'
      BY <1>1, <1>2, <2>9 DEF TypeInv, StructType
    <3>2. JobsType'
      BY <1>1, <1>2, <1>4, <2>9, JobsTypeKept, MapInAdrs, TasksAre
    <3>3. SysType'
      BY <1>1, <1>2 DEF TypeInv, SysType
    <3>4. ChanType'
      BY <1>1, <1>2, <2>14 DEF TypeInv, ChanType
    <3> QED
      BY <1>3, <3>1, <3>2, <3>3, <3>4 DEF TypeInv
  <2>16. ControlInv'
    <3>1. ASSUME NEW u \in Tasks PROVE MayDo(u, job'[u])
      BY <1>1, <1>5, <2>8 DEF ControlInv
    <3>2. ASSUME NEW u \in Tasks PROVE MayDo(u, job[u])'
      <4>1. MayDo(u, job'[u])
        BY <3>1
      <4> QED
        BY <1>2, <4>1, Zenon DEF MayDo
    <3> QED
      BY <3>2 DEF ControlInv
  <2>17. NoNewAdding
    BY <1>4, <2>8 DEF NoNewAdding
  <2>18. HashInv'
    BY <1>1, <2>12, <2>17, HashFrame
  <2>19. CountInv'
    <3>1. Owed' = Owed
      BY <1>2, <2>12, OwedKept
    <3>2. ~Vanished'
      BY <1>4, <2>8 DEF Vanished
    <3>3. job'["listener"] = job["listener"]
      BY <2>8 DEF Tasks
    <3> QED
      BY <1>1, <1>2, <2>9, <3>1, <3>2, <3>3, CountFrame
  <2>20. OwnInv'
    <3>1. /\ \A k, l \in Names : sys[k] = sys[l] /\ sys[k] # 0 => k = l
          /\ \A k \in Names : sys[k] <= lastSys
          /\ \A b, c \in map : b # c => Own(b) \cap Own(c) = {}
          /\ \A b \in map : \A k \in Names : sys[k] \in Own(b) => port[b].name = k
          /\ \A b \in map : \A i \in Own(b) : i <= lastSys
      BY <1>1 DEF OwnInv
    <3>2. ASSUME NEW b \in map, b # a PROVE Own(b)' = Own(b) /\ sys[n] \notin Own(b)
      <4>1. port'[b] = port[b]
        BY <2>3, <2>9, <3>2
      <4>2. port[b].name # n
        <5>1. CASE port[b].name = ""
          BY <2>2, <5>1, Hashes
        <5>2. CASE Hash(port[b].name) # Hash(port[a].name)
          BY <2>7, <5>2
        <5> QED
          BY <1>1, <1>2, <3>2, <5>1, <5>2 DEF HashInv
      <4> QED
        BY <1>2, <2>2, <3>1, <4>1, <4>2 DEF Own
    <3>3. PICK A : A = a
      OBVIOUS
    <3>4. Own(A)' \subseteq Own(a) \cup {sys[n]}
      BY <1>2, <2>5, <2>9, <3>3 DEF Own
    <3>5. ASSUME NEW b \in map, b # a PROVE Own(b) \cap Own(A)' = {}
      <4>1. Own(b) \cap Own(a) = {} /\ sys[n] \notin Own(b)
        BY <1>2, <3>1, <3>2, <3>5
      <4> QED
        BY <3>4, <4>1
    <3>6. ASSUME NEW b \in map, NEW c \in map, b # c PROVE Own(b)' \cap Own(c)' = {}
      <4>1. CASE b # a /\ c # a
        BY <3>1, <3>2, <3>6, <4>1
      <4>2. CASE b = a
        <5>1. Own(b)' = Own(A)' /\ c # a
          BY <3>3, <3>6, <4>2
        <5> QED
          BY <3>2, <3>5, <5>1
      <4>3. CASE c = a
        <5>1. Own(c)' = Own(A)' /\ b # a
          BY <3>3, <3>6, <4>3
        <5> QED
          BY <3>2, <3>5, <5>1
      <4> QED
        BY <4>1, <4>2, <4>3
    <3>7. ASSUME NEW b \in map, NEW k \in Names, sys[k] \in Own(b)' PROVE port'[b].name = k
      <4>1. CASE b # a
        BY <2>10, <3>1, <3>2, <3>7, <4>1
      <4>2. CASE b = a
        <5>1. sys[k] \in Own(a) \/ sys[k] = sys[n]
          BY <3>3, <3>4, <3>7, <4>2
        <5>2. CASE sys[k] \in Own(a)
          BY <1>2, <2>10, <3>1, <4>2, <5>2
        <5>3. CASE sys[k] = sys[n]
          <6>1. k = n
            BY <2>2, <3>1, <5>3
          <6> QED
            BY <2>7, <2>10, <4>2, <6>1
        <5> QED
          BY <5>1, <5>2, <5>3
      <4> QED
        BY <4>1, <4>2
    <3>8. ASSUME NEW b \in map, NEW i \in Own(b)' PROVE i <= lastSys
      <4>1. CASE b # a
        BY <3>1, <3>2, <4>1
      <4>2. CASE b = a
        <5>1. i \in Own(a) \/ i = sys[n]
          BY <3>3, <3>4, <4>2
        <5> QED
          BY <1>2, <2>2, <3>1, <5>1
      <4> QED
        BY <4>1, <4>2
    <3> QED
      BY <1>2, <3>1, <3>6, <3>7, <3>8 DEF OwnInv
  <2>21. ASSUME MaxSys < IndexRange PROVE IndexInv' /\ GrantInv'
    <3>1. IndexInv /\ GrantInv
      BY <1>1, <2>21
    <3>2. KnownFromPorts
      <4>1. job'["main"] = job["main"]
        BY <2>8 DEF Tasks
      <4> QED
        BY <1>2, <2>13, <2>14, <4>1 DEF KnownFromPorts, Known
    <3>3. IndexInv'
      BY <1>2, <2>9, <2>12, <3>1, <3>2, IndexFrame
    <3>4. GrantInv'
      BY <1>2, <2>11, <2>12, <3>1, GrantFrame
    <3> QED
      BY <3>3, <3>4
  <2> QED
    BY <2>15, <2>16, <2>18, <2>19, <2>20, <2>21 DEF IInv
<1> QED
  BY <1>6, <1>7

\* The steps of a receive task.
LEMMA TaskStep ==
    ASSUME IInv, halted = "no", NEW a \in map \cup Adrs, NEW e \in TaskType, task' = [task EXCEPT ![a] = e],
           e.bound = task[a].bound \/ e.bound = port[a].sysIndex,
           UNCHANGED <<system, port, map, portIndex, job, channel, custom, fresh, halted>>
    PROVE  IInv'
<1>1. TypeInv
  BY DEF IInv
<1>2. /\ UNCHANGED <<sys, lastSys, port, map, portIndex, ctl, mod>> /\ job' = job
      /\ custom' = custom /\ granted' = granted /\ conn' = conn
  BY DEF system, channel
<1>3. FlagType'
  BY <1>1 DEF TypeInv, FlagType, system, channel
<1>4. ChanType'
  BY <1>1, <1>2 DEF TypeInv, ChanType
<1>5. task \in [Adrs -> TaskType] /\ map \subseteq Adrs
  BY <1>1 DEF TypeInv, StructType
<1>6. Adrs' = Adrs /\ Len(port') = Len(port)
  BY <1>2 DEF Adrs
<1>7. task' \in [Adrs -> TaskType] /\ \A b \in Adrs : task'[b] = IF b = a THEN e ELSE task[b]
  BY <1>5
<1>8. StructType'
  BY <1>1, <1>2, <1>6, <1>7 DEF TypeInv, StructType
<1>9. SamePorts
  BY <1>2 DEF SamePorts
<1>10. SameOwn
  BY <1>2, <1>5, <1>7 DEF SameOwn
<1>11. ASSUME GrantInv PROVE GrantInv'
  BY <1>2, <1>9, <1>11, GrantFrame
<1> QED
  BY <1>2, <1>3, <1>4, <1>6, <1>8, <1>9, <1>10, <1>11, QuietStep

LEMMA Receives ==
    ASSUME IInv, NEW a \in Adrs, Receive(a)
    PROVE  IInv'
<1>1. TypeInv
  BY DEF IInv
<1>2. task \in [Adrs -> TaskType] /\ map \subseteq Adrs /\ task[a] \in TaskType
  BY <1>1 DEF TypeInv, StructType
<1>3. CASE recv_start(a)
  <2> DEFINE e == [pc |-> "wait", bound |-> port[a].sysIndex]
  <2>1. port[a] \in PortInfo
    BY <1>1, <1>3, Structures DEF recv_start
  <2>2. e \in TaskType /\ e.bound = port[a].sysIndex
    BY <2>1 DEF PortInfo, TaskType
  <2>3. /\ halted = "no" /\ task' = [task EXCEPT ![a] = e]
        /\ UNCHANGED <<system, port, map, portIndex, job, channel, custom, fresh, halted>>
    BY <1>3 DEF recv_start
  <2> HIDE DEF e
  <2> QED
    BY <2>2, <2>3, TaskStep
<1>4. CASE recv_packet(a)
  <2> DEFINE e == [task[a] EXCEPT !.pc = "busy"]
  <2>1. e \in TaskType /\ e.bound = task[a].bound
    BY <1>2 DEF TaskType
  <2>2. /\ halted = "no" /\ task' = [task EXCEPT ![a] = e]
        /\ UNCHANGED <<system, port, map, portIndex, job, channel, custom, fresh, halted>>
    BY <1>2, <1>4 DEF recv_packet
  <2> HIDE DEF e
  <2> QED
    BY <2>1, <2>2, TaskStep
<1>5. CASE recv_use(a)
  <2> DEFINE e == [task[a] EXCEPT !.pc = "wait"]
  <2>1. e \in TaskType /\ e.bound = task[a].bound
    BY <1>2 DEF TaskType
  <2>2. /\ halted = "no" /\ task' = [task EXCEPT ![a] = e]
        /\ UNCHANGED <<system, port, map, portIndex, job, channel, custom, fresh, halted>>
    BY <1>2, <1>5 DEF recv_use
  <2> HIDE DEF e
  <2> QED
    BY <2>1, <2>2, TaskStep
<1> QED
  BY <1>3, <1>4, <1>5 DEF Receive
LEMMA Controller ==
    ASSUME IInv, NEW v \in ctl, NEW flag \in BOOLEAN, controller(v, flag)
    PROVE  IInv'
<1> DEFINE m == [id |-> v.id, flag |-> flag]
<1>1. TypeInv
  BY DEF IInv
<1>2. /\ halted = "no" /\ UNCHANGED <<port, map, task, sys, lastSys, portIndex, ctl>> /\ job' = job
      /\ custom' = custom /\ conn' = conn /\ mod' = {m}
      /\ granted' = IF flag THEN granted \cup {v.name} ELSE granted
  BY DEF controller, system
<1>3. FlagType'
  BY <1>1, <1>2 DEF TypeInv, FlagType, controller, system
<1>4. v \in Known /\ v \in MsgType
  BY <1>1 DEF Known, TypeInv, ChanType
<1>5. m \in ModType
  BY <1>4 DEF ModType, MsgType
<1>6. ChanType'
  BY <1>1, <1>2, <1>5 DEF TypeInv, ChanType
<1>7. m.id = v.id /\ m.flag = flag
  OBVIOUS
<1>8. SamePorts /\ SameOwn /\ Len(port') = Len(port) /\ Adrs' = Adrs /\ StructType'
  BY <1>1, <1>2, StillPorts DEF TypeInv
<1> HIDE DEF m
<1>9. ASSUME MaxSys < IndexRange, IndexInv, GrantInv PROVE GrantInv'
  <2>1. granted \subseteq granted' /\ (flag => v.name \in granted')
    BY <1>2
  <2>2. ASSUME flag
        PROVE  /\ \A a \in map : port[a].pofIndex = m.id => port[a].name \in granted'
               /\ m.id = 0 => "" \in granted'
    <3>1. /\ \A a \in map : port[a].pofIndex = v.id => port[a].name = v.name
          /\ v.id = 0 => v.name = ""
      BY <1>2, <1>4, <1>9 DEF IndexInv
    <3> QED
      BY <1>7, <2>1, <2>2, <3>1
  <2>3. ASSUME NEW a \in map, conn # "down", port[a].enable PROVE port[a].name \in granted'
    BY <1>9, <2>1, <2>3 DEF GrantInv, EnabledAsMeant
  <2> QED
    BY <1>2, <1>7, <2>2, <2>3 DEF GrantInv, EnabledAsMeant
<1>10. \A k \in mod' : \E w \in Known : k.id = w.id
  BY <1>2, <1>4, <1>7
<1> QED
  BY <1>2, <1>3, <1>6, <1>8, <1>9, <1>10, QuietStep

LEMMA Link ==
    ASSUME IInv, NEW n \in Names, link(n)
    PROVE  IInv'
<1>1. TypeInv
  BY DEF IInv
<1>2. /\ halted = "no" /\ UNCHANGED <<port, map, task, sys, lastSys, portIndex, ctl, mod>> /\ job' = job
      /\ custom' = custom /\ conn' = conn /\ granted' = granted
  BY DEF link, channel
<1>3. FlagType'
  <2>1. live' \in [Names -> BOOLEAN]
    BY <1>1 DEF TypeInv, FlagType, link
  <2> QED
    BY <1>1, <2>1 DEF TypeInv, FlagType, link, channel
<1>4. ChanType'
  BY <1>1, <1>2 DEF TypeInv, ChanType
<1>5. SamePorts /\ SameOwn /\ Len(port') = Len(port) /\ Adrs' = Adrs /\ StructType'
  BY <1>1, <1>2, StillPorts DEF TypeInv
<1>6. ASSUME GrantInv PROVE GrantInv'
  BY <1>2, <1>5, <1>6, GrantFrame
<1> QED
  BY <1>2, <1>3, <1>4, <1>5, <1>6, QuietStep
-----------------------------------------------------------------------------
(* Interfaces come and go.                                                 *)

LEMMA SystemStep ==
    ASSUME IInv, halted = "no",
           UNCHANGED <<port, map, task, portIndex, ctl, mod>>, job' = job,
           custom' = custom, granted' = granted, conn' = conn,
           SysType', FlagType', OwnInv', CountInv'
    PROVE  IInv'
<1>1. TypeInv /\ ControlInv /\ HashInv /\ (MaxSys < IndexRange => IndexInv /\ GrantInv)
  BY DEF IInv
<1>2. SamePorts /\ Len(port') = Len(port) /\ Adrs' = Adrs /\ StructType'
  BY <1>1, StillPorts DEF TypeInv
<1>3. TypeInv'
  BY <1>1, <1>2 DEF TypeInv, JobsType, ChanType
<1>4. ControlInv'
  BY <1>1, ControlKept
<1>5. HashInv'
  <2>1. NoNewAdding
    BY DEF NoNewAdding
  <2> QED
    BY <1>1, <1>2, <2>1, HashFrame
<1>6. ASSUME MaxSys < IndexRange PROVE IndexInv' /\ GrantInv'
  <2>1. KnownFromPorts
    BY DEF KnownFromPorts, Known
  <2>2. IndexInv'
    BY <1>1, <1>2, <1>6, <2>1, IndexFrame
  <2>3. GrantInv'
    BY <1>1, <1>2, <1>6, GrantFrame
  <2> QED
    BY <2>2, <2>3
<1> QED
  BY <1>3, <1>4, <1>5, <1>6 DEF IInv

LEMMA Plug ==
    ASSUME IInv, NEW n \in Names, plug(n)
    PROVE  IInv'
<1>1. TypeInv /\ ControlInv /\ HashInv /\ CountInv /\ OwnInv
  BY DEF IInv
<1>2. /\ halted = "no" /\ sys[n] = 0 /\ lastSys < MaxSys /\ lastSys' = lastSys + 1
      /\ sys' = [sys EXCEPT ![n] = lastSys + 1]
      /\ UNCHANGED <<port, map, task, portIndex, ctl, mod>> /\ job' = job
      /\ custom' = custom /\ granted' = granted /\ conn' = conn
  BY DEF plug, channel
<1>3. FlagType'
  BY <1>1 DEF TypeInv, FlagType, plug, channel
<1>4. /\ sys \in [Names -> 0..MaxSys] /\ lastSys \in Nat /\ MaxSys \in Nat /\ Len(port) \in Nat
  BY <1>1, Numbers, Structures DEF TypeInv, SysType
<1>5. SysType'
  BY <1>1, <1>2, <1>4 DEF TypeInv, SysType
<1>6. /\ \A k \in Names : sys'[k] = IF k = n THEN lastSys + 1 ELSE sys[k]
      /\ \A k \in Names : sys[k] \in Nat
  BY <1>2, <1>4
<1>7. OwnInv'
  <2>1. /\ \A k, m \in Names : sys[k] = sys[m] /\ sys[k] # 0 => k = m
        /\ \A k \in Names : sys[k] <= lastSys
        /\ \A a, b \in map : a # b => Own(a) \cap Own(b) = {}
        /\ \A a \in map : \A k \in Names : sys[k] \in Own(a) => port[a].name = k
        /\ \A a \in map : \A i \in Own(a) : i <= lastSys
    BY <1>1 DEF OwnInv
  <2>2. ASSUME NEW a \in map PROVE Own(a)' = Own(a) /\ \A i \in Own(a) : i \in Nat
    <3>1. port[a] \in PortInfo /\ task[a] \in TaskType
      BY <1>1, Structures
    <3>2. port[a].sysIndex \in Nat /\ task[a].bound \in Nat
      BY <3>1, Numbers DEF PortInfo, TaskType
    <3> QED
      BY <1>2, <3>2 DEF Own
  <2>3. ASSUME NEW k \in Names, NEW m \in Names, sys'[k] = sys'[m], sys'[k] # 0 PROVE k = m
    <3>1. sys[k] <= lastSys /\ sys[m] <= lastSys /\ sys[k] \in Nat /\ sys[m] \in Nat
      BY <1>6, <2>1
    <3>2. sys'[k] = (IF k = n THEN lastSys + 1 ELSE sys[k]) /\ sys'[m] = (IF m = n THEN lastSys + 1 ELSE sys[m])
      BY <1>6
    <3>3. CASE k # n /\ m # n
      <4>1. sys[k] = sys[m] /\ sys[k] # 0
        BY <2>3, <3>2, <3>3
      <4> QED
        BY <2>1, <4>1
    <3>4. CASE k = n /\ m # n
      <4>1. sys[m] = lastSys + 1
        BY <2>3, <3>2, <3>4
      <4> QED
        BY <1>4, <3>1, <4>1
    <3>5. CASE k # n /\ m = n
      <4>1. sys[k] = lastSys + 1
        BY <2>3, <3>2, <3>5
      <4> QED
        BY <1>4, <3>1, <4>1
    <3> QED
      BY <3>3, <3>4, <3>5
  <2>4. ASSUME NEW k \in Names PROVE sys'[k] <= lastSys'
    <3>1. sys[k] <= lastSys /\ sys[k] \in Nat
      BY <1>6, <2>1
    <3> QED
      BY <1>2, <1>4, <1>6, <3>1
  <2>5. ASSUME NEW a \in map, NEW k \in Names, sys'[k] \in Own(a) PROVE port[a].name = k
    <3>1. sys'[k] <= lastSys
      BY <2>1, <2>5
    <3>2. k # n
      BY <1>4, <1>6, <3>1
    <3> QED
      BY <1>6, <2>1, <2>5, <3>2
  <2>6. ASSUME NEW a \in map, NEW i \in Own(a) PROVE i <= lastSys'
    <3>1. i <= lastSys /\ i \in Nat
      BY <2>1, <2>2
    <3> QED
      BY <1>2, <1>4, <3>1
  <2> QED
    BY <1>2, <2>1, <2>2, <2>3, <2>4, <2>5, <2>6 DEF OwnInv
<1>8. CountInv'
  <2>1. CASE custom
    BY <1>1, <1>2, <2>1 DEF CountInv, Adding
  <2>2. CASE ~custom
    <3>1. Len(port) + Cardinality(Owed) + (IF Vanished THEN 1 ELSE 0) <= lastSys
      BY <1>1, <1>2, <2>2 DEF CountInv
    <3>2. IsFiniteSet(Owed) /\ Cardinality(Owed) \in Nat /\ Cardinality(Owed)' \in Nat
      <4>1. Owed' \in SUBSET Names /\ IsFiniteSet(Names)
        BY PortsAssumption DEF Owed
      <4>2. IsFiniteSet(Owed')
        BY <4>1, FS_Subset
      <4> QED
        BY <4>2, OwedFinite, FS_CardinalityType
    <3>3. Owed' \subseteq Owed \cup {n}
      BY <1>2, <1>6 DEF Owed
    <3>4. Cardinality(Owed') <= Cardinality(Owed) + 1
      <4>1. /\ IsFiniteSet(Owed \cup {n})
            /\ Cardinality(Owed \cup {n}) = IF n \in Owed THEN Cardinality(Owed) ELSE Cardinality(Owed) + 1
        BY <3>2, FS_AddElement
      <4>2. Cardinality(Owed') <= Cardinality(Owed \cup {n})
        BY <3>3, <4>1, FS_Subset
      <4> QED
        BY <3>2, <4>1, <4>2
    <3>5. Vanished' => Vanished
      BY <1>2, <1>4, <1>6 DEF Vanished, Present
    <3>6. Len(port') + Cardinality(Owed') + (IF Vanished' THEN 1 ELSE 0) <= lastSys'
      BY <1>2, <1>4, <3>1, <3>2, <3>4, <3>5
    <3> QED
      BY <1>2, <2>2, <3>6 DEF CountInv
  <2> QED
    BY <2>1, <2>2
<1> QED
  BY <1>2, <1>3, <1>5, <1>7, <1>8, SystemStep

LEMMA Unplug ==
    ASSUME IInv, NEW n \in Names, unplug(n)
    PROVE  IInv'
<1>1. TypeInv /\ ControlInv /\ HashInv /\ CountInv /\ OwnInv
  BY DEF IInv
<1>2. /\ halted = "no" /\ sys[n] # 0 /\ lastSys' = lastSys
      /\ sys' = [sys EXCEPT ![n] = 0]
      /\ UNCHANGED <<port, map, task, portIndex, ctl, mod>> /\ job' = job
      /\ custom' = custom /\ granted' = granted /\ conn' = conn
  BY DEF unplug, channel
<1>3. FlagType'
  <2>1. live' \in [Names -> BOOLEAN]
    BY <1>1 DEF TypeInv, FlagType, unplug
  <2> QED
    BY <1>1, <2>1 DEF TypeInv, FlagType, unplug, channel
<1>4. /\ sys \in [Names -> 0..MaxSys] /\ lastSys \in Nat /\ MaxSys \in Nat /\ Len(port) \in Nat
  BY <1>1, Numbers, Structures DEF TypeInv, SysType
<1>5. SysType'
  BY <1>1, <1>2, <1>4 DEF TypeInv, SysType
<1>6. \A k \in Names : sys'[k] = IF k = n THEN 0 ELSE sys[k]
  BY <1>2, <1>4
<1>7. OwnInv'
  <2>1. /\ \A k, m \in Names : sys[k] = sys[m] /\ sys[k] # 0 => k = m
        /\ \A k \in Names : sys[k] <= lastSys
        /\ \A a, b \in map : a # b => Own(a) \cap Own(b) = {}
        /\ \A a \in map : \A k \in Names : sys[k] \in Own(a) => port[a].name = k
        /\ \A a \in map : \A i \in Own(a) : i <= lastSys
    BY <1>1 DEF OwnInv
  <2>2. ASSUME NEW a \in map PROVE Own(a)' = Own(a) /\ 0 \notin Own(a)
    BY <1>2 DEF Own
  <2>3. \A k, m \in Names : sys'[k] = sys'[m] /\ sys'[k] # 0 => k = m
    BY <1>6, <2>1
  <2>4. \A k \in Names : sys'[k] <= lastSys
    BY <1>4, <1>6, <2>1
  <2>5. ASSUME NEW a \in map, NEW k \in Names, sys'[k] \in Own(a) PROVE port[a].name = k
    BY <1>6, <2>1, <2>2, <2>5
  <2> QED
    BY <1>2, <2>1, <2>2, <2>3, <2>4, <2>5 DEF OwnInv
<1>8. CountInv'
  <2>1. CASE custom
    BY <1>1, <1>2, <2>1 DEF CountInv, Adding
  <2>2. CASE ~custom
    <3>1. Len(port) + Cardinality(Owed) + (IF Vanished THEN 1 ELSE 0) <= lastSys
      BY <1>1, <1>2, <2>2 DEF CountInv
    <3>2. IsFiniteSet(Owed) /\ Cardinality(Owed) \in Nat
      BY OwedFinite
    <3>3. Owed' = Owed \ {n}
      BY <1>2, <1>6 DEF Owed
    <3>4. /\ IsFiniteSet(Owed')
          /\ Cardinality(Owed') = IF n \in Owed THEN Cardinality(Owed) - 1 ELSE Cardinality(Owed)
      BY <3>2, <3>3, FS_RemoveElement
    <3>5. Cardinality(Owed') \in Nat
      BY <3>4, FS_CardinalityType
    <3>6. Vanished' => Vanished \/ n \in Owed
      <4>1. ASSUME Vanished', ~Vanished PROVE n \in Owed
        <5>1. job["detect"].pc = "set" /\ ~Present(job["detect"].name)' /\ Present(job["detect"].name)
          BY <1>2, <4>1 DEF Vanished
        <5>2. job["detect"].name = n
          BY <1>2, <1>6, <5>1 DEF Present
        <5>3. Adding("detect")
          BY <5>1 DEF Adding
        <5> QED
          BY <1>1, <1>2, <5>2, <5>3, AddedIsOwed, TasksAre
      <4> QED
        BY <4>1
    <3>7. Len(port') + Cardinality(Owed') + (IF Vanished' THEN 1 ELSE 0) <= lastSys'
      BY <1>2, <1>4, <3>1, <3>2, <3>4, <3>5, <3>6
    <3> QED
      BY <1>2, <2>2, <3>7 DEF CountInv
  <2> QED
    BY <2>1, <2>2
<1> QED
  BY <1>2, <1>3, <1>5, <1>7, <1>8, SystemStep

\* The process ends.
LEMMA Halts ==
    ASSUME IInv, NEW why \in {"exit", "wild"}, Halt(why)
    PROVE  IInv'
<1>1. TypeInv /\ OwnInv
  BY DEF IInv
<1>2. /\ halted' = why /\ port' = <<>> /\ map' = {} /\ task' = <<>>
      /\ job' = [t \in Tasks |-> Idle]
      /\ conn' = "down" /\ ctl' = {} /\ mod' = {}
      /\ UNCHANGED <<sys, lastSys, portIndex>> /\ custom' = custom
  BY DEF Halt, system
<1>3. FlagType'
  BY <1>1, <1>2 DEF TypeInv, FlagType, Halt, system
<1>4. StructType'
  <2>1. port' \in Seq(PortInfo) /\ Len(port') = 0 /\ Adrs' = {}
    BY <1>2, EmptySeq DEF Adrs
  <2>2. task' \in [Adrs' -> TaskType]
    BY <1>2, <2>1
  <2> QED
    BY <1>2, <2>1, <2>2, Numbers DEF StructType
<1>5. \A t \in Tasks : job'[t] = Idle
  BY <1>2
<1>6. JobsType'
  BY <1>2, <1>5, IdleJob DEF JobsType
<1>7. TypeInv'
  BY <1>1, <1>2, <1>3, <1>4, <1>6 DEF TypeInv, SysType, ChanType
<1>8. ControlInv'
  <2>1. ASSUME NEW u \in Tasks PROVE MayDo(u, job[u])'
    BY <1>5, IdleJob DEF MayDo
  <2> QED
    BY <2>1 DEF ControlInv
<1>9. HashInv'
  BY <1>2, <1>5, IdleJob DEF HashInv, Adding
<1>10. OwnInv'
  BY <1>1, <1>2 DEF OwnInv
<1>11. CountInv'
  BY <1>2 DEF CountInv
<1>12. IndexInv' /\ GrantInv'
  BY <1>2 DEF IndexInv, GrantInv, EnabledAsMeant
<1> QED
  BY <1>7, <1>8, <1>9, <1>10, <1>11, <1>12 DEF IInv
-----------------------------------------------------------------------------
(* The initial states.                                                     *)

LEMMA FunctionIsSeq ==
    ASSUME NEW S, NEW n \in Nat, NEW f \in [1..n -> S]
    PROVE  f \in Seq(S) /\ Len(f) = n
<1>1. f \in Seq(S)
  BY SeqDef
<1>2. DOMAIN f = 1..n /\ DOMAIN f = 1..Len(f) /\ Len(f) \in Nat
  BY <1>1, LenProperties
<1> QED
  BY <1>1, <1>2

\* SetToSeq lists the elements of a finite set, each of them once.
LEMMA Listing ==
    ASSUME NEW S, IsFiniteSet(S)
    PROVE  /\ Cardinality(S) \in Nat
           /\ SetToSeq(S) \in [1..Cardinality(S) -> S]
           /\ \A i, j \in 1..Cardinality(S) : SetToSeq(S)[i] = SetToSeq(S)[j] => i = j
           /\ \A e \in S : \E i \in 1..Cardinality(S) : SetToSeq(S)[i] = e
<1> DEFINE C == Cardinality(S)
           s == SetToSeq(S)
<1>1. C \in Nat /\ ExistsBijection(1..C, S)
  BY FS_CardinalityType
<1>2. \E f \in [1..C -> S] : IsInjective(f)
  BY <1>1, Zenon DEF ExistsBijection, Bijection, Injection
<1>3. s \in [1..C -> S] /\ IsInjective(s)
  BY <1>2, Zenon DEF SetToSeq
<1>4. s \in Injection(1..C, S)
  BY <1>3, Zenon DEF Injection
<1>5. Cardinality(1..C) = C
  <2>1. 1 \in Int /\ C \in Int
    BY <1>1
  <2>2. Cardinality(1..C) = IF 1 > C THEN 0 ELSE C - 1 + 1
    BY <2>1, FS_Interval
  <2> HIDE DEF C
  <2> QED
    BY <1>1, <2>2
<1>6. s \in Surjection(1..C, S)
  <2> HIDE DEF s
  <2> QED  BY <1>4, <1>5, FS_Injection, Zenon
<1>7. \A e \in S : \E i \in 1..C : s[i] = e
  BY <1>6, Zenon DEF Surjection
<1>8. \A i, j \in 1..C : s[i] = s[j] => i = j
  <2>1. DOMAIN s = 1..C
    BY <1>3
  <2> HIDE DEF s, C
  <2> QED  BY <1>3, <2>1, Zenon DEF IsInjective
<1> QED
  BY <1>1, <1>3, <1>7, <1>8, Zenon

\* The system's indexes of the interfaces of the beginning.
FirstIndex(S) ==
    [n \in Names |-> IF n \in S THEN CHOOSE i \in 1..Cardinality(S) : SetToSeq(S)[i] = n ELSE 0]

LEMMA FirstIndexes ==
    ASSUME NEW S \in SUBSET Names, Cardinality(S) <= MaxSys
    PROVE  /\ IsFiniteSet(S) /\ Cardinality(S) \in 0..MaxSys
           /\ FirstIndex(S) \in [Names -> 0..MaxSys]
           /\ \A n \in Names : FirstIndex(S)[n] <= Cardinality(S)
           /\ \A n \in Names : FirstIndex(S)[n] # 0 <=> n \in S
           /\ \A n, m \in Names : FirstIndex(S)[n] = FirstIndex(S)[m] /\ FirstIndex(S)[n] # 0 => n = m
<1>1. IsFiniteSet(S)
  BY PortsAssumption, FS_Subset
<1>2. PICK C \in Nat : C = Cardinality(S)
  BY <1>1, Listing
<1>3. PICK s \in [1..C -> S] : s = SetToSeq(S)
  BY <1>1, <1>2, Listing
<1>4. \A e \in S : \E i \in 1..C : s[i] = e
  BY <1>1, <1>2, <1>3, Listing
<1>5. PICK f : f = FirstIndex(S)
  OBVIOUS
<1>6. /\ DOMAIN f = Names /\ f = [n \in Names |-> f[n]]
      /\ \A n \in Names : f[n] =
            IF n \in S THEN CHOOSE i \in 1..Cardinality(S) : SetToSeq(S)[i] = n ELSE 0
  BY <1>5 DEF FirstIndex
<1>7. ASSUME NEW n \in S PROVE f[n] \in 1..C /\ s[f[n]] = n
  <2>1. n \in Names
    OBVIOUS
  <2>2. f[n] = CHOOSE i \in 1..Cardinality(S) : SetToSeq(S)[i] = n
    BY <1>6, <2>1, Zenon
  <2>3. \E i \in 1..Cardinality(S) : SetToSeq(S)[i] = n
    BY <1>2, <1>3, <1>4
  <2>4. f[n] \in 1..Cardinality(S) /\ SetToSeq(S)[f[n]] = n
    BY <2>2, <2>3, Zenon
  <2> QED
    BY <1>2, <1>3, <2>4
<1>8. ASSUME NEW n \in Names, n \notin S PROVE f[n] = 0
  BY <1>6, <1>8
<1>9. C <= MaxSys /\ MaxSys \in Nat
  BY <1>2, Numbers
<1>10. ASSUME NEW n \in Names PROVE f[n] \in 0..MaxSys /\ f[n] <= C /\ (f[n] # 0 <=> n \in S)
  <2>1. CASE n \in S
    BY <1>7, <1>9, <2>1
  <2>2. CASE n \notin S
    BY <1>8, <1>9, <2>2
  <2> QED
    BY <2>1, <2>2
<1>11. f \in [Names -> 0..MaxSys]
  BY <1>6, <1>10
<1>12. ASSUME NEW n \in Names, NEW m \in Names, f[n] = f[m], f[n] # 0 PROVE n = m
  <2>1. n \in S /\ m \in S
    BY <1>10, <1>12
  <2>2. s[f[n]] = n /\ s[f[m]] = m
    BY <1>7, <2>1
  <2> QED
    BY <1>12, <2>2
<1>13. C \in 0..MaxSys
  BY <1>9
<1> QED
  BY <1>1, <1>2, <1>5, <1>10, <1>11, <1>12, <1>13, Zenon

\* The ports of the beginning, as Init writes them.
FirstPort(s, a) ==
    [name |-> s[a], sysIndex |-> sys[s[a]], live |-> FALSE, pofIndex |-> a % IndexRange, enable |-> FALSE]

LEMMA InitStep == Init => IInv
<1> SUFFICES ASSUME Init PROVE IInv
  OBVIOUS
<1>1. PICK plugged \in SUBSET Names :
         /\ Cardinality(plugged) <= MaxSys
         /\ sys = FirstIndex(plugged)
         /\ lastSys = Cardinality(plugged)
         /\ live = [n \in Names |-> FALSE]
         /\ \E chosen \in SUBSET plugged :
              /\ custom \/ chosen = plugged
              /\ \A n, m \in chosen : hash[n] = hash[m] => n = m
              /\ port = [a \in 1..Len(SetToSeq(chosen)) |-> FirstPort(SetToSeq(chosen), a)]
  BY Zenon DEF Init, FirstIndex, FirstPort
<1>2. PICK chosen \in SUBSET plugged :
         /\ custom \/ chosen = plugged
         /\ \A n, m \in chosen : hash[n] = hash[m] => n = m
         /\ port = [a \in 1..Len(SetToSeq(chosen)) |-> FirstPort(SetToSeq(chosen), a)]
  BY <1>1
<1>3. /\ map = Adrs /\ portIndex = (Len(port) + 1) % IndexRange
      /\ task = [a \in Adrs |-> Started] /\ job = [t \in Tasks |-> Idle]
      /\ ctl = {} /\ mod = {} /\ conn = "down" /\ halted = "no" /\ fresh = FALSE /\ custom \in BOOLEAN
  BY DEF Init, Adrs
<1>4. /\ sys \in [Names -> 0..MaxSys] /\ lastSys \in 0..MaxSys
      /\ \A n \in Names : sys[n] <= lastSys
      /\ \A n \in Names : sys[n] # 0 <=> n \in plugged
      /\ \A n, m \in Names : sys[n] = sys[m] /\ sys[n] # 0 => n = m
      /\ IsFiniteSet(plugged)
  BY <1>1, FirstIndexes
<1>5. /\ IsFiniteSet(chosen) /\ Cardinality(chosen) <= lastSys
      /\ chosen \subseteq Names
  BY <1>1, <1>4, FS_Subset
<1>6. PICK C \in Nat : C = Cardinality(chosen)
  BY <1>5, Listing
<1>7. PICK s \in [1..C -> chosen] : s = SetToSeq(chosen)
  BY <1>5, <1>6, Listing
<1>8. /\ \A i, j \in 1..C : s[i] = s[j] => i = j
      /\ \A e \in chosen : \E i \in 1..C : s[i] = e
  BY <1>5, <1>6, <1>7, Listing
<1>9. Len(s) = C /\ C <= lastSys /\ lastSys \in Nat /\ MaxSys \in Nat /\ lastSys <= MaxSys
  <2>1. s \in Seq(chosen) /\ Len(s) = C
    BY <1>7, FunctionIsSeq
  <2> QED
    BY <1>4, <1>5, <1>6, <2>1, Numbers
<1>10. port = [a \in 1..C |-> FirstPort(s, a)]
  BY <1>2, <1>7, <1>9
<1>11. ASSUME NEW a \in 1..C
       PROVE  /\ port[a] = FirstPort(s, a) /\ port[a] \in PortInfo /\ port[a].name = s[a] /\ s[a] \in Names
              /\ port[a].sysIndex = sys[s[a]] /\ port[a].pofIndex = a % IndexRange
              /\ sys[s[a]] # 0
  <2>1. s[a] \in chosen /\ s[a] \in Names /\ s[a] \in plugged /\ s[a] \in AnyName
    BY <1>5, <1>7, NamesAreAnyNames
  <2>2. port[a] = FirstPort(s, a)
    BY <1>10
  <2>3. sys[s[a]] \in 0..MaxSys /\ sys[s[a]] # 0
    BY <1>4, <2>1
  <2>4. a % IndexRange \in 0..(IndexRange - 1)
    BY Numbers
  <2>5. FirstPort(s, a) \in PortInfo
    BY <2>1, <2>3, <2>4 DEF FirstPort, PortInfo
  <2> QED
    BY <2>1, <2>2, <2>3, <2>5 DEF FirstPort
<1>12. port \in [1..C -> PortInfo] /\ port \in Seq(PortInfo) /\ Len(port) = C /\ Adrs = 1..C
  <2>1. port \in [1..C -> PortInfo]
    BY <1>10, <1>11
  <2>2. port \in Seq(PortInfo) /\ Len(port) = C
    BY <2>1, FunctionIsSeq
  <2> QED
    BY <2>1, <2>2 DEF Adrs
<1>13. \A t \in Tasks : job[t] = Idle
  BY <1>3
<1>14. TypeInv
  <2>1. Started \in TaskType
    BY Numbers DEF Started, TaskType
  <2>2. StructType
    BY <1>3, <1>9, <1>12, <2>1 DEF StructType
  <2>3. JobsType
    BY <1>3, <1>13, IdleJob DEF JobsType
  <2>4. portIndex \in 0..(IndexRange - 1)
    BY <1>3, <1>12, Numbers
  <2>5. SysType
    BY <1>4, <2>4 DEF SysType
  <2>6. ChanType
    BY <1>3 DEF ChanType
  <2>7. live \in [Names -> BOOLEAN]
    BY <1>1
  <2>8. FlagType
    BY <1>3, <2>7 DEF FlagType
  <2> QED
    BY <2>2, <2>3, <2>5, <2>6, <2>8 DEF TypeInv
<1>15. ControlInv
  BY <1>13, IdleJob DEF ControlInv, MayDo
<1>16. HashInv
  <2>1. ASSUME NEW a \in map, NEW b \in map, a # b PROVE Hash(port[a].name) # Hash(port[b].name)
    <3>1. a \in 1..C /\ b \in 1..C
      BY <1>3, <1>12
    <3>2. s[a] # s[b] /\ s[a] \in chosen /\ s[b] \in chosen
      BY <1>7, <1>8, <2>1, <3>1
    <3>3. hash[s[a]] # hash[s[b]]
      BY <1>2, <3>2
    <3>4. Hash(s[a]) = hash[s[a]] /\ Hash(s[b]) = hash[s[b]]
      BY <1>11, <3>1, Hashes DEF Hash
    <3> QED
      BY <1>11, <3>1, <3>3, <3>4
  <2>2. \A t \in Tasks : ~Adding(t)
    BY <1>13, IdleJob DEF Adding
  <2> QED
    BY <2>1, <2>2 DEF HashInv
<1>17. CountInv
  <2>1. ~Adding("listener") /\ ~Vanished
    BY <1>13, IdleJob, TasksAre DEF Adding, Vanished
  <2>2. CASE custom
    BY <1>9, <1>12, <2>1, <2>2 DEF CountInv
  <2>3. CASE ~custom
    <3>1. chosen = plugged
      BY <1>2, <2>3
    <3>2. ASSUME NEW n \in Owed PROVE FALSE
      <4>1. n \in chosen /\ \A a \in map : port[a].name # n
        BY <1>4, <3>1 DEF Owed
      <4>2. PICK i \in 1..C : s[i] = n
        BY <1>8, <4>1
      <4> QED
        BY <1>3, <1>11, <1>12, <4>1, <4>2
    <3>3. Cardinality(Owed) = 0
      BY <3>2, FS_EmptySet
    <3> QED
      BY <1>9, <1>12, <2>1, <2>3, <3>3 DEF CountInv
  <2> QED
    BY <2>2, <2>3
<1>18. OwnInv
  <2>1. ASSUME NEW a \in map PROVE Own(a) = {sys[s[a]]} /\ a \in 1..C
    <3>1. a \in 1..C
      BY <1>3, <1>12
    <3>2. task[a].bound = 0
      BY <1>3 DEF Started
    <3> QED
      BY <1>11, <3>1, <3>2 DEF Own
  <2>2. ASSUME NEW a \in map, NEW b \in map, a # b PROVE Own(a) \cap Own(b) = {}
    <3>1. s[a] # s[b]
      BY <1>8, <2>1, <2>2
    <3>2. sys[s[a]] # sys[s[b]]
      BY <1>4, <1>11, <2>1, <3>1
    <3> QED
      BY <2>1, <3>2
  <2>3. ASSUME NEW a \in map, NEW n \in Names, sys[n] \in Own(a) PROVE port[a].name = n
    <3>1. sys[n] = sys[s[a]]
      BY <2>1, <2>3
    <3> QED
      BY <1>4, <1>11, <2>1, <3>1
  <2>4. ASSUME NEW a \in map, NEW i \in Own(a) PROVE i <= lastSys
    BY <1>4, <1>11, <2>1
  <2> QED
    BY <1>4, <2>2, <2>3, <2>4 DEF OwnInv
<1>19. ASSUME MaxSys < IndexRange PROVE IndexInv /\ GrantInv
  <2>1. ASSUME NEW a \in 1..C PROVE port[a].pofIndex = a
    <3>1. a \in Nat /\ a < IndexRange /\ IndexRange \in Nat
      BY <1>9, <1>19, Numbers
    <3> QED
      BY <1>11, <3>1
  <2>2. ASSUME Len(port) < MaxSys PROVE portIndex = C + 1
    <3>1. C + 1 \in Nat /\ C + 1 < IndexRange /\ IndexRange \in Nat
      BY <1>9, <1>12, <1>19, <2>2, Numbers
    <3> QED
      BY <1>3, <1>12, <3>1
  <2>3. Known = {}
    BY <1>3, <1>13, IdleJob, TasksAre DEF Known
  <2>4. ASSUME Len(port) < MaxSys
        PROVE  /\ 1 <= portIndex /\ portIndex <= Len(port) + 1
               /\ \A a \in map : port[a].pofIndex < portIndex
    BY <1>3, <1>12, <2>1, <2>2, <2>4
  <2>5. /\ \A a, b \in map : port[a].pofIndex = port[b].pofIndex => port[a].name = port[b].name
        /\ \A a \in map : port[a].pofIndex # 0
    BY <1>3, <1>12, <2>1
  <2>6. IndexInv
    BY <1>3, <2>3, <2>4, <2>5 DEF IndexInv
  <2>7. GrantInv
    BY <1>3 DEF GrantInv, EnabledAsMeant
  <2> QED
    BY <2>6, <2>7
<1> QED
  BY <1>14, <1>15, <1>16, <1>17, <1>18, <1>19 DEF IInv
-----------------------------------------------------------------------------
(* Every step, and the theorems.                                           *)

LEMMA Unchanged ==
    ASSUME IInv, UNCHANGED vars
    PROVE  IInv'
<1>1. /\ port' = port /\ map' = map /\ task' = task /\ job' = job /\ sys' = sys /\ lastSys' = lastSys
      /\ portIndex' = portIndex /\ ctl' = ctl /\ mod' = mod /\ granted' = granted /\ conn' = conn
      /\ custom' = custom /\ fresh' = fresh /\ halted' = halted /\ live' = live
  BY DEF vars, system, channel
<1>2. Adrs' = Adrs /\ Owed' = Owed /\ Vanished' = Vanished /\ Known' = Known
  BY <1>1 DEF Adrs, Owed, Vanished, Present, Known
<1>3. \A t \in Tasks : Adding(t)' = Adding(t) /\ MayDo(t, job[t])' = MayDo(t, job[t])
  BY <1>1 DEF Adding, MayDo
<1>4. \A a : Own(a)' = Own(a)
  BY <1>1 DEF Own
<1>5. TypeInv'
  BY <1>1, <1>2 DEF IInv, TypeInv, StructType, JobsType, SysType, ChanType, FlagType
<1>6. ControlInv'
  BY <1>3 DEF IInv, ControlInv
<1>7. HashInv'
  BY <1>1, <1>3 DEF IInv, HashInv
<1>8. CountInv'
  BY <1>1, <1>2, <1>3, TasksAre DEF IInv, CountInv
<1>9. OwnInv'
  BY <1>1, <1>4 DEF IInv, OwnInv
<1>10. ASSUME MaxSys < IndexRange PROVE IndexInv' /\ GrantInv'
  BY <1>1, <1>2, <1>10 DEF IInv, IndexInv, GrantInv, EnabledAsMeant
<1> QED
  BY <1>5, <1>6, <1>7, <1>8, <1>9, <1>10 DEF IInv

LEMMA NextStep == IInv /\ [Next]_vars => IInv'
<1> SUFFICES ASSUME IInv, [Next]_vars PROVE IInv'
  OBVIOUS
<1>1. CASE Detect
  BY <1>1, DetectBegin, DetectOld, DetectInfo, DetectList, DetectNew, AddSet, AddOpen, TasksAre DEF Detect
<1>2. CASE Reply
  BY <1>2, ReplyFill, ReplySend, ReplyEnd DEF Reply
<1>3. CASE Listener
  BY <1>3, AddSet, AddOpen, AddPort, DelPort, TasksAre DEF Listener
<1>4. CASE terminate_handler
  BY <1>4, Halts DEF terminate_handler
<1>5. CASE use_freed
  BY <1>5, Halts DEF use_freed
<1>6. CASE hello \/ get_config \/ lost
  BY <1>6, Hello, GetConfig, Lost
<1>7. CASE \E m \in mod : port_mod(m)
  BY <1>7, PortMod
<1>8. CASE \E a \in Adrs : Receive(a)
  BY <1>8, Receives DEF Receive
<1>9. CASE \E n \in Names : plug(n) \/ unplug(n) \/ link(n)
  BY <1>9, Plug, Unplug, Link
<1>10. CASE \E v \in ctl, flag \in BOOLEAN : controller(v, flag)
  BY <1>10, Controller
<1>11. CASE UNCHANGED vars
  BY <1>11, Unchanged
<1> QED
  BY <1>1, <1>2, <1>3, <1>4, <1>5, <1>6, <1>7, <1>8, <1>9, <1>10, <1>11 DEF Next

LEMMA Invariance == Spec => []IInv
BY InitStep, NextStep, PTL DEF Spec

\* The type invariant of Ports, of which the bound on the structures says
\* something of the code: without custom ports poflr_add_port has created no
\* more of them than the system has ever had interfaces.
THEOREM TypeCorrect == Spec => []TypeOK
<1>1. IInv => TypeOK
  BY DEF IInv, TypeInv, StructType, JobsType, SysType, FlagType, TypeOK, TaskType
<1> QED
  BY <1>1, Invariance, PTL

\* No interface has two tasks (pofdp_recv_raw_task), whatever the hashes of
\* the names are, and though detection, commands and replies overlap and an
\* interface comes back before poflr_port_detect_old has noticed.
THEOREM OneTaskEach == Spec => []OneTask
<1>1. ASSUME IInv PROVE OneTask
  <2>1. \A a, b \in map : a # b => Own(a) \cap Own(b) = {}
    BY <1>1 DEF IInv, OwnInv
  <2>2. ASSUME NEW a \in map, NEW b \in map, task[a].bound # 0, task[b].bound # 0,
               task[a].bound = task[b].bound
        PROVE  a = b
    <3>1. task[a].bound \in Own(a) /\ task[a].bound \in Own(b)
      BY <2>2 DEF Own
    <3> QED
      BY <2>1, <3>1
  <2> QED
    BY <2>2 DEF OneTask
<1> QED
  BY <1>1, Invariance, PTL

\* As long as portIndex, an uint8_t, has not come round, a port is enabled
\* (poflr_port_openflow_enable) only if the controller has enabled its
\* interface since HELLO: a PORT_MOD that is on its way while its port is
\* removed does not hit another one.
THEOREM EnabledMeant == ASSUME MaxSys < IndexRange PROVE Spec => []EnabledAsMeant
<1>1. IInv => EnabledAsMeant
  BY DEF IInv, GrantInv
<1> QED
  BY <1>1, Invariance, PTL
-----------------------------------------------------------------------------
(* Listening.                                                              *)

\* A task is bound to the interface of its port, and the port has the index
\* that the system gives to its interface now.
BoundInv ==
    \A a \in map : /\ task[a].pc # "ended"
                   /\ task[a].pc # "start" => task[a].bound = port[a].sysIndex
CurrentInv == \A a \in map : Present(port[a].name) => port[a].sysIndex = sys[port[a].name]

\* The interfaces that the detect task will still come to.
Listed(n) ==
    \/ job["detect"].pc \in {"old", "info", "end"}
    \/ job["detect"].pc \in {"new", "set", "open"} /\ n \in job["detect"].todo
    \/ job["detect"].pc \in {"set", "open"} /\ n = job["detect"].name
CoveredInv ==
    ~custom /\ fresh /\ halted = "no" =>
        \A n \in Names : Present(n) => Unnoticed(n) \/ Listed(n)

ListenInv == BoundInv /\ CurrentInv /\ CoveredInv
-----------------------------------------------------------------------------
(* The steps and the tasks that listen.                                    *)

\* There are no two interfaces whose names have one hash.
DistinctHashes == \A n, m \in Names : hash[n] = hash[m] => n = m

\* The jobs of the other tasks.
LEMMA OtherJobs ==
    ASSUME TypeInv, NEW t \in Tasks, NEW j, job' = [job EXCEPT ![t] = j]
    PROVE  job'[t] = j /\ \A u \in Tasks \ {t} : job'[u] = job[u]
<1>1. job \in [Tasks -> JobType]
  BY DEF TypeInv, JobsType
<1> QED
  BY <1>1

\* A list is worked on as long as there are names in it.
LEMMA RestIsListed ==
    ASSUME NEW t, NEW rest \in SUBSET Names, NEW n \in rest
    PROVE  NextName(t, rest).pc = "new" /\ n \in NextName(t, rest).todo
<1>1. IsNextName(NextName(t, rest), rest)
  BY NextNameJob
<1>2. NextName(t, rest) = [Idle EXCEPT !.pc = "new", !.todo = rest]
  BY DEF NextName
<1>3. [Idle EXCEPT !.pc = "new", !.todo = rest].pc = "new"
  BY DEF Idle
<1> QED
  BY <1>1, <1>2, <1>3 DEF IsNextName

\* No port, no task and no interface changes.
LEMMA ListenKept ==
    ASSUME ListenInv, map' = map, sys' = sys, custom' = custom, fresh' = fresh, halted' = halted,
           \A a \in map : /\ port'[a].name = port[a].name /\ port'[a].sysIndex = port[a].sysIndex
                          /\ task'[a] = task[a],
           ~custom => \A n \in Names : Listed(n) => Listed(n)' \/ Unnoticed(n) \/ ~Present(n)
    PROVE  ListenInv'
<1>1. \A n : Present(n)' <=> Present(n)
  BY DEF Present
<1>2. \A n \in Names : Unnoticed(n)' <=> Unnoticed(n)
  BY DEF Unnoticed
<1>3. BoundInv'
  BY DEF ListenInv, BoundInv
<1>4. CurrentInv'
  BY <1>1 DEF ListenInv, CurrentInv
<1>5. CoveredInv'
  BY <1>1, <1>2 DEF ListenInv, CoveredInv
<1> QED
  BY <1>3, <1>4, <1>5 DEF ListenInv

\* A step that leaves the detect task and all ports alone.
LEMMA ListenQuiet ==
    ASSUME ListenInv, UNCHANGED <<port, map, task, sys>>, custom' = custom, fresh' = fresh,
           halted' = halted, job'["detect"] = job["detect"]
    PROVE  ListenInv'
<1>1. \A n \in Names : Listed(n) => Listed(n)'
  BY DEF Listed
<1> QED
  BY <1>1, ListenKept

\* What the beginning of a detection and the list of the interfaces do.
LEMMA ListenDetectBegin ==
    ASSUME IInv, ListenInv, detect_begin
    PROVE  ListenInv'
<1> DEFINE j == Traverse("detect", "old")
<1>1. TypeInv
  BY DEF IInv
<1>2. j.pc \in {"end", "old"}
  BY <1>1, TraverseJob, PcsAre
<1>3. job' = [job EXCEPT !["detect"] = j] /\ UNCHANGED <<port, map, task, sys>>
  BY DEF detect_begin, system
<1> HIDE DEF j
<1>4. job'["detect"].pc \in {"end", "old"}
  BY <1>1, <1>2, <1>3, OtherJobs, TasksAre
<1>5. BoundInv' /\ CurrentInv'
  BY <1>3 DEF ListenInv, BoundInv, CurrentInv, Present
<1>6. CoveredInv'
  BY <1>4 DEF CoveredInv, Listed
<1> QED
  BY <1>5, <1>6 DEF ListenInv

LEMMA ListenDetectList ==
    ASSUME IInv, ListenInv, detect_list
    PROVE  ListenInv'
<1> DEFINE j == NextName("detect", Interfaces)
<1>1. TypeInv
  BY DEF IInv
<1>2. /\ job' = [job EXCEPT !["detect"] = j] /\ UNCHANGED <<port, map, task, sys>>
      /\ custom' = custom /\ fresh' = fresh /\ halted' = halted
  BY DEF detect_list, system
<1>3. Interfaces \in SUBSET Names
  BY DEF Interfaces
<1>4. job'["detect"] = j
  <2> HIDE DEF j
  <2> QED  BY <1>1, <1>2, OtherJobs, TasksAre
<1>5. ASSUME ~custom, NEW n \in Names PROVE Listed(n)' \/ ~Present(n)
  <2>1. ASSUME Present(n) PROVE n \in Interfaces
    BY <1>5, <2>1 DEF Interfaces
  <2>2. ASSUME n \in Interfaces PROVE j.pc = "new" /\ n \in j.todo
    BY <1>3, <2>2, RestIsListed
  <2> HIDE DEF j
  <2> QED
    BY <1>4, <2>1, <2>2 DEF Listed
<1> QED
  BY <1>2, <1>5, ListenKept

\* A name of the list is passed over only if its interface has a port.
LEMMA ListenDetectNew ==
    ASSUME DistinctHashes, IInv, ListenInv, detect_new
    PROVE  ListenInv'
<1>1. TypeInv
  BY DEF IInv
<1>2. /\ job["detect"].pc = "new" /\ UNCHANGED <<port, map, task, sys>>
      /\ custom' = custom /\ fresh' = fresh /\ halted' = halted
  BY DEF detect_new, system
<1>3. PICK n \in job["detect"].todo :
         job' = [job EXCEPT !["detect"] = IF Wanted(n) THEN Adds(n, job["detect"].todo \ {n})
                                          ELSE NextName("detect", job["detect"].todo \ {n})]
  BY DEF detect_new
<1> DEFINE rest == job["detect"].todo \ {n}
<1>4. n \in Names /\ rest \in SUBSET Names
  <2>1. job["detect"] \in JobType
    BY <1>1, TasksAre DEF TypeInv, JobsType
  <2> QED
    BY <2>1 DEF JobType
<1>5. \A k : Listed(k) => k = n \/ k \in rest
  BY <1>2 DEF Listed
<1> HIDE DEF rest
<1>6. CASE Wanted(n)
  <2>1. job' = [job EXCEPT !["detect"] = Adds(n, rest)]
    BY <1>3, <1>6 DEF rest
  <2>2. job'["detect"] = Adds(n, rest)
    BY <1>1, <2>1, OtherJobs, TasksAre
  <2>3. Adds(n, rest).pc = "set" /\ Adds(n, rest).name = n /\ Adds(n, rest).todo = rest
    BY <1>4, AddJob
  <2>4. \A k \in Names : Listed(k) => Listed(k)'
    BY <1>5, <2>2, <2>3 DEF Listed
  <2> QED
    BY <1>2, <2>4, ListenKept
<1>7. CASE ~Wanted(n)
  <2>1. job' = [job EXCEPT !["detect"] = NextName("detect", rest)]
    BY <1>3, <1>7 DEF rest
  <2>2. job'["detect"] = NextName("detect", rest)
    BY <1>1, <2>1, OtherJobs, TasksAre
  <2>3. ASSUME NEW k \in rest PROVE Listed(k)'
    BY <1>4, <2>2, RestIsListed DEF Listed
  <2>4. ASSUME Present(n) PROVE Unnoticed(n)
    <3> DEFINE S == {a \in map : Hash(port[a].name) = Hash(n)}
    <3>1. Newest(S) # 0
      BY <1>7, <2>4 DEF Wanted, poflr_get_port_with_name
    <3>2. S # {}
      <4>1. S \in SUBSET map
        OBVIOUS
      <4> HIDE DEF S
      <4> QED  BY <1>1, <3>1, <4>1, NewestIn
    <3>3. PICK a \in map : Hash(port[a].name) = Hash(n)
      BY <3>2
    <3>4. port[a].name \in Names
      <4>1. port[a].name \in AnyName
        BY <1>1, Structures DEF PortInfo
      <4>2. port[a].name # ""
        BY <1>4, <3>3, Hashes
      <4> QED
        BY <4>1, <4>2 DEF AnyName
    <3>5. hash[port[a].name] = hash[n]
      BY <1>4, <3>3, <3>4, Hashes DEF Hash
    <3>6. port[a].name = n
      BY <1>4, <3>4, <3>5 DEF DistinctHashes
    <3> QED
      BY <3>6 DEF Unnoticed
  <2> QED
    BY <1>2, <1>5, <2>3, <2>4, ListenKept
<1> QED
  BY <1>6, <1>7

\* A port is added: what add_set, without the interface, and add_open do.
LEMMA ListenAdded ==
    ASSUME IInv, ListenInv, NEW t \in Tasks, Adding(t), NEW p \in PortInfo, Added(p),
           \/ p.name = "" /\ ~Present(job[t].name)
           \/ p.name = job[t].name /\ p.sysIndex = sys[p.name],
           job' = [job EXCEPT ![t] = NextName(t, job[t].todo)],
           sys' = sys, custom' = custom, fresh' = fresh, halted' = halted
    PROVE  ListenInv'
<1>1. TypeInv /\ ControlInv /\ BoundInv /\ CurrentInv /\ CoveredInv
  BY DEF IInv, ListenInv
<1> DEFINE e == Len(port) + 1
<1>2. /\ \A a \in Adrs : port'[a] = port[a] /\ task'[a] = task[a]
      /\ port'[e] = p /\ task'[e] = Started /\ map' = map \cup {e}
  BY <1>1, AddedFacts
<1>3. \A a \in map : port'[a] = port[a] /\ task'[a] = task[a]
  BY <1>1, <1>2 DEF TypeInv, StructType
<1> HIDE DEF e
<1>4. \A n : Present(n)' <=> Present(n)
  BY DEF Present
<1>5. BoundInv'
  <2>1. Started.pc = "start"
    BY DEF Started
  <2>2. ASSUME NEW b \in map'
        PROVE  task'[b].pc # "ended" /\ (task'[b].pc # "start" => task'[b].bound = port'[b].sysIndex)
    <3>1. CASE b \in map
      BY <1>1, <1>3, <3>1 DEF BoundInv
    <3>2. CASE b = e
      BY <1>2, <2>1, <3>2
    <3> QED
      BY <1>2, <3>1, <3>2
  <2> QED
    BY <2>2 DEF BoundInv
<1>6. CurrentInv'
  <2>1. ~Present("")
    BY Hashes DEF Present
  <2>2. Present(p.name) => p.sysIndex = sys[p.name]
    BY <2>1
  <2> QED
    BY <1>1, <1>2, <1>3, <1>4, <2>2 DEF CurrentInv
<1>7. CoveredInv'
  <2> SUFFICES ASSUME ~custom, fresh, halted = "no", NEW n \in Names, Present(n)
               PROVE  Unnoticed(n)' \/ Listed(n)'
    BY <1>4 DEF CoveredInv
  <2>1. t = "detect"
    BY <1>1, Adder
  <2>2. Unnoticed(n) => Unnoticed(n)'
    BY <1>2, <1>3 DEF Unnoticed
  <2>3. CASE Unnoticed(n)
    BY <2>2, <2>3
  <2>4. CASE Listed(n)
    <3>1. job["detect"].pc \in {"set", "open"}
      BY <2>1 DEF Adding
    <3>2. n \in job["detect"].todo \/ n = job["detect"].name
      BY <2>4, <3>1 DEF Listed
    <3>3. job["detect"].todo \in SUBSET Names
      <4>1. job["detect"] \in JobType
        BY <1>1, TasksAre DEF TypeInv, JobsType
      <4> QED
        BY <4>1 DEF JobType
    <3>4. CASE n \in job["detect"].todo
      <4>1. job' = [job EXCEPT !["detect"] = NextName("detect", job["detect"].todo)]
        BY <2>1, Zenon
      <4>2. job'["detect"] = NextName("detect", job["detect"].todo)
        <5>1. job \in [Tasks -> JobType]
          BY <1>1 DEF TypeInv, JobsType
        <5> QED
          BY <4>1, <5>1, TasksAre
      <4>3. job'["detect"].pc = "new" /\ n \in job'["detect"].todo
        BY <3>3, <3>4, <4>2, RestIsListed
      <4>4. Listed(n)'
        BY <4>3 DEF Listed
      <4> QED
        BY <4>4
    <3>5. CASE n = job["detect"].name
      <4>1. p.name = n
        BY <2>1, <3>5
      <4> QED
        BY <1>2, <4>1 DEF Unnoticed
    <3> QED
      BY <3>2, <3>4, <3>5
  <2> QED
    BY <1>1, <2>3, <2>4 DEF CoveredInv
<1> QED
  BY <1>5, <1>6, <1>7 DEF ListenInv

LEMMA ListenAddSet ==
    ASSUME IInv, ListenInv, NEW t \in Tasks, add_set(t)
    PROVE  ListenInv'
<1>1. TypeInv
  BY DEF IInv
<1>2. job[t].pc = "set" /\ Adding(t)
  BY DEF add_set, Adding
<1>3. sys' = sys /\ custom' = custom /\ fresh' = fresh /\ halted' = halted
  BY DEF add_set, system
<1>4. CASE Present(job[t].name)
  <2>1. /\ job' = [job EXCEPT ![t].pc = "open", ![t].index = sys[job[t].name]]
        /\ UNCHANGED <<port, map, task>>
    BY <1>4 DEF add_set
  <2>2. job[t] \in JobType /\ job \in [Tasks -> JobType]
    BY <1>1 DEF TypeInv, JobsType
  <2>3. /\ job'[t].pc = "open" /\ job'[t].name = job[t].name /\ job'[t].todo = job[t].todo
        /\ \A u \in Tasks \ {t} : job'[u] = job[u]
    BY <2>1, <2>2 DEF JobType
  <2>4. \A n \in Names : Listed(n) => Listed(n)'
    BY <1>2, <2>3, TasksAre DEF Listed
  <2> QED
    BY <1>3, <2>1, <2>4, ListenKept
<1>5. CASE ~Present(job[t].name)
  <2>1. Added(Zeroed) /\ job' = [job EXCEPT ![t] = NextName(t, job[t].todo)]
    BY <1>5 DEF add_set
  <2> QED
    BY <1>2, <1>3, <1>5, <2>1, ListenAdded, ZeroedPort
<1> QED
  BY <1>4, <1>5

LEMMA OpenedPort ==
    ASSUME IInv, NEW t \in Tasks, add_open(t)
    PROVE  LET n == job[t].name
               p == poflr_set_port(n, job[t].index)
           IN  /\ Adding(t) /\ n \in Names /\ sys[n] # 0 /\ sys[n] = job[t].index
               /\ p \in PortInfo /\ p.name = n /\ p.sysIndex = sys[n] /\ p.pofIndex = portIndex
               /\ p.live = live[n]
<1> DEFINE n == job[t].name
           p == poflr_set_port(n, job[t].index)
<1>1. TypeInv /\ ControlInv /\ HashInv
  BY DEF IInv
<1>2. halted = "no" /\ job[t].pc = "open" /\ sys[n] = job[t].index
  BY DEF add_open
<1>3. Adding(t)
  BY <1>2 DEF Adding
<1>4. n \in Names
  BY <1>1, <1>3, AddedIsOwed
<1>5. sys[n] # 0 /\ sys[n] \in 0..MaxSys
  BY <1>1, <1>2, <1>4 DEF ControlInv, MayDo, TypeInv, SysType
<1>6. p \in PortInfo /\ p.name = n /\ p.sysIndex = sys[n] /\ p.pofIndex = portIndex
  BY <1>1, <1>2, <1>4, <1>5, SetPortType
<1>7. p.live = live[n]
  BY DEF poflr_set_port
<1> QED
  BY <1>2, <1>3, <1>4, <1>5, <1>6, <1>7

LEMMA ListenAddOpen ==
    ASSUME IInv, ListenInv, NEW t \in Tasks, add_open(t)
    PROVE  ListenInv'
<1> DEFINE n == job[t].name
           p == poflr_set_port(n, job[t].index)
<1>1. Adding(t) /\ p \in PortInfo /\ p.name = n /\ p.sysIndex = sys[n]
  BY OpenedPort
<1>2. /\ Added(p) /\ job' = [job EXCEPT ![t] = NextName(t, job[t].todo)]
      /\ sys' = sys /\ custom' = custom /\ fresh' = fresh /\ halted' = halted
  BY DEF add_open, system
<1> HIDE DEF p
<1> QED
  BY <1>1, <1>2, ListenAdded

\* A port is removed.
LEMMA ListenRemoved ==
    ASSUME IInv, ListenInv, NEW d \in map, poflr_del_port(d), sys' = sys,
           ~custom' => job'["detect"].pc \in {"old", "end"}
    PROVE  ListenInv'
<1>1. TypeInv /\ BoundInv /\ CurrentInv
  BY DEF IInv, ListenInv
<1>2. map' = map \ {d} /\ \A a \in Adrs \ {d} : port'[a] = port[a] /\ task'[a] = task[a]
  BY <1>1, DelFacts
<1>3. \A a \in map' : a \in map /\ port'[a] = port[a] /\ task'[a] = task[a]
  BY <1>1, <1>2 DEF TypeInv, StructType
<1>4. BoundInv'
  BY <1>1, <1>3 DEF BoundInv
<1>5. CurrentInv'
  BY <1>1, <1>3 DEF CurrentInv, Present
<1>6. CoveredInv'
  BY DEF CoveredInv, Listed
<1> QED
  BY <1>4, <1>5, <1>6 DEF ListenInv

LEMMA ListenDetectOld ==
    ASSUME IInv, ListenInv, detect_old
    PROVE  ListenInv'
<1> DEFINE a == job["detect"].obj
           d == poflr_get_port_with_name(port[a].name)
<1>1. TypeInv /\ HashInv
  BY DEF IInv
<1>2. job["detect"].pc = "old" /\ a \in map /\ sys' = sys /\ custom' = custom /\ fresh' = fresh /\ halted' = halted
  BY DEF detect_old, system
<1>3. CASE Present(port[a].name)
  <2>1. job' = [job EXCEPT !["detect"].pc = "info"] /\ UNCHANGED <<port, map, task>>
    BY <1>3 DEF detect_old
  <2>2. job \in [Tasks -> JobType] /\ job["detect"] \in JobType
    BY <1>1, TasksAre DEF TypeInv, JobsType
  <2>3. job'["detect"].pc = "info"
    BY <2>1, <2>2, TasksAre DEF JobType
  <2>4. \A n \in Names : Listed(n)'
    BY <2>3 DEF Listed
  <2> QED
    BY <1>2, <2>1, <2>4, ListenKept
<1>4. CASE ~Present(port[a].name)
  <2> DEFINE j == Step("detect", map \ {d}, "old")
  <2>1. poflr_del_port(d) /\ job' = [job EXCEPT !["detect"] = j]
    BY <1>4 DEF detect_old
  <2>2. d \in map
    <3> HIDE DEF a
    <3> QED  BY <1>1, <1>2, FoundIsSame
  <2>3. map \ {d} \in SUBSET map
    OBVIOUS
  <2> HIDE DEF d
  <2>4. j.pc \in {"end", "old"}
    BY <1>1, <2>3, StepJob, PcsAre, TasksAre
  <2> HIDE DEF j
  <2>5. job'["detect"].pc \in {"old", "end"}
    BY <1>1, <2>1, <2>4, OtherJobs, TasksAre
  <2> QED
    BY <1>2, <2>1, <2>2, <2>5, ListenRemoved
<1> QED
  BY <1>3, <1>4

\* The port that delport finds.
LEMMA FoundByName ==
    ASSUME TypeInv, NEW n \in Names, poflr_get_port_with_name(n) # 0
    PROVE  LET d == poflr_get_port_with_name(n)
           IN  d \in map /\ Hash(port[d].name) = Hash(n) /\ port[d].name # ""
<1> DEFINE S == {b \in map : Hash(port[b].name) = Hash(n)}
           d == Newest(S)
<1>1. d # 0 /\ d = poflr_get_port_with_name(n)
  BY DEF poflr_get_port_with_name
<1>2. d \in S
  <2>1. S \in SUBSET map
    OBVIOUS
  <2> HIDE DEF S
  <2> QED  BY <1>1, <2>1, NewestIn
<1>3. d \in map /\ Hash(port[d].name) = Hash(n)
  BY <1>2
<1>4. port[d].name # ""
  <2> HIDE DEF d
  <2> QED  BY <1>3, Hashes
<1> QED
  BY <1>1, <1>3, <1>4, Zenon

LEMMA ListenDelPort ==
    ASSUME IInv, ListenInv, NEW n \in Names, delport(n)
    PROVE  ListenInv'
<1> DEFINE d == poflr_get_port_with_name(n)
<1>1. TypeInv
  BY DEF IInv
<1>2. custom /\ d # 0 /\ poflr_del_port(d) /\ sys' = sys /\ custom' = custom
  BY DEF delport, system
<1>3. d \in map
  BY <1>1, <1>2, FoundByName
<1> HIDE DEF d
<1> QED
  BY <1>2, <1>3, ListenRemoved

\* The index of a port does not change: it is that of its interface already.
LEMMA ListenDetectInfo ==
    ASSUME IInv, ListenInv, detect_info
    PROVE  ListenInv'
<1> DEFINE a == job["detect"].obj
           n == port[a].name
           new == [port[a] EXCEPT !.sysIndex = sys[n], !.live = live[n]]
           j == Step("detect", map, "old")
<1>1. TypeInv /\ CurrentInv
  BY DEF IInv, ListenInv
<1>2. /\ job["detect"].pc = "info" /\ a \in map /\ Present(n)
      /\ job' = [job EXCEPT !["detect"] = j]
      /\ UNCHANGED <<map, task, sys>> /\ custom' = custom /\ fresh' = fresh /\ halted' = halted
  BY DEF detect_info, system
<1>3. j.pc \in {"end", "old"}
  BY <1>1, StepJob, PcsAre, TasksAre
<1>4. job'["detect"].pc \in {"old", "end"}
  <2> HIDE DEF j
  <2> QED  BY <1>1, <1>2, <1>3, OtherJobs, TasksAre
<1>5. port[a] \in PortInfo /\ map \subseteq Adrs /\ port[a].sysIndex = sys[n] /\ port \in [Adrs -> PortInfo]
  BY <1>1, <1>2, Structures DEF CurrentInv
<1>6. new.name = n /\ new.sysIndex = sys[n]
  BY <1>5 DEF PortInfo
<1>7. port' = port \/ port' = [port EXCEPT ![a] = new]
  BY DEF detect_info
<1>8. ASSUME NEW b \in map PROVE port'[b].name = port[b].name /\ port'[b].sysIndex = port[b].sysIndex
  <2> HIDE DEF new, a
  <2> QED  BY <1>2, <1>5, <1>6, <1>7
<1>9. \A k \in Names : Listed(k)'
  BY <1>4 DEF Listed
<1> QED
  BY <1>2, <1>8, <1>9, ListenKept

\* The main task changes nothing of a port but whether it is enabled.
SameReports ==
    /\ map' = map
    /\ \A a \in map : /\ port'[a].name = port[a].name /\ port'[a].pofIndex = port[a].pofIndex
                      /\ port'[a].sysIndex = port[a].sysIndex /\ port'[a].live = port[a].live

LEMMA EnabledOne ==
    ASSUME TypeInv, NEW a \in map, NEW f, map' = map, port' = [port EXCEPT ![a].enable = f]
    PROVE  SameReports
<1>1. port \in [Adrs -> PortInfo] /\ map \subseteq Adrs /\ \A b \in map : port[b] \in PortInfo
  BY Structures
<1>2. ASSUME NEW b \in map
      PROVE  /\ port'[b].name = port[b].name /\ port'[b].pofIndex = port[b].pofIndex
             /\ port'[b].sysIndex = port[b].sysIndex /\ port'[b].live = port[b].live
  <2>1. CASE b # a
    BY <1>1, <2>1
  <2>2. CASE b = a
    <3>1. port'[a] = [port[a] EXCEPT !.enable = f]
      BY <1>1
    <3> QED
      BY <1>1, <2>2, <3>1 DEF PortInfo
  <2> QED
    BY <2>1, <2>2
<1> QED
  BY <1>2 DEF SameReports

LEMMA DisabledAll ==
    ASSUME TypeInv, map' = map, port' = poflr_disable_all_port
    PROVE  SameReports
<1>1. port \in [Adrs -> PortInfo] /\ map \subseteq Adrs /\ \A b \in map : port[b] \in PortInfo
  BY Structures
<1>2. ASSUME NEW b \in map
      PROVE  /\ port'[b].name = port[b].name /\ port'[b].pofIndex = port[b].pofIndex
             /\ port'[b].sysIndex = port[b].sysIndex /\ port'[b].live = port[b].live
  <2>1. port'[b] = [port[b] EXCEPT !.enable = FALSE]
    BY <1>1 DEF poflr_disable_all_port
  <2> QED
    BY <1>1, <2>1 DEF PortInfo
<1> QED
  BY <1>2 DEF SameReports

\* What HELLO, the loss of the connection and PORT_MOD have in common.
LEMMA MainSteps ==
    ASSUME IInv, hello \/ lost \/ \E m \in mod : port_mod(m)
    PROVE  /\ SameReports /\ UNCHANGED <<task, job>>
           /\ sys' = sys /\ live' = live /\ custom' = custom /\ fresh' = fresh /\ halted' = halted
<1>1. TypeInv
  BY DEF IInv
<1>2. CASE hello
  BY <1>1, <1>2, DisabledAll DEF hello, system
<1>3. CASE lost
  <2>1. map' = map /\ (port' = port \/ port' = poflr_disable_all_port)
    BY <1>3 DEF lost
  <2>2. SameReports
    BY <1>1, <2>1, DisabledAll DEF SameReports
  <2> QED
    BY <1>3, <2>2 DEF lost, system
<1>4. ASSUME NEW m \in mod, port_mod(m) PROVE SameReports
  <2> DEFINE S == {b \in map : port[b].pofIndex = m.id}
             a == Newest(S)
  <2>1. map' = map /\ port' = IF a = 0 THEN port ELSE [port EXCEPT ![a].enable = m.flag]
    BY <1>4 DEF port_mod, poflr_get_port_with_pofindex
  <2>2. S \in SUBSET map
    OBVIOUS
  <2>3. a = 0 \/ a \in map
    <3> HIDE DEF S
    <3> QED  BY <1>1, <2>2, NewestIn
  <2> HIDE DEF a
  <2>4. CASE a = 0
    BY <2>1, <2>4 DEF SameReports
  <2>5. CASE a # 0
    BY <1>1, <2>1, <2>3, <2>5, EnabledOne
  <2> QED
    BY <2>4, <2>5
<1>5. CASE \E m \in mod : port_mod(m)
  BY <1>4, <1>5 DEF port_mod, system
<1> QED
  BY <1>2, <1>3, <1>5

LEMMA ListenMain ==
    ASSUME IInv, ListenInv, hello \/ lost \/ \E m \in mod : port_mod(m)
    PROVE  ListenInv'
<1>1. /\ SameReports /\ UNCHANGED <<task, job>>
      /\ sys' = sys /\ custom' = custom /\ fresh' = fresh /\ halted' = halted
  BY MainSteps
<1>2. \A n \in Names : Listed(n) => Listed(n)'
  BY <1>1 DEF Listed
<1> QED
  BY <1>1, <1>2, ListenKept DEF SameReports

\* A receive task goes on.
LEMMA ListenReceive ==
    ASSUME IInv, ListenInv, NEW a \in Adrs, Receive(a)
    PROVE  ListenInv'
<1>1. TypeInv /\ BoundInv
  BY DEF IInv, ListenInv
<1>2. task \in [Adrs -> TaskType] /\ map \subseteq Adrs /\ task[a] \in TaskType
  BY <1>1 DEF TypeInv, StructType
<1>3. /\ UNCHANGED <<port, map, job>> /\ sys' = sys /\ custom' = custom /\ fresh' = fresh /\ halted' = halted
  BY DEF Receive, recv_start, recv_packet, recv_use, system
<1>4. ASSUME a \in map
      PROVE  task'[a].pc # "ended" /\ (task'[a].pc # "start" => task'[a].bound = port[a].sysIndex)
  <2>1. CASE recv_start(a)
    <3>1. task'[a] = [pc |-> "wait", bound |-> port[a].sysIndex]
      BY <1>2, <2>1 DEF recv_start
    <3> QED
      BY <3>1
  <2>2. CASE recv_packet(a)
    <3>1. task'[a] = [task[a] EXCEPT !.pc = "busy"] /\ task[a].pc = "wait"
      BY <1>2, <2>2 DEF recv_packet
    <3>2. task'[a].pc = "busy" /\ task'[a].bound = task[a].bound
      BY <1>2, <3>1 DEF TaskType
    <3> QED
      BY <1>1, <1>4, <3>1, <3>2 DEF BoundInv
  <2>3. CASE recv_use(a)
    <3>1. task'[a] = [task[a] EXCEPT !.pc = "wait"] /\ task[a].pc = "busy"
      BY <1>2, <2>3 DEF recv_use
    <3>2. task'[a].pc = "wait" /\ task'[a].bound = task[a].bound
      BY <1>2, <3>1 DEF TaskType
    <3> QED
      BY <1>1, <1>4, <3>1, <3>2 DEF BoundInv
  <2> QED
    BY <2>1, <2>2, <2>3 DEF Receive
<1>5. \A b \in Adrs \ {a} : task'[b] = task[b]
  BY <1>2 DEF Receive, recv_start, recv_packet, recv_use
<1>6. BoundInv'
  BY <1>1, <1>2, <1>3, <1>4, <1>5 DEF BoundInv
<1>7. CurrentInv'
  BY <1>3 DEF ListenInv, CurrentInv, Present
<1>8. CoveredInv'
  BY <1>3 DEF ListenInv, CoveredInv, Present, Unnoticed, Listed
<1> QED
  BY <1>6, <1>7, <1>8 DEF ListenInv

\* An interface comes, when its last port has been removed, goes or changes.
LEMMA ListenSystem ==
    ASSUME ~Replug, IInv, ListenInv, NEW n \in Names, plug(n) \/ unplug(n) \/ link(n)
    PROVE  ListenInv'
<1>1. TypeInv /\ BoundInv /\ CurrentInv
  BY DEF IInv, ListenInv
<1>2. UNCHANGED <<port, map, task>> /\ fresh' = FALSE
  BY DEF plug, unplug, link
<1>3. BoundInv'
  BY <1>1, <1>2 DEF BoundInv
<1>4. CoveredInv'
  BY <1>2 DEF CoveredInv
<1>5. sys \in [Names -> 0..MaxSys]
  BY <1>1 DEF TypeInv, SysType
<1>6. CurrentInv'
  <2>1. CASE plug(n)
    <3>1. \A a \in map : port[a].name # n
      BY <2>1 DEF plug, Unnoticed
    <3>2. \A k \in Names \ {n} : sys'[k] = sys[k]
      BY <1>5, <2>1 DEF plug
    <3> QED
      BY <1>1, <1>2, <3>1, <3>2 DEF CurrentInv, Present
  <2>2. CASE unplug(n)
    <3>1. sys'[n] = 0 /\ \A k \in Names \ {n} : sys'[k] = sys[k]
      BY <1>5, <2>2 DEF unplug
    <3> QED
      BY <1>1, <1>2, <3>1 DEF CurrentInv, Present
  <2>3. CASE link(n)
    BY <1>1, <1>2, <2>3 DEF CurrentInv, Present, link
  <2> QED
    BY <2>1, <2>2, <2>3
<1> QED
  BY <1>3, <1>4, <1>6 DEF ListenInv

LEMMA ListenHalt ==
    ASSUME NEW why \in {"exit", "wild"}, Halt(why)
    PROVE  ListenInv'
<1>1. map' = {} /\ halted' # "no"
  BY DEF Halt
<1> QED
  BY <1>1 DEF ListenInv, BoundInv, CurrentInv, CoveredInv

LEMMA ListenMainJob ==
    ASSUME IInv, ListenInv, get_config \/ Reply
    PROVE  ListenInv'
<1>1. TypeInv
  BY DEF IInv
<1>2. /\ UNCHANGED <<port, map, task, sys>> /\ custom' = custom /\ fresh' = fresh /\ halted' = halted
  BY DEF get_config, Reply, reply_fill, reply_send, reply_end, system
<1>3. job'["detect"] = job["detect"]
  <2>1. job \in [Tasks -> JobType]
    BY <1>1 DEF TypeInv, JobsType
  <2>2. "detect" # "main" /\ "detect" \in Tasks
    BY TasksAre
  <2> QED
    BY <2>1, <2>2 DEF get_config, Reply, reply_fill, reply_send, reply_end
<1> QED
  BY <1>2, <1>3, ListenQuiet

LEMMA ListenAddPort ==
    ASSUME IInv, ListenInv, NEW n \in Names, addport(n)
    PROVE  ListenInv'
<1>1. TypeInv
  BY DEF IInv
<1>2. /\ UNCHANGED <<port, map, task, sys>> /\ custom' = custom /\ fresh' = fresh /\ halted' = halted
      /\ job' = [job EXCEPT !["listener"] = Adds(n, {})]
  BY DEF addport, system
<1>3. job'["detect"] = job["detect"]
  BY <1>1, <1>2, OtherJobs, TasksAre
<1> QED
  BY <1>2, <1>3, ListenQuiet

LEMMA ListenController ==
    ASSUME ListenInv, NEW v \in ctl, NEW flag \in BOOLEAN, controller(v, flag)
    PROVE  ListenInv'
<1>1. /\ UNCHANGED <<port, map, task, sys>> /\ custom' = custom /\ fresh' = fresh /\ halted' = halted
      /\ job'["detect"] = job["detect"]
  BY DEF controller, system
<1> QED
  BY <1>1, ListenQuiet

\* The ports of the beginning.
LEMMA FirstPorts ==
    ASSUME Init, NEW a \in map
    PROVE  /\ port[a].name \in Names /\ port[a].sysIndex = sys[port[a].name]
           /\ port[a].live = FALSE
<1>1. PICK plugged \in SUBSET Names :
         /\ Cardinality(plugged) <= MaxSys
         /\ sys = FirstIndex(plugged)
         /\ lastSys = Cardinality(plugged)
         /\ live = [n \in Names |-> FALSE]
         /\ \E chosen \in SUBSET plugged :
              /\ custom \/ chosen = plugged
              /\ \A n, m \in chosen : hash[n] = hash[m] => n = m
              /\ port = [b \in 1..Len(SetToSeq(chosen)) |-> FirstPort(SetToSeq(chosen), b)]
  BY Zenon DEF Init, FirstIndex, FirstPort
<1>2. PICK chosen \in SUBSET plugged :
         port = [b \in 1..Len(SetToSeq(chosen)) |-> FirstPort(SetToSeq(chosen), b)]
  BY <1>1
<1>3. IsFiniteSet(chosen) /\ chosen \subseteq Names
  BY <1>1, <1>2, FirstIndexes, FS_Subset
<1>4. PICK C \in Nat : C = Cardinality(chosen)
  BY <1>3, Listing
<1>5. PICK s \in [1..C -> chosen] : s = SetToSeq(chosen)
  BY <1>3, <1>4, Listing
<1>6. Len(s) = C
  BY <1>5, FunctionIsSeq
<1>7. port = [b \in 1..C |-> FirstPort(s, b)] /\ map = DOMAIN port
  BY <1>2, <1>5, <1>6 DEF Init
<1>8. a \in 1..C /\ port[a] = FirstPort(s, a) /\ s[a] \in Names
  BY <1>3, <1>5, <1>7
<1> QED
  BY <1>8 DEF FirstPort

LEMMA ListenInit == Init => ListenInv
<1> SUFFICES ASSUME Init PROVE ListenInv
  OBVIOUS
<1>1. task = [a \in Adrs |-> Started] /\ map = Adrs /\ fresh = FALSE
  BY DEF Init, Adrs
<1>2. BoundInv
  BY <1>1 DEF BoundInv, Started
<1>3. CoveredInv
  BY <1>1 DEF CoveredInv
<1>4. ASSUME NEW a \in map PROVE port[a].sysIndex = sys[port[a].name]
  BY FirstPorts
<1> QED
  BY <1>2, <1>3, <1>4 DEF ListenInv, CurrentInv

LEMMA ListenNext ==
    ASSUME ~Replug, DistinctHashes
    PROVE  IInv /\ ListenInv /\ [Next]_vars => ListenInv'
<1> SUFFICES ASSUME IInv, ListenInv, [Next]_vars PROVE ListenInv'
  OBVIOUS
<1>1. CASE Detect
  BY <1>1, ListenDetectBegin, ListenDetectOld, ListenDetectInfo, ListenDetectList, ListenDetectNew,
     ListenAddSet, ListenAddOpen, TasksAre DEF Detect
<1>2. CASE Reply \/ get_config
  BY <1>2, ListenMainJob
<1>3. CASE Listener
  BY <1>3, ListenAddSet, ListenAddOpen, ListenAddPort, ListenDelPort, TasksAre DEF Listener
<1>4. CASE terminate_handler \/ use_freed
  BY <1>4, ListenHalt DEF terminate_handler, use_freed
<1>5. CASE hello \/ lost \/ \E m \in mod : port_mod(m)
  BY <1>5, ListenMain
<1>6. CASE \E a \in Adrs : Receive(a)
  BY <1>6, ListenReceive
<1>7. CASE \E n \in Names : plug(n) \/ unplug(n) \/ link(n)
  BY <1>7, ListenSystem
<1>8. CASE \E v \in ctl, flag \in BOOLEAN : controller(v, flag)
  BY <1>8, ListenController
<1>9. CASE UNCHANGED vars
  BY <1>9, ListenQuiet DEF vars, system
<1> QED
  BY <1>1, <1>2, <1>3, <1>4, <1>5, <1>6, <1>7, <1>8, <1>9 DEF Next

\* If no two names of interfaces have one hash, and if no interface comes back
\* before poflr_port_detect_old has removed its port, then after a detection
\* during and since which nothing changed, every interface has a receive task
\* (pofdp_recv_raw_task) that is bound to it: for any number of interfaces and
\* ports, also when the 8-bit index comes round and when the commands and the
\* replies to the controller overlap with the detection.
THEOREM AllAreHeard ==
    ASSUME ~Replug, DistinctHashes
    PROVE  Spec => []ListensToAll
<1>1. ASSUME IInv, ListenInv PROVE ListensToAll
  <2> SUFFICES ASSUME fresh, ~Busy("detect"), halted = "no", NEW n \in Names, Present(n),
                      custom => Unnoticed(n)
               PROVE  Listens(n)
    BY DEF ListensToAll
  <2>1. TypeInv
    BY <1>1 DEF IInv
  <2>2. Unnoticed(n)
    BY <1>1 DEF ListenInv, CoveredInv, Listed, Busy
  <2>3. PICK a \in map : port[a].name = n
    BY <2>2 DEF Unnoticed
  <2>4. port[a].sysIndex = sys[n]
    BY <1>1, <2>3 DEF ListenInv, CurrentInv
  <2>5. task[a].pc \in {"start", "wait", "busy", "ended"}
    BY <2>1, Structures DEF TaskType
  <2>6. task[a].pc # "ended" /\ (task[a].pc # "start" => task[a].bound = sys[n])
    BY <1>1, <2>4 DEF ListenInv, BoundInv
  <2> QED
    BY <2>3, <2>4, <2>5, <2>6 DEF Listens
<1>2. IInv /\ ListenInv /\ [Next]_vars => ListenInv'
  BY ListenNext
<1> QED
  BY <1>1, <1>2, ListenInit, Invariance, PTL DEF Spec
-----------------------------------------------------------------------------
(* What the controller has been told.                                      *)

Msg(a) == port_report_fill_msg(port[a])

\* One task at most is at work.
AloneInv == \A t, u \in Tasks : Busy(t) /\ Busy(u) => t = u

\* A port without a name is one of zeros.
ZeroInv == \A a \in map : port[a].name = "" => port[a].pofIndex = 0 /\ port[a].live = FALSE

\* x is what comes after a in the map m, or 0 if nothing does.
Follows(m, a, x) ==
    /\ x = 0 => \A b \in m : ~Before(a, b)
    /\ x # 0 => x \in m /\ Before(a, x) /\ \A b \in m : Before(a, b) => b = x \/ Before(x, b)

\* A traversal is at a structure of the map, and knows the next one.
Walking(t) == job[t].pc \in {"old", "info", "fill", "send"}
Ahead(t, a) == Walking(t) /\ (a = job[t].obj \/ Before(job[t].obj, a))
WalkInv ==
    \A t \in Tasks : Walking(t) => job[t].obj \in map /\ Follows(map, job[t].obj, job[t].next)

\* A detection removes the ports without a name, which come first.
SweepInv ==
    /\ job["detect"].pc = "old" => \A a \in map : port[a].name = "" => Ahead("detect", a)
    /\ job["detect"].pc \in {"info", "end"} => \A a \in map : port[a].name # ""

\* What the controller has been told is so.
TruthInv ==
    /\ conn = "down" => ctl = {}
    /\ \A v \in ctl : \E a \in map : v = Msg(a)

\* It has been told everything, but for the ports without a name: when the
\* detection removes one of them, it takes the index of all with it.
WholeInv ==
    conn = "run" =>
        \A a \in map : Msg(a) \in ctl \/ (port[a].name = "" /\ job["detect"].pc = "old")

\* The answer to GET_CONFIG_REQUEST has told what it has come by.
ReplyInv ==
    /\ job["main"].pc # "idle" => conn # "run"
    /\ job["main"].pc = "send" => job["main"].msg = {Msg(job["main"].obj)}
    /\ conn = "open" /\ job["main"].pc # "idle" =>
          \A a \in map : Msg(a) \in ctl \/ Ahead("main", a)

\* What a detection has come by is as it is, as long as nothing changes.
Current(a) == port[a].name \in Names /\ port[a].live = live[port[a].name]
FreshInv ==
    fresh => /\ \A a \in map : Current(a) \/ Ahead("detect", a)
             /\ \A t \in Tasks : Adding(t) => Present(job[t].name)

ViewInv == AloneInv /\ ZeroInv /\ WalkInv /\ SweepInv /\ TruthInv /\ WholeInv /\ ReplyInv /\ FreshInv
-----------------------------------------------------------------------------
(* The order of the traversals.                                            *)

LEMMA Indexes ==
    ASSUME TypeInv, NEW a \in map
    PROVE  a \in Nat /\ a # 0 /\ port[a].pofIndex \in Nat
<1>1. a \in 1..Len(port) /\ Len(port) \in Nat /\ port[a] \in PortInfo
  BY Structures
<1>2. port[a].pofIndex \in 0..(IndexRange - 1)
  BY <1>1 DEF PortInfo
<1> QED
  BY <1>1, <1>2, Numbers

LEMMA BeforeOrder ==
    ASSUME TypeInv
    PROVE  /\ \A a \in map : ~Before(a, a)
           /\ \A a, b \in map : Before(a, b) => a # b /\ ~Before(b, a)
<1>1. \A a \in map : a \in Nat /\ port[a].pofIndex \in Nat
  BY Indexes
<1> QED
  BY <1>1 DEF Before

\* What a traversal goes on with.
LEMMA LeastFollows ==
    ASSUME TypeInv, NEW m \in SUBSET map, NEW a
    PROVE  Follows(m, a, Least({b \in m : Before(a, b)}))
<1> DEFINE S == {b \in m : Before(a, b)}
           x == Least(S)
<1>1. S \in SUBSET map
  OBVIOUS
<1>2. CASE S = {}
  <2>1. x = 0
    <3> HIDE DEF S
    <3> QED  BY <1>1, <1>2, LeastIsFirst
  <2> HIDE DEF x
  <2>2. Follows(m, a, x)
    BY <1>2, <2>1 DEF Follows
  <2> QED
    BY <2>2 DEF x
<1>3. CASE S # {}
  <2>1. x \in S /\ \A b \in S \ {x} : Before(x, b)
    <3> HIDE DEF S
    <3> QED  BY <1>1, <1>3, LeastIsFirst
  <2> HIDE DEF x
  <2>2. x # 0
    BY <2>1, Indexes
  <2>3. Follows(m, a, x)
    BY <2>1, <2>2 DEF Follows
  <2> QED
    BY <2>3 DEF x
<1> QED
  BY <1>2, <1>3

\* The job j goes on, in the map m, after what was the next of the last one.
GoesOn(j, m, x, p) ==
    /\ x = 0 => j.pc = "end"
    /\ x # 0 => j.pc = p /\ j.obj = x /\ Follows(m, x, j.next)

LEMMA StepGoesOn ==
    ASSUME TypeInv, NEW t \in Tasks, NEW m \in SUBSET map, NEW p \in Pcs
    PROVE  GoesOn(Step(t, m, p), m, job[t].next, p)
<1> DEFINE a == job[t].next
           l == Least({b \in m : Before(a, b)})
<1>1. a \in Nat
  BY DEF TypeInv, JobsType, JobType
<1>2. Follows(m, a, l)
  <2> HIDE DEF a
  <2> QED  BY LeastFollows
<1>3. CASE a = 0
  <2>1. Step(t, m, p) = [Idle EXCEPT !.pc = "end"]
    BY <1>3, Zenon DEF Step
  <2>2. [Idle EXCEPT !.pc = "end"].pc = "end"
    BY DEF Idle
  <2> QED
    BY <1>3, <2>1, <2>2 DEF GoesOn
<1>4. CASE a # 0
  <2>1. Step(t, m, p) = Walk(p, a, l)
    BY <1>4, Zenon DEF Step, Walk
  <2> HIDE DEF a, l
  <2>2. l \in Nat
    <3>1. l = 0 \/ l \in m
      BY <1>2 DEF Follows
    <3> QED
      BY <3>1, Indexes
  <2>3. IsWalk(Walk(p, a, l), p, a, l)
    BY <1>1, <2>2, WalkJob, Zenon
  <2>4. Step(t, m, p).pc = p /\ Step(t, m, p).obj = a /\ Step(t, m, p).next = l
    BY <2>1, <2>3, Zenon DEF IsWalk
  <2>5. GoesOn(Step(t, m, p), m, a, p)
    BY <1>2, <1>4, <2>4, Zenon DEF GoesOn
  <2> QED
    BY <2>5 DEF a
<1> QED
  BY <1>3, <1>4

\* The job j begins with the first structure of the map.
BeginsWith(j, p) ==
    /\ map = {} => j.pc = "end"
    /\ map # {} => /\ j.pc = p /\ j.obj \in map /\ Follows(map, j.obj, j.next)
                   /\ \A b \in map \ {j.obj} : Before(j.obj, b)

LEMMA TraverseBegins ==
    ASSUME TypeInv, NEW t, NEW p \in Pcs
    PROVE  BeginsWith(Traverse(t, p), p)
<1> DEFINE f == Least(map)
           l == Least({b \in map : Before(f, b)})
<1>1. /\ map = {} => f = 0
      /\ map # {} => f \in map /\ \A b \in map \ {f} : Before(f, b)
  BY LeastIsFirst
<1>2. Follows(map, f, l)
  <2> HIDE DEF f
  <2> QED  BY LeastFollows
<1>3. hmap_nodeFirst = f /\ hmap_nodeNext(f) = l
  BY DEF hmap_nodeFirst, hmap_nodeNext
<1>4. CASE map = {}
  <2>1. Traverse(t, p) = Walk("end", f, 0)
    BY <1>1, <1>3, <1>4, Zenon DEF Traverse, Walk
  <2>2. Walk("end", f, 0).pc = "end"
    BY DEF Walk, Idle
  <2> QED
    BY <1>4, <2>1, <2>2 DEF BeginsWith
<1>5. CASE map # {}
  <2>1. f # 0 /\ f \in Nat /\ f \in map
    BY <1>1, <1>5, Indexes
  <2>2. Traverse(t, p) = Walk(p, f, l)
    BY <1>3, <2>1, Zenon DEF Traverse, Walk
  <2>3. l \in Nat
    <3> HIDE DEF f, l
    <3>1. l = 0 \/ l \in map
      BY <1>2 DEF Follows
    <3> QED
      BY <3>1, Indexes
  <2> HIDE DEF f, l
  <2>4. IsWalk(Walk(p, f, l), p, f, l)
    BY <2>1, <2>3, WalkJob, Zenon
  <2>5. Traverse(t, p).pc = p /\ Traverse(t, p).obj = f /\ Traverse(t, p).next = l
    BY <2>2, <2>4, Zenon DEF IsWalk
  <2> QED
    BY <1>1, <1>2, <1>5, <2>1, <2>5, Zenon DEF BeginsWith
<1> QED
  BY <1>4, <1>5

\* The order depends on the indexes only.
LEMMA OrderKept ==
    ASSUME \A a \in map' : port'[a].pofIndex = port[a].pofIndex
    PROVE  \A a, b \in map' : Before(a, b)' <=> Before(a, b)
BY DEF Before

LEMMA FollowsKept ==
    ASSUME \A a \in map' : port'[a].pofIndex = port[a].pofIndex,
           NEW a \in map', NEW x, Follows(map', a, x)
    PROVE  Follows(map, a, x)'
<1>1. \A b, c \in map' : Before(b, c)' <=> Before(b, c)
  BY OrderKept
<1>2. CASE x = 0
  BY <1>1, <1>2 DEF Follows
<1>3. CASE x # 0
  <2>1. x \in map' /\ Before(a, x) /\ \A b \in map' : Before(a, b) => b = x \/ Before(x, b)
    BY <1>3 DEF Follows
  <2> QED
    BY <1>1, <1>3, <2>1 DEF Follows
<1> QED
  BY <1>2, <1>3

\* A traversal goes on, in a map that has lost at most where it was.
WalksOn(t, p) ==
    /\ map' \subseteq map /\ \A a \in map' : port'[a].pofIndex = port[a].pofIndex
    /\ Walking(t) /\ GoesOn(job'[t], map', job[t].next, p)
    /\ \A b \in map \ map' : b = job[t].obj

LEMMA WalkOn ==
    ASSUME TypeInv, WalkInv, NEW t \in Tasks, NEW p \in {"old", "fill"}, WalksOn(t, p)
    PROVE  /\ Walking(t)' => job'[t].obj \in map' /\ Follows(map, job[t].obj, job[t].next)'
           /\ job'[t].pc \in {p, "end"}
           /\ \A b \in map' : Before(job[t].obj, b) => Ahead(t, b)' /\ job'[t].pc = p
<1>0. PICK a, x : a = job[t].obj /\ x = job[t].next
  OBVIOUS
<1>1. a \in map /\ Follows(map, a, x)
  BY <1>0 DEF WalkInv, WalksOn
<1>2. \A b, c \in map' : Before(b, c)' <=> Before(b, c)
  BY OrderKept DEF WalksOn
<1>3. map' \subseteq map /\ GoesOn(job'[t], map', x, p) /\ \A b \in map \ map' : b = a
  BY <1>0 DEF WalksOn
<1>4. CASE x = 0
  <2>1. \A b \in map' : ~Before(a, b)
    BY <1>1, <1>3, <1>4 DEF Follows
  <2>2. job'[t].pc = "end"
    BY <1>3, <1>4 DEF GoesOn
  <2>3. ~Walking(t)'
    BY <2>2 DEF Walking
  <2> QED
    BY <1>0, <2>1, <2>2, <2>3
<1>5. CASE x # 0
  <2>1. x \in map /\ Before(a, x) /\ \A b \in map : Before(a, b) => b = x \/ Before(x, b)
    BY <1>1, <1>5 DEF Follows
  <2>2. x \in map'
    BY <1>1, <1>3, <2>1, BeforeOrder
  <2>3. job'[t].pc = p /\ job'[t].obj = x /\ Follows(map', x, job'[t].next)
    BY <1>3, <1>5 DEF GoesOn
  <2>4. Follows(map, job[t].obj, job[t].next)'
    <3>1. \A b \in map' : port'[b].pofIndex = port[b].pofIndex
      BY DEF WalksOn
    <3>2. PICK y : y = job'[t].next
      OBVIOUS
    <3>3. Follows(map, x, y)'
      BY <2>2, <2>3, <3>1, <3>2, FollowsKept
    <3> QED
      BY <2>3, <3>2, <3>3
  <2>5. ASSUME NEW b \in map', Before(a, b) PROVE Ahead(t, b)'
    <3>1. b = x \/ Before(x, b)
      BY <1>3, <2>1, <2>5
    <3>2. b = x \/ Before(x, b)'
      BY <1>2, <2>2, <3>1
    <3> QED
      BY <2>3, <3>2 DEF Ahead, Walking
  <2> QED
    BY <1>0, <2>2, <2>3, <2>4, <2>5
<1> QED
  BY <1>4, <1>5
-----------------------------------------------------------------------------
(* Reports.                                                                *)

LEMMA MsgFields ==
    ASSUME NEW a
    PROVE  Msg(a).id = port[a].pofIndex /\ Msg(a).name = port[a].name /\ Msg(a).live = port[a].live
BY DEF Msg, port_report_fill_msg

LEMMA SameMsg ==
    ASSUME NEW p, NEW q, p.pofIndex = q.pofIndex, p.name = q.name, p.live = q.live
    PROVE  port_report_fill_msg(p) = port_report_fill_msg(q)
BY DEF port_report_fill_msg

\* Two ports with one index are reported in the same way.
LEMMA OneIndex ==
    ASSUME MaxSys < IndexRange, IInv, ZeroInv, halted = "no",
           NEW a \in map, NEW b \in map, port[a].pofIndex = port[b].pofIndex
    PROVE  Msg(a) = Msg(b) /\ (a = b \/ port[a].name = "")
<1>1. port[a].name = port[b].name
  BY DEF IInv, IndexInv
<1>2. CASE port[a].name # ""
  <2>1. a = b
    BY <1>1, <1>2 DEF IInv, HashInv
  <2> QED
    BY <2>1
<1>3. CASE port[a].name = ""
  <2>1. port[a].live = port[b].live
    BY <1>1, <1>3 DEF ZeroInv
  <2> QED
    BY <1>1, <1>3, <2>1, SameMsg DEF Msg
<1> QED
  BY <1>2, <1>3

\* What the controller knows after a report.
LEMMA ToldNew ==
    ASSUME NEW reason, reason # "DELETE", NEW m, ctl' = Told(reason, m)
    PROVE  /\ conn = "down" => ctl' = ctl
           /\ conn # "down" => \A v : v \in ctl' <=> v = m \/ (v \in ctl /\ v.id # m.id)
BY DEF Told

LEMMA ToldGone ==
    ASSUME NEW m, ctl' = Told("DELETE", m)
    PROVE  /\ conn = "down" => ctl' = ctl
           /\ conn # "down" => \A v : v \in ctl' <=> v \in ctl /\ v.id # m.id
BY DEF Told

\* A task that works is the only one.
LEMMA Turn ==
    ASSUME ~Overlap, AloneInv, NEW t \in Tasks, Busy(t) \/ MayBegin(t),
           \A u \in Tasks \ {t} : job'[u] = job[u]
    PROVE  /\ AloneInv'
           /\ \A u \in Tasks \ {t} : job[u].pc = "idle" /\ job'[u].pc = "idle"
<1>1. \A u \in Tasks \ {t} : job[u].pc = "idle"
  BY DEF AloneInv, Busy, MayBegin
<1> QED
  BY <1>1 DEF AloneInv, Busy

\* The invariant of the traversals, when the others are idle.
LEMMA WalkAlone ==
    ASSUME NEW t \in Tasks, \A u \in Tasks \ {t} : job'[u].pc = "idle",
           Walking(t)' => job'[t].obj \in map' /\ Follows(map, job[t].obj, job[t].next)'
    PROVE  WalkInv'
<1>1. \A u \in Tasks \ {t} : ~Walking(u)'
  BY DEF Walking
<1> QED
  BY <1>1 DEF WalkInv

\* A step that leaves the reports and the jobs alone; the connection is lost,
\* or begins, or stays.
LEMMA ViewKept ==
    ASSUME ViewInv, SameReports, job' = job,
           \/ conn' = conn /\ ctl' = ctl
           \/ ctl' = {} /\ (conn' = "down" \/ (conn' = "open" /\ job["main"].pc = "idle")),
           fresh' => fresh /\ live' = live /\ sys' = sys
    PROVE  ViewInv'
<1>1. \A a \in map' : port'[a].pofIndex = port[a].pofIndex
  BY DEF SameReports
<1>2. \A a, b \in map : Before(a, b)' <=> Before(a, b)
  BY <1>1, OrderKept DEF SameReports
<1>3. \A a \in map : Msg(a)' = Msg(a)
  BY SameMsg DEF SameReports, Msg
<1>4. AloneInv' /\ ZeroInv'
  BY DEF ViewInv, AloneInv, Busy, ZeroInv, SameReports
<1>5. \A t \in Tasks : Walking(t)' <=> Walking(t)
  BY DEF Walking
<1>6. ASSUME NEW t \in Tasks, Walking(t)
      PROVE  job'[t].obj \in map' /\ Follows(map, job[t].obj, job[t].next)'
  <2>1. job[t].obj \in map' /\ Follows(map', job[t].obj, job[t].next)
    BY <1>6 DEF ViewInv, WalkInv, SameReports
  <2>2. PICK y, x : y = job[t].obj /\ x = job[t].next
    OBVIOUS
  <2>3. Follows(map, y, x)'
    BY <1>1, <2>1, <2>2, FollowsKept
  <2> QED
    BY <2>1, <2>2, <2>3
<1>7. WalkInv'
  BY <1>5, <1>6 DEF WalkInv
<1>8. \A t \in Tasks : \A a \in map : Ahead(t, a)' <=> Ahead(t, a)
  <2> SUFFICES ASSUME NEW t \in Tasks, NEW a \in map PROVE Ahead(t, a)' <=> Ahead(t, a)
    OBVIOUS
  <2>1. CASE Walking(t)
    <3>1. job[t].obj \in map
      BY <2>1 DEF ViewInv, WalkInv
    <3> QED
      BY <1>2, <1>5, <2>1, <3>1 DEF Ahead
  <2>2. CASE ~Walking(t)
    BY <1>5, <2>2 DEF Ahead
  <2> QED
    BY <2>1, <2>2
<1>9. SweepInv'
  BY <1>8, TasksAre DEF ViewInv, SweepInv, SameReports
<1>10. TruthInv' /\ WholeInv'
  BY <1>3 DEF ViewInv, TruthInv, WholeInv, SameReports
<1>11. ReplyInv'
  <2>1. ASSUME job["main"].pc = "send" PROVE Msg(job["main"].obj)' = Msg(job["main"].obj)
    <3>1. job["main"].obj \in map
      BY <2>1, TasksAre DEF ViewInv, WalkInv, Walking
    <3>2. PICK y : y = job["main"].obj
      OBVIOUS
    <3>3. Msg(y)' = Msg(y)
      BY <1>3, <3>1, <3>2
    <3> QED
      BY <3>2, <3>3
  <2> QED
    BY <1>3, <1>8, <2>1, TasksAre DEF ViewInv, ReplyInv, SameReports
<1>12. FreshInv'
  BY <1>8, TasksAre DEF ViewInv, FreshInv, Current, Adding, Present, SameReports
<1> QED
  BY <1>4, <1>7, <1>9, <1>10, <1>11, <1>12 DEF ViewInv

LEMMA ViewMain ==
    ASSUME IInv, ViewInv, hello \/ lost \/ \E m \in mod : port_mod(m)
    PROVE  ViewInv'
<1>1. /\ SameReports /\ UNCHANGED <<task, job>> /\ sys' = sys /\ live' = live /\ fresh' = fresh
  BY MainSteps
<1>2. CASE hello
  <2>1. conn = "down" /\ job["main"].pc = "idle" /\ conn' = "open" /\ ctl' = ctl
    BY <1>2 DEF hello, Busy
  <2>2. ctl' = {}
    BY <2>1 DEF ViewInv, TruthInv
  <2> QED
    BY <1>1, <2>1, <2>2, ViewKept
<1>3. CASE lost
  <2>1. conn' = "down" /\ ctl' = {}
    BY <1>3 DEF lost
  <2> QED
    BY <1>1, <2>1, ViewKept
<1>4. CASE \E m \in mod : port_mod(m)
  <2>1. conn' = conn /\ ctl' = ctl
    BY <1>4 DEF port_mod
  <2> QED
    BY <1>1, <2>1, ViewKept
<1> QED
  BY <1>2, <1>3, <1>4

\* The receive tasks, the controller's requests and the system change nothing
\* of what is reported.
LEMMA ViewOther ==
    ASSUME ViewInv,
           \/ \E a \in Adrs : Receive(a)
           \/ \E n \in Names : plug(n) \/ unplug(n) \/ link(n)
           \/ \E v \in ctl, flag \in BOOLEAN : controller(v, flag)
           \/ UNCHANGED vars
    PROVE  ViewInv'
<1>1. port' = port /\ map' = map /\ job' = job /\ conn' = conn /\ ctl' = ctl
  BY DEF Receive, recv_start, recv_packet, recv_use, plug, unplug, link, controller, vars, channel
<1>2. SameReports
  BY <1>1 DEF SameReports
<1>3. fresh' => fresh /\ live' = live /\ sys' = sys
  BY DEF Receive, recv_start, recv_packet, recv_use, plug, unplug, link, controller, vars, system
<1> QED
  BY <1>1, <1>2, <1>3, ViewKept

LEMMA ViewHalt ==
    ASSUME NEW why \in {"exit", "wild"}, Halt(why)
    PROVE  ViewInv'
<1>1. map' = {} /\ conn' = "down" /\ ctl' = {} /\ job' = [t \in Tasks |-> Idle]
  BY DEF Halt
<1>2. \A t \in Tasks : job'[t].pc = "idle"
  BY <1>1, IdleJob
<1>3. AloneInv' /\ ZeroInv'
  BY <1>1, <1>2 DEF AloneInv, Busy, ZeroInv
<1>4. WalkInv' /\ SweepInv'
  BY <1>1, <1>2, TasksAre DEF WalkInv, Walking, SweepInv
<1>5. TruthInv' /\ WholeInv' /\ ReplyInv'
  BY <1>1, <1>2, TasksAre DEF TruthInv, WholeInv, ReplyInv
<1>6. FreshInv'
  BY <1>1, <1>2 DEF FreshInv, Adding
<1> QED
  BY <1>3, <1>4, <1>5, <1>6 DEF ViewInv

LEMMA ViewInit == Init => ViewInv
<1> SUFFICES ASSUME Init PROVE ViewInv
  OBVIOUS
<1>1. conn = "down" /\ ctl = {} /\ job = [t \in Tasks |-> Idle] /\ fresh = FALSE
  BY DEF Init
<1>2. \A t \in Tasks : job[t].pc = "idle"
  BY <1>1, IdleJob
<1>3. \A a \in map : port[a].name # ""
  BY FirstPorts, Hashes
<1>4. AloneInv /\ ZeroInv
  BY <1>2, <1>3 DEF AloneInv, Busy, ZeroInv
<1>5. WalkInv /\ SweepInv
  BY <1>2, <1>3, TasksAre DEF WalkInv, Walking, SweepInv
<1>6. TruthInv /\ WholeInv /\ ReplyInv /\ FreshInv
  BY <1>1, <1>2, TasksAre DEF TruthInv, WholeInv, ReplyInv, FreshInv
<1> QED
  BY <1>4, <1>5, <1>6 DEF ViewInv
-----------------------------------------------------------------------------
(* The steps that change a job only.                                       *)

LEMMA StillPort ==
    ASSUME port' = port, map' = map
    PROVE  /\ \A a, b : Before(a, b)' <=> Before(a, b)
           /\ \A a : Msg(a)' = Msg(a)
           /\ \A a, x : Follows(map, a, x)' <=> Follows(map, a, x)
           /\ ZeroInv' <=> ZeroInv
<1>1. \A a, b : Before(a, b)' <=> Before(a, b)
  BY DEF Before
<1>2. \A a : Msg(a)' = Msg(a)
  BY DEF Msg
<1>3. \A a, x : Follows(map, a, x)' <=> Follows(map, a, x)
  BY <1>1 DEF Follows
<1>4. ZeroInv' <=> ZeroInv
  BY DEF ZeroInv
<1> QED
  BY <1>1, <1>2, <1>3, <1>4

\* What a job of the detect task or of the listener has to be.
ComesBy(j, a) == j.pc \in {"old", "info"} /\ (a = j.obj \/ Before(j.obj, a))
GoodJob(j) ==
    /\ j.pc \notin {"fill", "send"}
    /\ j.pc \in {"old", "info"} => j.obj \in map /\ Follows(map, j.obj, j.next)

\* The detect task or the listener goes on.
LEMMA ViewJob ==
    ASSUME ~Overlap, ViewInv, NEW t \in {"detect", "listener"}, NEW j, Busy(t) \/ MayBegin(t),
           job'[t] = j, \A u \in Tasks \ {t} : job'[u] = job[u],
           port' = port, map' = map, live' = live, sys' = sys, conn' = conn, ctl' = ctl,
           GoodJob(j),
           t = "detect" /\ j.pc = "old" => \A a \in map : port[a].name = "" => ComesBy(j, a),
           t = "detect" /\ j.pc \in {"info", "end"} => \A a \in map : port[a].name # "",
           job["detect"].pc = "old" => \A a \in map : port[a].name # "",
           fresh' => /\ \A a \in map : Current(a) \/ (t = "detect" /\ ComesBy(j, a))
                     /\ j.pc \in {"set", "open"} => Present(j.name)
    PROVE  ViewInv'
<1>1. t \in Tasks /\ t # "main"
  BY TasksAre
<1>2. AloneInv' /\ \A u \in Tasks \ {t} : job[u].pc = "idle" /\ job'[u].pc = "idle"
  BY <1>1, Turn DEF ViewInv
<1>3. /\ \A a, b : Before(a, b)' <=> Before(a, b)
      /\ \A a : Msg(a)' = Msg(a)
      /\ \A a, x : Follows(map, a, x)' <=> Follows(map, a, x)
  BY StillPort
<1>4. ZeroInv'
  BY StillPort DEF ViewInv
<1>5. WalkInv'
  <2>1. ASSUME Walking(t)' PROVE job'[t].obj \in map' /\ Follows(map, job[t].obj, job[t].next)'
    <3>1. j.pc \in {"old", "info"}
      BY <2>1 DEF Walking, GoodJob
    <3>2. j.obj \in map /\ Follows(map, j.obj, j.next)
      BY <3>1 DEF GoodJob
    <3>3. PICK y, x : y = j.obj /\ x = j.next
      OBVIOUS
    <3>4. Follows(map, y, x)'
      BY <1>3, <3>2, <3>3
    <3> QED
      BY <3>2, <3>3, <3>4
  <2> QED
    BY <1>1, <1>2, <2>1, WalkAlone
<1>6. ASSUME t = "detect", NEW a, ComesBy(j, a) PROVE Ahead("detect", a)'
  <2>1. PICK y : y = j.obj
    OBVIOUS
  <2>2. a = y \/ Before(y, a)'
    BY <1>3, <1>6, <2>1 DEF ComesBy
  <2> QED
    BY <1>6, <2>1, <2>2 DEF Ahead, Walking, ComesBy
<1>7. SweepInv'
  <2>1. CASE t = "detect"
    BY <1>6, <2>1 DEF SweepInv
  <2>2. CASE t # "detect"
    BY <1>2, <2>2, TasksAre DEF SweepInv
  <2> QED
    BY <2>1, <2>2
<1>8. TruthInv'
  BY <1>3 DEF ViewInv, TruthInv
<1>9. WholeInv'
  BY <1>3 DEF ViewInv, WholeInv
<1>10. ReplyInv'
  BY <1>1, <1>2, TasksAre DEF ReplyInv
<1>11. FreshInv'
  <2> SUFFICES ASSUME fresh'
               PROVE  /\ \A a \in map' : Current(a)' \/ Ahead("detect", a)'
                      /\ \A u \in Tasks : Adding(u)' => Present(job[u].name)'
    BY DEF FreshInv
  <2>1. \A a : Current(a)' <=> Current(a)
    BY DEF Current
  <2>2. \A n : Present(n)' <=> Present(n)
    BY DEF Present
  <2>3. \A a \in map' : Current(a)' \/ Ahead("detect", a)'
    BY <1>6, <2>1
  <2>4. ASSUME NEW u \in Tasks, Adding(u)' PROVE Present(job[u].name)'
    <3>1. u = t
      BY <1>2, <2>4 DEF Adding
    <3>2. PICK n : n = job'[u].name
      OBVIOUS
    <3>3. Present(n)
      BY <2>4, <3>1, <3>2 DEF Adding
    <3>4. Present(n)'
      BY <2>2, <3>3
    <3> QED
      BY <3>2, <3>4
  <2> QED
    BY <2>3, <2>4
<1> QED
  BY <1>2, <1>4, <1>5, <1>7, <1>8, <1>9, <1>10, <1>11 DEF ViewInv

\* The main task goes on.
LEMMA ViewReply ==
    ASSUME ~Overlap, ViewInv, Busy("main") \/ MayBegin("main"),
           \A u \in Tasks \ {"main"} : job'[u] = job[u],
           port' = port, map' = map, live' = live, sys' = sys, fresh' = fresh,
           Walking("main")' => job'["main"].obj \in map /\ Follows(map, job'["main"].obj, job'["main"].next),
           job'["main"].pc \notin {"set", "open"},
           TruthInv', WholeInv', ReplyInv'
    PROVE  ViewInv'
<1>1. AloneInv' /\ \A u \in Tasks \ {"main"} : job[u].pc = "idle" /\ job'[u].pc = "idle"
  BY Turn, TasksAre DEF ViewInv
<1>2. ZeroInv' /\ \A a, x : Follows(map, a, x)' <=> Follows(map, a, x)
  BY StillPort DEF ViewInv
<1>3. WalkInv'
  <2>1. ASSUME Walking("main")'
        PROVE  job'["main"].obj \in map' /\ Follows(map, job["main"].obj, job["main"].next)'
    <3>1. PICK y, x : y = job'["main"].obj /\ x = job'["main"].next
      OBVIOUS
    <3>2. Follows(map, y, x)'
      BY <1>2, <2>1, <3>1
    <3> QED
      BY <2>1, <3>1, <3>2
  <2> QED
    BY <1>1, <2>1, WalkAlone, TasksAre
<1>4. SweepInv'
  BY <1>1, TasksAre DEF SweepInv
<1>5. FreshInv'
  <2>1. \A a : ~Ahead("detect", a)
    BY <1>1, TasksAre DEF Ahead, Walking
  <2>2. \A a : Current(a)' <=> Current(a)
    BY DEF Current
  <2>3. \A u \in Tasks : ~Adding(u)'
    BY <1>1 DEF Adding
  <2> QED
    BY <2>1, <2>2, <2>3 DEF ViewInv, FreshInv
<1> QED
  BY <1>1, <1>2, <1>3, <1>4, <1>5 DEF ViewInv

LEMMA ViewDetectBegin ==
    ASSUME ~Overlap, IInv, ViewInv, detect_begin
    PROVE  ViewInv'
<1>1. TypeInv
  BY DEF IInv
<1>2. PICK j : j = Traverse("detect", "old")
  OBVIOUS
<1>3. BeginsWith(j, "old")
  BY <1>1, <1>2, TraverseBegins, PcsAre
<1>4. /\ MayBegin("detect") /\ job' = [job EXCEPT !["detect"] = j]
      /\ port' = port /\ map' = map /\ live' = live /\ sys' = sys /\ conn' = conn /\ ctl' = ctl
  BY <1>2 DEF detect_begin, system, channel
<1>5. job'["detect"] = j /\ \A u \in Tasks \ {"detect"} : job'[u] = job[u]
  BY <1>1, <1>4, OtherJobs, TasksAre
<1>6. j.pc \in {"old", "end"} /\ GoodJob(j)
  BY <1>3 DEF BeginsWith, GoodJob
<1>7. \A a \in map : j.pc = "old" /\ ComesBy(j, a)
  BY <1>3 DEF BeginsWith, ComesBy
<1>8. job["detect"].pc # "old"
  BY <1>4 DEF MayBegin, Busy
<1> QED
  BY <1>4, <1>5, <1>6, <1>7, <1>8, ViewJob

LEMMA NothingBelow == \A i \in Nat : ~(i < 0)
OBVIOUS

\* A port whose interface is there comes after those without a name.
LEMMA NamelessFirst ==
    ASSUME MaxSys < IndexRange, IInv, ViewInv, halted = "no", NEW a \in map, port[a].name # "",
           NEW b \in map, port[b].name = ""
    PROVE  ~Before(a, b) /\ a # b
<1>1. port[a].pofIndex # 0 /\ port[b].pofIndex = 0
  BY DEF IInv, IndexInv, ViewInv, ZeroInv
<1>2. port[a].pofIndex \in Nat
  BY Indexes DEF IInv
<1>3. ~Before(a, b)
  BY <1>1, <1>2, NothingBelow, Zenon DEF Before
<1> QED
  BY <1>1, <1>3, Zenon

LEMMA ViewDetectOldKeeps ==
    ASSUME ~Overlap, MaxSys < IndexRange, IInv, ViewInv, detect_old,
           Present(port[job["detect"].obj].name)
    PROVE  ViewInv'
<1>1. TypeInv
  BY DEF IInv
<1>2. PICK a : a = job["detect"].obj
  OBVIOUS
<1>3. /\ halted = "no" /\ job["detect"].pc = "old" /\ a \in map /\ Present(port[a].name)
      /\ job' = [job EXCEPT !["detect"].pc = "info"]
      /\ port' = port /\ map' = map /\ live' = live /\ sys' = sys /\ conn' = conn /\ ctl' = ctl
      /\ fresh' = fresh
  BY <1>2 DEF detect_old, system
<1>4. PICK j : j = [job["detect"] EXCEPT !.pc = "info"]
  OBVIOUS
<1>5. job["detect"] \in JobType
  BY <1>1, TasksAre DEF TypeInv, JobsType
<1>6. job'["detect"] = j /\ \A u \in Tasks \ {"detect"} : job'[u] = job[u]
  <2>1. job' = [job EXCEPT !["detect"] = j]
    BY <1>3, <1>4
  <2> QED
    BY <1>1, <2>1, OtherJobs, TasksAre
<1>7. j.pc = "info" /\ j.obj = a /\ j.next = job["detect"].next
  BY <1>2, <1>4, <1>5 DEF JobType
<1>8. port[a].name # ""
  BY <1>3, Hashes DEF Present
<1>9. Walking("detect")
  BY <1>3 DEF Walking
<1>10. ASSUME NEW b \in map PROVE port[b].name # ""
  <2> SUFFICES ASSUME port[b].name = "" PROVE FALSE
    OBVIOUS
  <2>1. b = a \/ Before(a, b)
    BY <1>2, <1>3 DEF ViewInv, SweepInv, Ahead
  <2> QED
    BY <1>3, <1>8, <2>1, NamelessFirst
<1>11. GoodJob(j)
  <2>1. Follows(map, a, job["detect"].next)
    BY <1>2, <1>9, TasksAre DEF ViewInv, WalkInv
  <2> QED
    BY <1>3, <1>7, <2>1 DEF GoodJob
<1>12. \A b : Ahead("detect", b) => ComesBy(j, b)
  BY <1>2, <1>7 DEF Ahead, ComesBy
<1>13. fresh' => \A b \in map : Current(b) \/ ComesBy(j, b)
  BY <1>3, <1>12 DEF ViewInv, FreshInv
<1>14. Busy("detect")
  BY <1>3 DEF Busy
<1> QED
  BY <1>3, <1>6, <1>7, <1>10, <1>11, <1>13, <1>14, ViewJob

\* The ports are current when nobody walks.
LEMMA CurrentAtEnd ==
    ASSUME ViewInv, job["detect"].pc \notin {"old", "info", "fill", "send"}, fresh
    PROVE  \A a \in map : Current(a)
BY DEF ViewInv, FreshInv, Ahead, Walking

\* What detect_list, detect_new, add_set and addport do.
LEMMA ViewNames ==
    ASSUME ~Overlap, ViewInv, NEW t \in {"detect", "listener"}, NEW j, Busy(t) \/ MayBegin(t),
           job[t].pc \notin {"old", "info", "fill", "send"},
           job'[t] = j, \A u \in Tasks \ {t} : job'[u] = job[u],
           port' = port, map' = map, live' = live, sys' = sys, conn' = conn, ctl' = ctl,
           fresh' = fresh, j.pc \in {"idle", "new", "set", "open"},
           fresh /\ j.pc \in {"set", "open"} => Present(j.name)
    PROVE  ViewInv'
<1>1. \A u \in Tasks \ {t} : job[u].pc = "idle"
  BY Turn, TasksAre DEF ViewInv
<1>2. job["detect"].pc \notin {"old", "info", "fill", "send"}
  BY <1>1, TasksAre
<1>3. GoodJob(j)
  BY DEF GoodJob
<1>4. fresh => \A a \in map : Current(a)
  BY <1>2, CurrentAtEnd
<1> QED
  BY <1>2, <1>3, <1>4, ViewJob

LEMMA ViewDetectList ==
    ASSUME ~Overlap, IInv, ViewInv, detect_list
    PROVE  ViewInv'
<1>1. TypeInv
  BY DEF IInv
<1>2. PICK j : j = NextName("detect", Interfaces)
  OBVIOUS
<1>3. /\ job["detect"].pc = "end" /\ job' = [job EXCEPT !["detect"] = j]
      /\ port' = port /\ map' = map /\ live' = live /\ sys' = sys /\ conn' = conn /\ ctl' = ctl
      /\ fresh' = fresh
  BY <1>2 DEF detect_list, system, channel
<1>4. job'["detect"] = j /\ \A u \in Tasks \ {"detect"} : job'[u] = job[u]
  BY <1>1, <1>3, OtherJobs, TasksAre
<1>5. j.pc \in {"idle", "new"}
  <2>1. Interfaces \in SUBSET Names
    BY DEF Interfaces
  <2> QED
    BY <1>2, <2>1, NextNameJob DEF IsNextName
<1>6. Busy("detect")
  BY <1>3 DEF Busy
<1> QED
  BY <1>3, <1>4, <1>5, <1>6, ViewNames

LEMMA ViewDetectNew ==
    ASSUME ~Overlap, IInv, ViewInv, detect_new
    PROVE  ViewInv'
<1>1. TypeInv
  BY DEF IInv
<1>2. /\ job["detect"].pc = "new"
      /\ port' = port /\ map' = map /\ live' = live /\ sys' = sys /\ conn' = conn /\ ctl' = ctl
      /\ fresh' = fresh
  BY DEF detect_new, system, channel
<1>3. PICK n \in job["detect"].todo :
         job' = [job EXCEPT !["detect"] = IF Wanted(n) THEN Adds(n, job["detect"].todo \ {n})
                                          ELSE NextName("detect", job["detect"].todo \ {n})]
  BY DEF detect_new
<1>4. PICK rest : rest = job["detect"].todo \ {n}
  OBVIOUS
<1>5. PICK j : j = IF Wanted(n) THEN Adds(n, rest) ELSE NextName("detect", rest)
  OBVIOUS
<1>6. n \in Names /\ rest \in SUBSET Names
  <2>1. job["detect"] \in JobType
    BY <1>1, TasksAre DEF TypeInv, JobsType
  <2> QED
    BY <1>4, <2>1 DEF JobType
<1>7. job' = [job EXCEPT !["detect"] = j]
  BY <1>3, <1>4, <1>5
<1>8. job'["detect"] = j /\ \A u \in Tasks \ {"detect"} : job'[u] = job[u]
  BY <1>1, <1>7, OtherJobs, TasksAre
<1>9. CASE Wanted(n)
  <2>1. j.pc = "set" /\ j.name = n
    BY <1>5, <1>6, <1>9, AddJob
  <2> QED
    BY <1>2, <1>8, <1>9, <2>1, ViewNames DEF Wanted, Busy
<1>10. CASE ~Wanted(n)
  <2>1. j.pc \in {"idle", "new"}
    BY <1>5, <1>6, <1>10, NextNameJob DEF IsNextName
  <2> QED
    BY <1>2, <1>8, <2>1, ViewNames DEF Busy
<1> QED
  BY <1>9, <1>10

LEMMA ViewAddPort ==
    ASSUME ~Overlap, IInv, ViewInv, NEW n \in Names, addport(n)
    PROVE  ViewInv'
<1>1. TypeInv
  BY DEF IInv
<1>2. PICK j : j = Adds(n, {})
  OBVIOUS
<1>3. /\ MayBegin("listener") /\ Wanted(n) /\ job' = [job EXCEPT !["listener"] = j]
      /\ port' = port /\ map' = map /\ live' = live /\ sys' = sys /\ conn' = conn /\ ctl' = ctl
      /\ fresh' = fresh
  BY <1>2 DEF addport, system, channel
<1>4. job'["listener"] = j /\ \A u \in Tasks \ {"listener"} : job'[u] = job[u]
  BY <1>1, <1>3, OtherJobs, TasksAre
<1>5. j.pc = "set" /\ j.name = n
  BY <1>2, AddJob
<1>6. job["listener"].pc = "idle" /\ Present(n)
  BY <1>3 DEF MayBegin, Busy, Wanted
<1> QED
  BY <1>3, <1>4, <1>5, <1>6, ViewNames

LEMMA ViewAddSetFinds ==
    ASSUME ~Overlap, IInv, ViewInv, NEW t \in {"detect", "listener"}, add_set(t), Present(job[t].name)
    PROVE  ViewInv'
<1>1. TypeInv /\ t \in Tasks
  BY TasksAre DEF IInv
<1>2. /\ job[t].pc = "set" /\ job' = [job EXCEPT ![t].pc = "open", ![t].index = sys[job[t].name]]
      /\ port' = port /\ map' = map /\ live' = live /\ sys' = sys /\ conn' = conn /\ ctl' = ctl
      /\ fresh' = fresh
  BY DEF add_set, system
<1>3. job[t] \in JobType /\ job \in [Tasks -> JobType]
  BY <1>1 DEF TypeInv, JobsType
<1>4. PICK j : j = job'[t]
  OBVIOUS
<1>5. j.pc = "open" /\ j.name = job[t].name /\ \A u \in Tasks \ {t} : job'[u] = job[u]
  BY <1>1, <1>2, <1>3, <1>4 DEF JobType
<1>6. Busy(t)
  BY <1>2 DEF Busy
<1> QED
  BY <1>2, <1>4, <1>5, <1>6, ViewNames
-----------------------------------------------------------------------------
(* The answer to GET_CONFIG_REQUEST.                                       *)

LEMMA ViewGetConfig ==
    ASSUME ~Overlap, IInv, ViewInv, get_config
    PROVE  ViewInv'
<1>1. TypeInv
  BY DEF IInv
<1>2. PICK j : j = Traverse("main", "fill")
  OBVIOUS
<1>3. BeginsWith(j, "fill")
  BY <1>1, <1>2, TraverseBegins, PcsAre
<1>4. /\ MayBegin("main") /\ conn = "open" /\ job' = [job EXCEPT !["main"] = j]
      /\ port' = port /\ map' = map /\ live' = live /\ sys' = sys /\ conn' = conn /\ ctl' = ctl
      /\ fresh' = fresh
  BY <1>2 DEF get_config, system, channel
<1>5. job'["main"] = j /\ \A u \in Tasks \ {"main"} : job'[u] = job[u]
  BY <1>1, <1>4, OtherJobs, TasksAre
<1>6. j.pc \in {"fill", "end"}
  BY <1>3 DEF BeginsWith
<1>7. /\ \A a, b : Before(a, b)' <=> Before(a, b)
      /\ \A a : Msg(a)' = Msg(a)
  BY <1>4, StillPort
<1>8. Walking("main")' => j.obj \in map /\ Follows(map, j.obj, j.next)
  <2>1. j.pc = "fill" => map # {}
    BY <1>3 DEF BeginsWith
  <2> QED
    BY <1>3, <1>5, <1>6, <2>1 DEF Walking, BeginsWith
<1>9. TruthInv' /\ WholeInv'
  BY <1>4, <1>7 DEF ViewInv, TruthInv, WholeInv
<1>10. ReplyInv'
  <2>1. ASSUME NEW a \in map PROVE Ahead("main", a)'
    <3>1. PICK y : y = j.obj
      OBVIOUS
    <3>2. j.pc = "fill" /\ (a = y \/ Before(y, a))
      BY <1>3, <3>1 DEF BeginsWith
    <3>3. a = y \/ Before(y, a)'
      BY <1>7, <3>2
    <3> QED
      BY <1>5, <3>1, <3>2, <3>3 DEF Ahead, Walking
  <2> QED
    BY <1>4, <1>5, <1>6, <2>1 DEF ReplyInv
<1> QED
  BY <1>4, <1>5, <1>6, <1>8, <1>9, <1>10, ViewReply

LEMMA ViewReplyFill ==
    ASSUME ~Overlap, IInv, ViewInv, reply_fill
    PROVE  ViewInv'
<1>1. TypeInv
  BY DEF IInv
<1>2. PICK a, m : a = job["main"].obj /\ m = Msg(a)
  OBVIOUS
<1>3. /\ job["main"].pc = "fill" /\ a \in map
      /\ job' = [job EXCEPT !["main"].pc = "send", !["main"].msg = {m}]
      /\ port' = port /\ map' = map /\ live' = live /\ sys' = sys /\ conn' = conn /\ ctl' = ctl
      /\ fresh' = fresh
  BY <1>2 DEF reply_fill, system, channel, Msg
<1>4. job["main"] \in JobType /\ job \in [Tasks -> JobType]
  BY <1>1, TasksAre DEF TypeInv, JobsType
<1>5. PICK j : j = job'["main"]
  OBVIOUS
<1>6. /\ j.pc = "send" /\ j.obj = a /\ j.next = job["main"].next /\ j.msg = {m}
      /\ \A u \in Tasks \ {"main"} : job'[u] = job[u]
  BY <1>2, <1>3, <1>4, <1>5, TasksAre DEF JobType
<1>7. /\ \A b, c : Before(b, c)' <=> Before(b, c)
      /\ \A b : Msg(b)' = Msg(b)
  BY <1>3, StillPort
<1>8. Follows(map, j.obj, j.next)
  BY <1>2, <1>3, <1>6, TasksAre DEF ViewInv, WalkInv, Walking
<1>9. TruthInv' /\ WholeInv'
  <2>1. job'["detect"] = job["detect"]
    BY <1>6, TasksAre
  <2> QED
    BY <1>3, <1>7, <2>1 DEF ViewInv, TruthInv, WholeInv
<1>10. ReplyInv'
  <2>1. Msg(a)' = m
    BY <1>2, <1>7
  <2>2. job'["main"].msg = {Msg(job["main"].obj)'}
    BY <1>5, <1>6, <2>1
  <2>3. ASSUME NEW b \in map, Ahead("main", b) PROVE Ahead("main", b)'
    <3>1. b = a \/ Before(a, b)
      BY <1>2, <2>3 DEF Ahead
    <3>2. b = a \/ Before(a, b)'
      BY <1>7, <3>1
    <3> QED
      BY <1>5, <1>6, <3>2 DEF Ahead, Walking
  <2>4. conn # "run" /\ (conn = "open" => \A b \in map : Msg(b) \in ctl \/ Ahead("main", b))
    BY <1>3 DEF ViewInv, ReplyInv
  <2> QED
    BY <1>3, <1>7, <2>2, <2>3, <2>4 DEF ReplyInv
<1>11. Busy("main")
  BY <1>3 DEF Busy
<1> QED
  BY <1>3, <1>5, <1>6, <1>8, <1>9, <1>10, <1>11, ViewReply

LEMMA ViewReplySend ==
    ASSUME ~Overlap, MaxSys < IndexRange, IInv, ViewInv, reply_send
    PROVE  ViewInv'
<1>1. TypeInv /\ WalkInv /\ ZeroInv
  BY DEF IInv, ViewInv
<1>2. PICK a, j : a = job["main"].obj /\ j = Step("main", map, "fill")
  OBVIOUS
<1>3. /\ halted = "no" /\ job["main"].pc = "send" /\ job' = [job EXCEPT !["main"] = j]
      /\ port' = port /\ map' = map /\ live' = live /\ sys' = sys /\ conn' = conn
      /\ fresh' = fresh
  BY <1>2 DEF reply_send, system
<1>4. job'["main"] = j /\ \A u \in Tasks \ {"main"} : job'[u] = job[u]
  BY <1>1, <1>3, OtherJobs, TasksAre
<1>5. Walking("main") /\ Busy("main") /\ a \in map
  BY <1>1, <1>2, <1>3, TasksAre DEF Walking, Busy, WalkInv
<1>6. GoesOn(j, map, job["main"].next, "fill")
  <2>1. map \in SUBSET map
    OBVIOUS
  <2> QED
    BY <1>1, <1>2, <2>1, StepGoesOn, TasksAre, PcsAre
<1>7. WalksOn("main", "fill")
  BY <1>3, <1>4, <1>5, <1>6 DEF WalksOn
<1>8. /\ Walking("main")' => j.obj \in map' /\ Follows(map, job["main"].obj, job["main"].next)'
      /\ j.pc \in {"fill", "end"}
      /\ \A b \in map : Before(a, b) => Ahead("main", b)'
  BY <1>1, <1>2, <1>3, <1>4, <1>7, WalkOn, TasksAre
<1>9. Walking("main")' => j.obj \in map /\ Follows(map, j.obj, j.next)
  <2>1. \A b, x : Follows(map, b, x)' <=> Follows(map, b, x)
    BY <1>3, StillPort
  <2>2. PICK b, x : b = j.obj /\ x = j.next
    OBVIOUS
  <2>3. Walking("main")' => Follows(map, b, x)'
    BY <1>4, <1>8, <2>2
  <2> QED
    BY <1>3, <1>8, <2>1, <2>2, <2>3
<1>10. \A b : Msg(b)' = Msg(b)
  BY <1>3, StillPort
<1>11. ctl' = Told("ADD", Msg(a))
  <2>1. job["main"].msg = {Msg(a)}
    BY <1>2, <1>3 DEF ViewInv, ReplyInv
  <2> QED
    BY <2>1 DEF reply_send
<1>12. /\ conn = "down" => ctl' = ctl
       /\ conn # "down" => \A v : v \in ctl' <=> v = Msg(a) \/ (v \in ctl /\ v.id # Msg(a).id)
  BY <1>11, ToldNew
<1>13. conn # "run"
  BY <1>3 DEF ViewInv, ReplyInv
<1>14. TruthInv'
  <2>1. conn = "down" => ctl' = {}
    BY <1>12 DEF ViewInv, TruthInv
  <2>2. ASSUME NEW v \in ctl' PROVE \E b \in map : v = Msg(b)
    BY <1>5, <1>12, <2>1 DEF ViewInv, TruthInv
  <2> QED
    BY <1>3, <1>10, <2>1, <2>2 DEF TruthInv
<1>15. WholeInv'
  BY <1>3, <1>13 DEF WholeInv
<1>16. ReplyInv'
  <2>1. ASSUME conn = "open", NEW b \in map PROVE Msg(b) \in ctl' \/ Ahead("main", b)'
    <3>1. Msg(b) \in ctl \/ b = a \/ Before(a, b)
      BY <1>2, <1>3, <2>1 DEF ViewInv, ReplyInv, Ahead
    <3>2. CASE Before(a, b)
      BY <1>8, <3>2
    <3>3. CASE b = a
      BY <1>12, <2>1, <3>3
    <3>4. CASE Msg(b) \in ctl
      <4>1. CASE Msg(b).id = Msg(a).id
        <5>1. port[b].pofIndex = port[a].pofIndex
          BY <4>1, MsgFields
        <5>2. Msg(b) = Msg(a)
          BY <1>1, <1>3, <1>5, <5>1, OneIndex
        <5> QED
          BY <1>12, <2>1, <5>2
      <4>2. CASE Msg(b).id # Msg(a).id
        BY <1>12, <2>1, <3>4, <4>2
      <4> QED
        BY <4>1, <4>2
    <3> QED
      BY <3>1, <3>2, <3>3, <3>4
  <2>2. j.pc # "send"
    BY <1>8
  <2> QED
    BY <1>3, <1>4, <1>10, <1>13, <2>1, <2>2 DEF ReplyInv
<1> QED
  BY <1>3, <1>4, <1>5, <1>8, <1>9, <1>14, <1>15, <1>16, ViewReply

LEMMA ViewReplyEnd ==
    ASSUME ~Overlap, IInv, ViewInv, reply_end
    PROVE  ViewInv'
<1>1. TypeInv
  BY DEF IInv
<1>2. /\ job["main"].pc = "end" /\ job' = [job EXCEPT !["main"] = Idle]
      /\ port' = port /\ map' = map /\ live' = live /\ sys' = sys /\ ctl' = ctl
      /\ fresh' = fresh
      /\ conn' = IF conn = "open" THEN "run" ELSE conn
  BY DEF reply_end, system
<1>3. job'["main"] = Idle /\ \A u \in Tasks \ {"main"} : job'[u] = job[u]
  BY <1>1, <1>2, OtherJobs, TasksAre
<1>4. job'["main"].pc = "idle"
  BY <1>3, IdleJob
<1>5. \A b : Msg(b)' = Msg(b)
  BY <1>2, StillPort
<1>6. conn # "run" /\ (conn = "open" => \A b \in map : Msg(b) \in ctl)
  BY <1>2 DEF ViewInv, ReplyInv, Ahead, Walking
<1>7. conn \in {"down", "open", "run"}
  BY <1>1 DEF TypeInv, FlagType
<1>8. TruthInv'
  BY <1>2, <1>5 DEF ViewInv, TruthInv
<1>9. WholeInv' /\ ReplyInv'
  BY <1>2, <1>4, <1>5, <1>6 DEF WholeInv, ReplyInv
<1>10. ~Walking("main")' /\ Busy("main")
  BY <1>2, <1>4 DEF Walking, Busy
<1> QED
  BY <1>2, <1>3, <1>4, <1>8, <1>9, <1>10, ViewReply
-----------------------------------------------------------------------------
(* Ports are removed.                                                      *)

LEMMA Removed ==
    ASSUME MaxSys < IndexRange, IInv, ViewInv, halted = "no", NEW d \in map, poflr_del_port(d),
           conn' = conn
    PROVE  /\ map' = map \ {d} /\ \A a \in map' : port'[a] = port[a] /\ Msg(a)' = Msg(a)
           /\ ZeroInv' /\ TruthInv'
           /\ conn = "run" =>
                 \A a \in map' : Msg(a) \in ctl => Msg(a) \in ctl' \/ (port[a].name = "" /\ port[d].name = "")
<1>1. TypeInv /\ ZeroInv
  BY DEF IInv, ViewInv
<1>2. map' = map \ {d} /\ map \subseteq Adrs /\ \A a \in Adrs \ {d} : port'[a] = port[a]
  BY <1>1, DelFacts DEF TypeInv, StructType
<1>3. \A a \in map' : port'[a] = port[a]
  BY <1>2
<1>4. \A a \in map' : Msg(a)' = Msg(a)
  BY <1>3 DEF Msg
<1>5. ctl' = Told("DELETE", Msg(d))
  BY DEF poflr_del_port, poflr_port_report, Msg
<1>6. /\ conn = "down" => ctl' = ctl
      /\ conn # "down" => \A v : v \in ctl' <=> v \in ctl /\ v.id # Msg(d).id
  BY <1>5, ToldGone
<1>7. ZeroInv'
  BY <1>1, <1>2, <1>3 DEF ZeroInv
<1>8. TruthInv'
  <2>1. conn = "down" => ctl' = {}
    BY <1>6 DEF ViewInv, TruthInv
  <2>2. ASSUME NEW v \in ctl' PROVE \E b \in map' : v = Msg(b)
    <3>1. v \in ctl /\ v.id # Msg(d).id
      BY <1>6, <2>1, <2>2
    <3>2. PICK b \in map : v = Msg(b)
      BY <3>1 DEF ViewInv, TruthInv
    <3>3. b # d
      BY <3>1, <3>2
    <3> QED
      BY <1>2, <3>2, <3>3
  <2> QED
    BY <1>4, <2>1, <2>2 DEF TruthInv
<1>9. ASSUME conn = "run", NEW a \in map', Msg(a) \in ctl, Msg(a) \notin ctl'
      PROVE  port[a].name = "" /\ port[d].name = ""
  <2>1. Msg(a).id = Msg(d).id
    BY <1>6, <1>9
  <2>2. port[a].pofIndex = port[d].pofIndex /\ a \in map /\ a # d
    BY <1>2, <2>1, MsgFields
  <2>3. Msg(a) = Msg(d) /\ port[a].name = ""
    BY <1>1, <2>2, OneIndex
  <2> QED
    BY <2>3, MsgFields
<1> QED
  BY <1>2, <1>3, <1>4, <1>7, <1>8, <1>9

LEMMA ViewDelPort ==
    ASSUME ~Overlap, MaxSys < IndexRange, IInv, ViewInv, NEW n \in Names, delport(n)
    PROVE  ViewInv'
<1>1. TypeInv
  BY DEF IInv
<1>2. PICK d : d = poflr_get_port_with_name(n)
  OBVIOUS
<1>3. /\ halted = "no" /\ MayBegin("listener") /\ d # 0 /\ poflr_del_port(d)
      /\ live' = live /\ sys' = sys /\ conn' = conn /\ job' = job /\ fresh' = fresh
  BY <1>2 DEF delport, system
<1>4. d \in map /\ port[d].name # ""
  BY <1>1, <1>2, <1>3, FoundByName
<1>5. /\ map' = map \ {d} /\ \A a \in map' : port'[a] = port[a] /\ Msg(a)' = Msg(a)
      /\ ZeroInv' /\ TruthInv'
      /\ conn = "run" =>
            \A a \in map' : Msg(a) \in ctl => Msg(a) \in ctl' \/ (port[a].name = "" /\ port[d].name = "")
  BY <1>3, <1>4, Removed
<1>6. \A t \in Tasks : job[t].pc = "idle"
  BY <1>3 DEF MayBegin, Busy
<1>7. AloneInv' /\ WalkInv' /\ SweepInv' /\ ReplyInv'
  BY <1>3, <1>6, TasksAre DEF AloneInv, Busy, WalkInv, Walking, SweepInv, ReplyInv
<1>8. WholeInv'
  <2>1. conn = "run" => \A a \in map : Msg(a) \in ctl
    BY <1>6, TasksAre DEF ViewInv, WholeInv
  <2> QED
    BY <1>3, <1>4, <1>5, <2>1 DEF WholeInv
<1>9. FreshInv'
  <2>1. fresh => \A a \in map : Current(a)
    BY <1>6, TasksAre, CurrentAtEnd
  <2>2. \A a \in map' : Current(a)' <=> Current(a)
    BY <1>3, <1>5 DEF Current
  <2>3. \A t \in Tasks : ~Adding(t)'
    BY <1>3, <1>6 DEF Adding
  <2> QED
    BY <1>3, <1>5, <2>1, <2>2, <2>3 DEF FreshInv
<1> QED
  BY <1>5, <1>7, <1>8, <1>9 DEF ViewInv

\* A search returns the newest of the ports that it finds.
LEMMA NewestIsLast ==
    ASSUME TypeInv, NEW S \in SUBSET map, NEW b \in S
    PROVE  Newest(S) \in S /\ Newest(S) >= b
<1>1. Len(port) \in Nat /\ S \subseteq 0..Len(port) /\ S # {}
  BY Structures
<1>2. \E x \in S : \A y \in S : x >= y
  BY <1>1, GreatestNat
<1>3. Max(S) \in S /\ \A y \in S : Max(S) >= y
  BY <1>2, Zenon DEF Max
<1>4. Newest(S) = Max(S)
  BY <1>1, Zenon DEF Newest
<1> QED
  BY <1>3, <1>4, Zenon

\* The port that poflr_port_detect_old removes is the one it has come to, also
\* when there are ports without a name: it comes to the newest of them first.
LEMMA FoundIsObj ==
    ASSUME IInv, ViewInv, job["detect"].pc = "old", NEW a \in map, a = job["detect"].obj
    PROVE  poflr_get_port_with_name(port[a].name) = a
<1>1. TypeInv /\ HashInv /\ ZeroInv
  BY DEF IInv, ViewInv
<1> DEFINE S == {b \in map : Hash(port[b].name) = Hash(port[a].name)}
<1>2. a \in S /\ S \in SUBSET map
  OBVIOUS
<1>3. PICK d : d = Newest(S)
  OBVIOUS
<1>4. d = poflr_get_port_with_name(port[a].name)
  BY <1>3 DEF poflr_get_port_with_name
<1>5. d \in S /\ d >= a
  <2> HIDE DEF S
  <2> QED  BY <1>1, <1>2, <1>3, NewestIsLast
<1>6. d \in map /\ Hash(port[d].name) = Hash(port[a].name)
  BY <1>5
<1>7. CASE port[d].name # ""
  <2>1. d = a
    BY <1>1, <1>6, <1>7 DEF HashInv
  <2> QED
    BY <1>4, <2>1
<1>8. CASE port[d].name = ""
  <2>1. port[a].name \in Names \cup {""}
    <3>1. port[a].name \in AnyName
      BY <1>1, Structures DEF PortInfo
    <3> QED
      BY <3>1 DEF AnyName
  <2>2. port[a].name = ""
    BY <1>6, <1>8, <2>1, Hashes
  <2>3. d = a \/ Before(a, d)
    BY <1>6, <1>8 DEF ViewInv, SweepInv, Ahead
  <2>4. port[a].pofIndex = 0 /\ port[d].pofIndex = 0
    BY <1>1, <1>6, <1>8, <2>2 DEF ZeroInv
  <2>5. d = a
    <3>1. a \in Nat /\ d \in Nat
      BY <1>1, <1>6, Indexes
    <3>2. ~(0 < 0) /\ ~(a > d)
      BY <1>5, <3>1
    <3> QED
      BY <2>3, <2>4, <3>2 DEF Before
  <2> QED
    BY <1>4, <2>5
<1> QED
  BY <1>7, <1>8

LEMMA ViewDetectOldRemoves ==
    ASSUME ~Overlap, MaxSys < IndexRange, IInv, ViewInv, detect_old,
           ~Present(port[job["detect"].obj].name)
    PROVE  ViewInv'
<1>1. TypeInv /\ WalkInv /\ AloneInv
  BY DEF IInv, ViewInv
<1>2. PICK a : a = job["detect"].obj
  OBVIOUS
<1>3. /\ halted = "no" /\ job["detect"].pc = "old" /\ a \in map /\ ~Present(port[a].name)
      /\ live' = live /\ sys' = sys /\ conn' = conn /\ fresh' = fresh
  BY <1>2 DEF detect_old, system
<1>4. poflr_get_port_with_name(port[a].name) = a
  BY <1>2, <1>3, FoundIsObj
<1>5. PICK j : j = Step("detect", map \ {a}, "old")
  OBVIOUS
<1>6. poflr_del_port(a) /\ job' = [job EXCEPT !["detect"] = j]
  BY <1>2, <1>3, <1>4, <1>5 DEF detect_old
<1>7. job'["detect"] = j /\ \A u \in Tasks \ {"detect"} : job'[u] = job[u]
  BY <1>1, <1>6, OtherJobs, TasksAre
<1>8. /\ map' = map \ {a} /\ \A b \in map' : port'[b] = port[b] /\ Msg(b)' = Msg(b)
      /\ ZeroInv' /\ TruthInv'
      /\ conn = "run" =>
            \A b \in map' : Msg(b) \in ctl => Msg(b) \in ctl' \/ (port[b].name = "" /\ port[a].name = "")
  BY <1>3, <1>6, Removed
<1>9. Busy("detect") /\ Walking("detect")
  BY <1>3 DEF Busy, Walking
<1>10. AloneInv' /\ \A u \in Tasks \ {"detect"} : job[u].pc = "idle" /\ job'[u].pc = "idle"
  BY <1>1, <1>7, <1>9, Turn, TasksAre
<1>11. GoesOn(j, map', job["detect"].next, "old")
  <2>1. map \ {a} \in SUBSET map
    OBVIOUS
  <2> QED
    BY <1>1, <1>5, <1>8, <2>1, StepGoesOn, TasksAre, PcsAre
<1>12. WalksOn("detect", "old")
  BY <1>2, <1>7, <1>8, <1>9, <1>11 DEF WalksOn
<1>13. /\ Walking("detect")' => job'["detect"].obj \in map' /\ Follows(map, job["detect"].obj, job["detect"].next)'
       /\ j.pc \in {"old", "end"}
       /\ \A b \in map' : Before(a, b) => Ahead("detect", b)' /\ j.pc = "old"
  BY <1>1, <1>2, <1>7, <1>12, WalkOn, TasksAre
<1>14. WalkInv'
  BY <1>10, <1>13, WalkAlone, TasksAre
<1>15. \A b \in map' : Ahead("detect", b) => Ahead("detect", b)' /\ j.pc = "old"
  BY <1>2, <1>8, <1>13 DEF Ahead
<1>16. \A b \in map' : port[b].name = "" => Ahead("detect", b)' /\ j.pc = "old"
  BY <1>3, <1>8, <1>15 DEF ViewInv, SweepInv
<1>17. SweepInv'
  BY <1>7, <1>8, <1>16 DEF SweepInv
<1>18. WholeInv'
  BY <1>3, <1>7, <1>8, <1>16 DEF ViewInv, WholeInv
<1>19. ReplyInv'
  BY <1>10, TasksAre DEF ReplyInv
<1>20. FreshInv'
  <2>1. \A b \in map' : Current(b)' <=> Current(b)
    BY <1>3, <1>8 DEF Current
  <2>2. \A t \in Tasks : ~Adding(t)'
    BY <1>7, <1>10, <1>13 DEF Adding
  <2> QED
    BY <1>3, <1>8, <1>15, <2>1, <2>2 DEF ViewInv, FreshInv
<1> QED
  BY <1>8, <1>10, <1>14, <1>17, <1>18, <1>19, <1>20 DEF ViewInv
-----------------------------------------------------------------------------
(* Ports are changed and added.                                            *)

\* What detect_info does to the port it has come to, reported or not.
LEMMA InfoFacts ==
    ASSUME IInv, detect_info, NEW a, a = job["detect"].obj
    PROVE  /\ a \in map /\ port[a].name \in Names /\ map' = map
           /\ port'[a].name = port[a].name /\ port'[a].pofIndex = port[a].pofIndex
           /\ port'[a].live = live[port[a].name]
           /\ \A b \in map \ {a} : port'[b] = port[b]
           /\ (ctl' = ctl /\ Msg(a)' = Msg(a)) \/ ctl' = Told("MODIFY", Msg(a)')
<1>1. TypeInv
  BY DEF IInv
<1>2. PICK n : n = port[a].name
  OBVIOUS
<1>3. PICK new : new = [port[a] EXCEPT !.sysIndex = sys[n], !.live = live[n]]
  OBVIOUS
<1>4. a \in map /\ Present(n) /\ map' = map
  BY <1>2 DEF detect_info
<1>5. n \in Names
  BY <1>4 DEF Present
<1>6. port[a] \in PortInfo /\ port \in [Adrs -> PortInfo] /\ map \subseteq Adrs
  BY <1>1, <1>4, Structures
<1>7. new.name = n /\ new.pofIndex = port[a].pofIndex /\ new.live = live[n]
  BY <1>2, <1>3, <1>6 DEF PortInfo
<1>8. CASE comparePorts(port[a], new)
  <2>1. port' = port /\ ctl' = ctl
    BY <1>2, <1>3, <1>8 DEF detect_info
  <2>2. port[a].live = new.live
    BY <1>8 DEF comparePorts
  <2>3. Msg(a)' = Msg(a)
    BY <2>1 DEF Msg
  <2> QED
    BY <1>2, <1>4, <1>5, <1>7, <2>1, <2>2, <2>3
<1>9. CASE ~comparePorts(port[a], new)
  <2>1. port' = [port EXCEPT ![a] = new] /\ poflr_port_report("MODIFY", new)
    BY <1>2, <1>3, <1>9 DEF detect_info
  <2>2. port'[a] = new /\ \A b \in map \ {a} : port'[b] = port[b]
    BY <1>4, <1>6, <2>1
  <2>3. Msg(a)' = port_report_fill_msg(new)
    BY <2>2 DEF Msg
  <2>4. ctl' = Told("MODIFY", Msg(a)')
    BY <2>1, <2>3 DEF poflr_port_report
  <2> QED
    BY <1>2, <1>4, <1>5, <1>7, <2>2, <2>4
<1> QED
  BY <1>8, <1>9

LEMMA ViewDetectInfo ==
    ASSUME ~Overlap, MaxSys < IndexRange, IInv, ViewInv, detect_info
    PROVE  ViewInv'
<1>1. TypeInv /\ WalkInv /\ AloneInv /\ ZeroInv
  BY DEF IInv, ViewInv
<1>2. PICK a, j : a = job["detect"].obj /\ j = Step("detect", map, "old")
  OBVIOUS
<1>3. /\ halted = "no" /\ job["detect"].pc = "info" /\ job' = [job EXCEPT !["detect"] = j]
      /\ live' = live /\ sys' = sys /\ conn' = conn /\ fresh' = fresh
  BY <1>2 DEF detect_info, system
<1>4. /\ a \in map /\ port[a].name \in Names /\ map' = map
      /\ port'[a].name = port[a].name /\ port'[a].pofIndex = port[a].pofIndex
      /\ port'[a].live = live[port[a].name]
      /\ \A b \in map \ {a} : port'[b] = port[b]
      /\ (ctl' = ctl /\ Msg(a)' = Msg(a)) \/ ctl' = Told("MODIFY", Msg(a)')
  BY <1>2, InfoFacts
<1>5. \A b \in map : port[b].name # "" /\ port'[b].name # "" /\ port'[b].pofIndex = port[b].pofIndex
  BY <1>3, <1>4 DEF ViewInv, SweepInv
<1>6. \A b \in map \ {a} : Msg(b)' = Msg(b)
  BY <1>4 DEF Msg
<1>7. job'["detect"] = j /\ \A u \in Tasks \ {"detect"} : job'[u] = job[u]
  BY <1>1, <1>3, OtherJobs, TasksAre
<1>8. Busy("detect") /\ Walking("detect")
  BY <1>3 DEF Busy, Walking
<1>9. AloneInv' /\ \A u \in Tasks \ {"detect"} : job[u].pc = "idle" /\ job'[u].pc = "idle"
  BY <1>1, <1>7, <1>8, Turn, TasksAre
<1>10. GoesOn(j, map, job["detect"].next, "old")
  <2>1. map \in SUBSET map
    OBVIOUS
  <2> QED
    BY <1>1, <1>2, <2>1, StepGoesOn, TasksAre, PcsAre
<1>11. WalksOn("detect", "old")
  BY <1>4, <1>5, <1>7, <1>8, <1>10 DEF WalksOn
<1>12. /\ Walking("detect")' => job'["detect"].obj \in map' /\ Follows(map, job["detect"].obj, job["detect"].next)'
       /\ j.pc \in {"old", "end"}
       /\ \A b \in map : Before(a, b) => Ahead("detect", b)'
  BY <1>1, <1>2, <1>4, <1>7, <1>11, WalkOn, TasksAre
<1>13. WalkInv'
  BY <1>9, <1>12, WalkAlone, TasksAre
<1>14. ZeroInv' /\ SweepInv'
  BY <1>4, <1>5 DEF ZeroInv, SweepInv
<1>15. PICK m : m = Msg(a)' /\ m.id = port[a].pofIndex
  <2>1. Msg(a)'.id = port'[a].pofIndex
    BY DEF Msg, port_report_fill_msg
  <2> QED
    BY <1>4, <2>1
<1>16. \/ ctl' = ctl /\ m = Msg(a)
       \/ /\ conn = "down" => ctl' = ctl
          /\ conn # "down" => \A v : v \in ctl' <=> v = m \/ (v \in ctl /\ v.id # m.id)
  <2>1. CASE ctl' = ctl /\ Msg(a)' = Msg(a)
    BY <1>15, <2>1
  <2>2. CASE ctl' = Told("MODIFY", Msg(a)')
    <3>1. ctl' = Told("MODIFY", m)
      BY <1>15, <2>2
    <3> QED
      BY <3>1, ToldNew
  <2> QED
    BY <1>4, <2>1, <2>2
<1>17. TruthInv'
  <2>1. conn = "down" => ctl' = {}
    BY <1>16 DEF ViewInv, TruthInv
  <2>2. ASSUME NEW v \in ctl' PROVE \E b \in map : v = Msg(b)'
    <3>1. CASE v = m
      BY <1>4, <1>15, <3>1
    <3>2. CASE v # m
      <4>1. v \in ctl /\ (v.id # m.id \/ m = Msg(a))
        BY <1>16, <2>1, <2>2, <3>2
      <4>2. PICK b \in map : v = Msg(b)
        BY <4>1 DEF ViewInv, TruthInv
      <4>3. b # a
        BY <1>15, <3>2, <4>1, <4>2, MsgFields
      <4> QED
        BY <1>6, <4>2, <4>3
    <3> QED
      BY <3>1, <3>2
  <2> QED
    BY <1>3, <1>4, <2>1, <2>2 DEF TruthInv
<1>18. WholeInv'
  <2> SUFFICES ASSUME conn = "run", NEW b \in map PROVE Msg(b)' \in ctl'
    BY <1>3, <1>4 DEF WholeInv
  <2>1. Msg(b) \in ctl
    BY <1>3 DEF ViewInv, WholeInv
  <2>2. CASE b = a
    BY <1>15, <1>16, <2>1, <2>2
  <2>3. CASE b # a
    <3>1. Msg(b).id # m.id
      <4> SUFFICES ASSUME Msg(b).id = m.id PROVE FALSE
        OBVIOUS
      <4>1. port[b].pofIndex = port[a].pofIndex
        BY <1>15, MsgFields
      <4> QED
        BY <1>1, <1>3, <1>4, <1>5, <2>3, <4>1, OneIndex
    <3> QED
      BY <1>6, <1>16, <2>1, <2>3, <3>1
  <2> QED
    BY <2>2, <2>3
<1>19. ReplyInv'
  BY <1>9, TasksAre DEF ReplyInv
<1>20. FreshInv'
  <2>1. \A b \in map \ {a} : Current(b)' <=> Current(b)
    BY <1>3, <1>4 DEF Current
  <2>2. Current(a)'
    BY <1>3, <1>4 DEF Current
  <2>3. \A t \in Tasks : ~Adding(t)'
    BY <1>7, <1>9, <1>12 DEF Adding
  <2>4. \A b \in map \ {a} : Ahead("detect", b) => Ahead("detect", b)'
    BY <1>2, <1>12 DEF Ahead
  <2> QED
    BY <1>3, <1>4, <2>1, <2>2, <2>3, <2>4 DEF ViewInv, FreshInv
<1> QED
  BY <1>9, <1>13, <1>14, <1>17, <1>18, <1>19, <1>20 DEF ViewInv

\* A port is added, with an index of its own or as one more of zeros.
LEMMA ViewAdded ==
    ASSUME ~Overlap, IInv, ViewInv, NEW t \in Tasks, Adding(t), NEW p \in PortInfo, Added(p),
           p.name = "" => p.pofIndex = 0 /\ p.live = FALSE,
           \A a \in map : port[a].pofIndex = p.pofIndex => Msg(a) = port_report_fill_msg(p),
           fresh => p.name \in Names /\ p.live = live[p.name],
           job' = [job EXCEPT ![t] = NextName(t, job[t].todo)],
           conn' = conn, live' = live, sys' = sys, fresh' = fresh
    PROVE  ViewInv'
<1>1. TypeInv /\ ControlInv /\ ZeroInv /\ AloneInv
  BY DEF IInv, ViewInv
<1>2. PICK e, j, m : e = Len(port) + 1 /\ j = NextName(t, job[t].todo) /\ m = port_report_fill_msg(p)
  OBVIOUS
<1>3. /\ \A a \in Adrs : port'[a] = port[a]
      /\ port'[e] = p /\ map' = map \cup {e}
  BY <1>1, <1>2, AddedFacts
<1>4. map \subseteq Adrs /\ \A a \in map : port'[a] = port[a]
  BY <1>1, <1>3 DEF TypeInv, StructType
<1>5. Msg(e)' = m /\ \A a \in map : Msg(a)' = Msg(a)
  BY <1>2, <1>3, <1>4 DEF Msg
<1>6. job'[t] = j /\ \A u \in Tasks \ {t} : job'[u] = job[u]
  <2>1. job' = [job EXCEPT ![t] = j]
    BY <1>2
  <2> QED
    BY <1>1, <2>1, OtherJobs
<1>7. j.pc \in {"idle", "new"}
  <2>1. job[t].todo \in SUBSET Names
    BY <1>1 DEF TypeInv, JobsType, JobType
  <2> QED
    BY <1>2, <2>1, NextNameJob DEF IsNextName
<1>8. Busy(t) /\ ~Walking(t)
  BY DEF Adding, Busy, Walking
<1>9. AloneInv' /\ \A u \in Tasks \ {t} : job[u].pc = "idle" /\ job'[u].pc = "idle"
  BY <1>1, <1>6, <1>8, Turn
<1>10. \A u \in Tasks : job'[u].pc \in {"idle", "new"} /\ job[u].pc \in {"idle", "set", "open"}
  BY <1>6, <1>7, <1>9 DEF Adding
<1>11. t # "main"
  BY <1>1, Adder
<1>12. job'["main"].pc = "idle"
  BY <1>9, <1>11, TasksAre
<1>13. WalkInv' /\ SweepInv' /\ ReplyInv'
  BY <1>10, <1>12, TasksAre DEF WalkInv, Walking, SweepInv, ReplyInv
<1>14. ZeroInv'
  <2>1. ASSUME NEW b \in map', port'[b].name = "" PROVE port'[b].pofIndex = 0 /\ port'[b].live = FALSE
    <3>1. CASE b \in map
      BY <1>1, <1>4, <2>1, <3>1 DEF ZeroInv
    <3>2. CASE b = e
      BY <1>3, <2>1, <3>2
    <3> QED
      BY <1>3, <3>1, <3>2
  <2> QED
    BY <2>1 DEF ZeroInv
<1>15. /\ conn = "down" => ctl' = ctl
       /\ conn # "down" => \A v : v \in ctl' <=> v = m \/ (v \in ctl /\ v.id # m.id)
  <2>1. ctl' = Told("ADD", m)
    BY <1>2 DEF Added, poflr_port_report
  <2> QED
    BY <2>1, ToldNew
<1>16. TruthInv'
  <2>1. conn = "down" => ctl' = {}
    BY <1>15 DEF ViewInv, TruthInv
  <2>2. ASSUME NEW v \in ctl' PROVE \E b \in map' : v = Msg(b)'
    <3>1. CASE v = m
      BY <1>3, <1>5, <3>1
    <3>2. CASE v # m
      <4>1. v \in ctl
        BY <1>15, <2>1, <2>2, <3>2
      <4>2. PICK b \in map : v = Msg(b)
        BY <4>1 DEF ViewInv, TruthInv
      <4> QED
        BY <1>3, <1>5, <4>2
    <3> QED
      BY <3>1, <3>2
  <2> QED
    BY <2>1, <2>2 DEF TruthInv
<1>17. WholeInv'
  <2>1. ASSUME conn = "run", NEW b \in map' PROVE Msg(b)' \in ctl'
    <3>1. CASE b = e
      BY <1>5, <1>15, <2>1, <3>1
    <3>2. CASE b \in map
      <4>1. Msg(b) \in ctl
        BY <1>10, <2>1, <3>2, TasksAre DEF ViewInv, WholeInv
      <4>2. Msg(b).id = port[b].pofIndex /\ m.id = p.pofIndex
        BY <1>2, MsgFields, ReportType
      <4>3. Msg(b).id = m.id => Msg(b) = m
        BY <1>2, <3>2, <4>2
      <4>4. Msg(b) \in ctl'
        BY <1>15, <2>1, <4>1, <4>3
      <4> QED
        BY <1>5, <3>2, <4>4
    <3> QED
      BY <1>3, <3>1, <3>2
  <2> QED
    BY <2>1 DEF WholeInv
<1>18. FreshInv'
  <2>1. ASSUME fresh, NEW b \in map' PROVE Current(b)'
    <3>1. CASE b = e
      BY <1>3, <2>1, <3>1 DEF Current
    <3>2. CASE b \in map
      <4>1. Current(b)
        BY <1>10, <2>1, <3>2, CurrentAtEnd, TasksAre
      <4> QED
        BY <1>4, <3>2, <4>1 DEF Current
    <3> QED
      BY <1>3, <3>1, <3>2
  <2>2. \A u \in Tasks : ~Adding(u)'
    BY <1>10 DEF Adding
  <2> QED
    BY <2>1, <2>2 DEF FreshInv
<1> QED
  BY <1>9, <1>13, <1>14, <1>16, <1>17, <1>18 DEF ViewInv

LEMMA ViewAddSet ==
    ASSUME ~Overlap, MaxSys < IndexRange, IInv, ViewInv, NEW t \in {"detect", "listener"}, add_set(t)
    PROVE  ViewInv'
<1>1. CASE Present(job[t].name)
  BY <1>1, ViewAddSetFinds
<1>2. CASE ~Present(job[t].name)
  <2>1. /\ halted = "no" /\ job[t].pc = "set"
        /\ Added(Zeroed) /\ job' = [job EXCEPT ![t] = NextName(t, job[t].todo)]
        /\ conn' = conn /\ live' = live /\ sys' = sys /\ fresh' = fresh
    BY <1>2 DEF add_set, system
  <2>2. Adding(t) /\ t \in Tasks
    BY <2>1, TasksAre DEF Adding
  <2>3. ~fresh
    BY <1>2, <2>2 DEF ViewInv, FreshInv
  <2>4. Zeroed \in PortInfo /\ Zeroed.name = "" /\ Zeroed.pofIndex = 0 /\ Zeroed.live = FALSE
    BY ZeroedPort DEF Zeroed
  <2>5. ASSUME NEW a \in map, port[a].pofIndex = 0 PROVE Msg(a) = port_report_fill_msg(Zeroed)
    <3>1. port[a].name = ""
      BY <2>1, <2>5 DEF IInv, IndexInv
    <3>2. port[a].live = FALSE
      BY <3>1 DEF ViewInv, ZeroInv
    <3> QED
      BY <2>4, <2>5, <3>1, <3>2, SameMsg DEF Msg
  <2>6. PICK p \in PortInfo : p = Zeroed
    BY <2>4
  <2> QED
    BY <2>1, <2>2, <2>3, <2>4, <2>5, <2>6, ViewAdded
<1> QED
  BY <1>1, <1>2

LEMMA ViewAddOpen ==
    ASSUME ~Overlap, MaxSys < IndexRange, IInv, ViewInv, NEW t \in Tasks, add_open(t)
    PROVE  ViewInv'
<1>1. PICK n, p : n = job[t].name /\ p = poflr_set_port(n, job[t].index)
  OBVIOUS
<1>2. /\ Adding(t) /\ n \in Names /\ sys[n] # 0
      /\ p \in PortInfo /\ p.name = n /\ p.pofIndex = portIndex /\ p.live = live[n]
  BY <1>1, OpenedPort
<1>3. /\ halted = "no" /\ Added(p) /\ job' = [job EXCEPT ![t] = NextName(t, job[t].todo)]
      /\ conn' = conn /\ live' = live /\ sys' = sys /\ fresh' = fresh
  BY <1>1 DEF add_open, system
<1>4. p.name # ""
  BY <1>2, Hashes
<1>5. Len(port) < MaxSys
  <2>1. Len(port) + 1 <= MaxSys
    BY <1>1, <1>2, <1>3, RoomToAdd
  <2>2. Len(port) \in Nat /\ MaxSys \in Nat
    BY Structures, Numbers DEF IInv
  <2> QED
    BY <2>1, <2>2
<1>6. \A a \in map : port[a].pofIndex # p.pofIndex
  <2>1. \A a \in map : port[a].pofIndex < portIndex
    BY <1>3, <1>5 DEF IInv, IndexInv
  <2>2. ASSUME NEW a \in map PROVE port[a].pofIndex # portIndex
    <3>1. port[a].pofIndex \in Nat /\ portIndex \in Nat
      BY Indexes, Numbers DEF IInv, TypeInv, SysType
    <3> QED
      BY <2>1, <3>1
  <2> QED
    BY <1>2, <2>2
<1> QED
  BY <1>2, <1>3, <1>4, <1>6, ViewAdded
-----------------------------------------------------------------------------
LEMMA ViewNext ==
    ASSUME ~Overlap, MaxSys < IndexRange
    PROVE  IInv /\ ViewInv /\ [Next]_vars => ViewInv'
<1> SUFFICES ASSUME IInv, ViewInv, [Next]_vars PROVE ViewInv'
  OBVIOUS
<1>1. CASE Detect
  <2>1. CASE detect_old
    BY <2>1, ViewDetectOldKeeps, ViewDetectOldRemoves
  <2> QED
    BY <1>1, <2>1, ViewDetectBegin, ViewDetectInfo, ViewDetectList, ViewDetectNew,
       ViewAddSet, ViewAddOpen, TasksAre DEF Detect
<1>2. CASE Reply \/ get_config
  BY <1>2, ViewGetConfig, ViewReplyFill, ViewReplySend, ViewReplyEnd DEF Reply
<1>3. CASE Listener
  BY <1>3, ViewAddSet, ViewAddOpen, ViewAddPort, ViewDelPort, TasksAre DEF Listener
<1>4. CASE terminate_handler \/ use_freed
  BY <1>4, ViewHalt DEF terminate_handler, use_freed
<1>5. CASE hello \/ lost \/ \E m \in mod : port_mod(m)
  BY <1>5, ViewMain
<1>6. CASE \/ \E a \in Adrs : Receive(a)
           \/ \E n \in Names : plug(n) \/ unplug(n) \/ link(n)
           \/ \E v \in ctl, flag \in BOOLEAN : controller(v, flag)
           \/ UNCHANGED vars
  BY <1>6, ViewOther
<1> QED
  BY <1>1, <1>2, <1>3, <1>4, <1>5, <1>6 DEF Next

\* If the detection, the commands and the answers to GET_CONFIG_REQUEST do not
\* overlap, and as long as portIndex, an uint8_t, has not come round, then
\* whenever these tasks rest a connected controller has been told of the ports
\* that exist and of no others, by poflr_port_report and by
\* poflr_reply_port_resource; and of their present states, if no interface has
\* changed since the detection began. This is so for any number of interfaces,
\* whatever the hashes of their names, and when an interface comes back before
\* its removal is noticed or vanishes while its port is added.
THEOREM ViewIsRight ==
    ASSUME ~Overlap, MaxSys < IndexRange
    PROVE  Spec => []ViewAgrees
<1>1. ASSUME IInv, ViewInv PROVE ViewAgrees
  <2> SUFFICES ASSUME conn = "run", \A t \in Tasks : ~Busy(t)
               PROVE  /\ ctl = {port_report_fill_msg(port[a]) : a \in map}
                      /\ fresh => \A a \in map : port[a].live = live[port[a].name]
    BY DEF ViewAgrees
  <2>1. job["detect"].pc = "idle"
    BY TasksAre DEF Busy
  <2>2. \A a \in map : Msg(a) \in ctl
    BY <1>1, <2>1 DEF ViewInv, WholeInv
  <2>3. \A v \in ctl : \E a \in map : v = Msg(a)
    BY <1>1 DEF ViewInv, TruthInv
  <2>4. ctl = {port_report_fill_msg(port[a]) : a \in map}
    BY <2>2, <2>3 DEF Msg
  <2>5. fresh => \A a \in map : Current(a)
    BY <1>1, <2>1, CurrentAtEnd
  <2> QED
    BY <2>4, <2>5 DEF Current
<1>2. IInv /\ ViewInv /\ [Next]_vars => ViewInv'
  BY ViewNext
<1> QED
  BY <1>1, <1>2, ViewInit, Invariance, PTL DEF Spec
=============================================================================
