------------------------------- MODULE KSocketProof -------------------------------
(* Proofs about KSocket: for every list of interfaces and configurations, and *)
(* any number of changes from outside.                                        *)
EXTENDS KSocket, SetTheorems

RawInit == {"name", "socket", "get_flags", "set_flags", "bind"}
Leaving == {"leave_get", "leave_set"}

-----------------------------------------------------------------------------
(* The inductive invariant.                                                  *)

Shapes ==
    /\ TypeOK
    /\ interface \in {InterfaceOf(c) : c \in Configs} \cup {None}
    /\ changes \in Nat

\* Where the program can be with a socket, without one, and with a lost one.
Sockets ==
    /\ pc \in RawInit \cup {"read_conf", "sleep"} => socket = None
    /\ pc = "type" \/ (pc = "loop" /\ start) => socket # None
    /\ pc \in Leaving => name # None /\ socket # None
    /\ raw => pc \in {"get_flags", "set_flags", "bind", "sleep", "loop", "exit"}
    /\ raw /\ pc \in {"sleep", "loop"} =>
          ~start /\ interface_auto /\ socket = None /\ name # None

\* Before the loop start holds; interfaces are changed only with auto.
Phases ==
    /\ pc \in {"read_conf", "type"} => start
    /\ pc \in Leaving \cup {"close", "recv", "sleep"} => ~start
    /\ ~start /\ pc \in RawInit \cup Leaving \cup {"sleep", "close"} => interface_auto

\* What failed, or went away, has a cause.
Causes ==
    /\ pc \in RawInit \ {"name"} => name # None
    /\ interface_auto /\ name # None => name \in present \/ cause
    /\ pc \in {"loop", "recv", "sleep", "type"} /\ socket = None /\ name # None => cause
    /\ ExitHasCause

Promiscuous == ~meddled =>
    /\ pc \in {"read_conf", "name", "close"} => promisc = {}
    /\ pc \notin {"exit", "crash"} => promisc \subseteq {name}
    /\ pc = "bind" /\ name \in present => name \in promisc
    /\ pc \in {"type", "loop", "recv", "leave_get"} /\ socket # None /\ name \in present =>
          name \in promisc
    /\ pc = "leave_set" /\ name \in present => ifr.promisc

\* The flags read are the flags of the interface, or someone changed them.
Flags ==
    pc \in {"set_flags", "leave_set"} => name \in touched \/ (ifr.up <=> name \in adm)

\* The change that the n-th socket is.
Change(n) ==
    [name_do |-> bound[n], name_z |-> IF n = 1 THEN None ELSE bound[n - 1]]

Reports ==
    /\ start => delivered = [change |-> NoChange, of |-> 0, nth |-> 1]
    /\ start /\ pc \in RawInit \cup {"read_conf"} => bound = <<>>
    /\ start /\ pc \in {"type", "loop"} => Len(bound) = 1 /\ bound[1] = name
    /\ ~start => Len(bound) >= 1
    /\ ~start /\ pc \in Leaving \cup {"loop", "recv"} /\ socket # None =>
          name = bound[Len(bound)]
    /\ ~start /\ (pc \in RawInit \cup Leaving \cup {"sleep", "close"}
                     \/ (pc \in {"loop", "recv"} /\ socket = None)) =>
          old_interface = bound[Len(bound)]
    /\ delivered.of \in 0 .. Len(bound)
    /\ delivered.change # NoChange =>
          delivered.of >= 1 /\ delivered.nth = 1 /\ delivered.change = Change(delivered.of)
    /\ pc = "recv" =>
          dt = NoChange \/ (delivered.of < Len(bound) /\ dt = Change(Len(bound)))

IInv == Shapes /\ Sockets /\ Phases /\ Causes /\ Promiscuous /\ Flags /\ Reports

-----------------------------------------------------------------------------
(* No name stands for no interface.                                          *)
LEMMA NoneIsNoName == None \notin Names /\ Loopback # None
  BY KSocketAssumption DEF KSocketAssumption, Names

(* An interface that find_dev returns is there, and not the loopback.        *)
LEMMA FoundIsRunning ==
    find_dev # None => find_dev \in Names \ {Loopback} /\ find_dev \in present
<1> SUFFICES ASSUME find_dev # None
             PROVE  find_dev \in Names \ {Loopback} /\ find_dev \in present
  OBVIOUS
<1>1. Candidates # {} /\ find_dev = Ifaces[Min(Candidates)]
  BY DEF find_dev
<1>2. Candidates \subseteq Nat
  BY KSocketAssumption DEF KSocketAssumption, Candidates
<1>3. Min(Candidates) \in Candidates
  BY <1>1, <1>2, LeastNumber
<1> QED
  BY <1>1, <1>3 DEF Candidates, Names, Running

(* What SIOCGIFFLAGS reads are two truth values, those of the interface.     *)
LEMMA FlagsRead ==
    ASSUME ifr' = [up |-> name \in adm, promisc |-> name \in promisc]
    PROVE  /\ ifr' \in [up : BOOLEAN, promisc : BOOLEAN]
           /\ ifr'.up <=> name \in adm
           /\ ifr'.promisc <=> name \in promisc
<1>1. ifr'.up = (name \in adm) /\ ifr'.promisc = (name \in promisc)
  BY Zenon
<1>2. /\ name \in adm => (name \in adm) = TRUE
      /\ ~(name \in adm) => (name \in adm) = FALSE
  BY SMT
<1>3. /\ name \in promisc => (name \in promisc) = TRUE
      /\ ~(name \in promisc) => (name \in promisc) = FALSE
  BY SMT
<1>4. \A a, b \in BOOLEAN :
         [up |-> a, promisc |-> b] \in [up : BOOLEAN, promisc : BOOLEAN]
  OBVIOUS
<1>5. (name \in adm) \in BOOLEAN /\ (name \in promisc) \in BOOLEAN
  BY <1>2, <1>3
<1>6. ifr' \in [up : BOOLEAN, promisc : BOOLEAN]
  BY <1>4, <1>5, Zenon
<1> QED
  BY <1>1, <1>6

(* Reading the configuration, before there is a socket.                      *)
LEMMA read_confKeeps ==
    ASSUME IInv, read_conf
    PROVE  IInv'
<1>1. Shapes'
  BY DEF read_conf, IInv, Shapes, TypeOK, outside, reports
<1>2. Sockets'
  BY DEF read_conf, IInv, Sockets, Leaving
<1>3. Phases'
  BY DEF read_conf, IInv, Phases, Leaving
<1>4. Causes'
  BY DEF read_conf, IInv, Causes, Phases, ExitHasCause, RawInit, outside
<1>5. Promiscuous'
  BY DEF read_conf, IInv, Promiscuous, outside
<1>6. Flags'
  BY DEF read_conf, Flags
<1>7. Reports'
  BY DEF read_conf, IInv, Reports, Phases, reports
<1> QED
  BY <1>1, <1>2, <1>3, <1>4, <1>5, <1>6, <1>7 DEF IInv

(* raw_init's choice of an interface: find_dev answers with one that runs.   *)
LEMMA NameDeviceKeeps ==
    ASSUME IInv, NameDevice
    PROVE  IInv'
<1>1. Shapes'
  <2>1. name' \in Names \cup {InterfaceOf(c) : c \in Configs} \cup {None}
    BY FoundIsRunning DEF NameDevice, IInv, Shapes
  <2>2. interface_auto' \in BOOLEAN /\ (interface_auto' => name' # Loopback)
    BY NoneIsNoName, FoundIsRunning DEF NameDevice, IInv, Shapes, TypeOK
  <2>3. pc' \in RawInit \cup {"sleep", "exit"}
    BY DEF NameDevice, RawInitFails, RawInit
  <2> QED
    BY <2>1, <2>2, <2>3 DEF NameDevice, IInv, Shapes, TypeOK, RawInit, outside, reports
<1>2. Sockets'
  BY DEF NameDevice, RawInitFails, IInv, Sockets, RawInit, Leaving
<1>3. Phases'
  BY DEF NameDevice, RawInitFails, IInv, Phases, RawInit, Leaving
<1>4. Causes'
  BY FoundIsRunning DEF NameDevice, RawInitFails, Causes, ExitHasCause, RawInit,
      outside
<1>5. Promiscuous'
  BY DEF NameDevice, RawInitFails, IInv, Promiscuous, outside
<1>6. Flags'
  BY DEF NameDevice, RawInitFails, Flags
<1>7. Reports'
  BY DEF NameDevice, RawInitFails, IInv, Reports, Change, RawInit, Leaving, reports
<1> QED
  BY <1>1, <1>2, <1>3, <1>4, <1>5, <1>6, <1>7 DEF IInv

(* raw_init's socket(): from here on raw says that one may be lost.          *)
LEMMA OpenSocketKeeps ==
    ASSUME IInv, OpenSocket
    PROVE  IInv'
<1>1. Shapes'
  <2>1. raw' \in BOOLEAN /\ cause' \in BOOLEAN
    BY DEF OpenSocket, IInv, Shapes, TypeOK
  <2> QED
    BY <2>1 DEF OpenSocket, RawInitFails, IInv, Shapes, TypeOK, outside, capture, reports
<1>2. Sockets'
  BY DEF OpenSocket, RawInitFails, IInv, Sockets, RawInit, Leaving
<1>3. Phases'
  BY DEF OpenSocket, RawInitFails, IInv, Phases, RawInit, Leaving
<1>4. Causes'
  BY DEF OpenSocket, IInv, Causes, ExitHasCause, RawInit, outside
<1>5. Promiscuous'
  BY DEF OpenSocket, RawInitFails, IInv, Promiscuous, outside
<1>6. Flags'
  BY DEF OpenSocket, RawInitFails, Flags
<1>7. Reports'
  BY DEF OpenSocket, RawInitFails, IInv, Reports, Change, RawInit, Leaving, reports
<1> QED
  BY <1>1, <1>2, <1>3, <1>4, <1>5, <1>6, <1>7 DEF IInv

(* raw_init's SIOCGIFFLAGS: the flags read are those of the interface.       *)
LEMMA GetFlagsKeeps ==
    ASSUME IInv, GetFlags
    PROVE  IInv'
<1>1. Shapes'
  <2>1. ifr' = [up |-> name \in adm, promisc |-> name \in promisc] \/ UNCHANGED ifr
    BY DEF GetFlags, ReadFlags
  <2>2. ifr' \in [up : BOOLEAN, promisc : BOOLEAN]
    BY <2>1, FlagsRead DEF IInv, Shapes, TypeOK
  <2> QED
    BY <2>2 DEF GetFlags, ReadFlags, RawInitFails, IInv, Shapes, TypeOK, outside, capture, reports
<1>2. Sockets'
  BY DEF GetFlags, ReadFlags, RawInitFails, IInv, Sockets, Phases, Causes, RawInit,
      Leaving, capture
<1>3. Phases'
  BY DEF GetFlags, ReadFlags, RawInitFails, IInv, Phases, RawInit, Leaving, capture
<1>4. Causes'
  BY DEF GetFlags, ReadFlags, RawInitFails, IInv, Causes, Phases, ExitHasCause,
      RawInit, outside, capture
<1>5. Promiscuous'
  BY DEF GetFlags, ReadFlags, IInv, Promiscuous, Shapes, TypeOK, outside, capture
<1>6. Flags'
  <2>1. pc' \in {"set_flags", "leave_set"} =>
           ifr' = [up |-> name \in adm, promisc |-> name \in promisc]
    BY DEF GetFlags, ReadFlags, RawInitFails
  <2>2. pc' \in {"set_flags", "leave_set"} => (ifr'.up <=> name \in adm)
    BY <2>1, FlagsRead
  <2> QED
    BY <2>2 DEF GetFlags, ReadFlags, Flags, outside, capture
<1>7. Reports'
  BY DEF GetFlags, ReadFlags, RawInitFails, IInv, Reports, Change, RawInit, Leaving,
      capture, reports
<1> QED
  BY <1>1, <1>2, <1>3, <1>4, <1>5, <1>6, <1>7 DEF IInv

(* raw_init's SIOCSIFFLAGS: the interface becomes promiscuous.               *)
LEMMA SetFlagsKeeps ==
    ASSUME IInv, SetFlags
    PROVE  IInv'
<1>1. Shapes'
  BY DEF SetFlags, WriteFlags, Written, RawInitFails, IInv, Shapes, TypeOK, capture,
      reports
<1>2. Sockets'
  BY DEF SetFlags, RawInitFails, IInv, Sockets, Phases, Causes, RawInit, Leaving,
      capture
<1>3. Phases'
  BY DEF SetFlags, RawInitFails, IInv, Phases, RawInit, Leaving, capture
<1>4. Causes'
  BY DEF SetFlags, RawInitFails, IInv, Causes, Phases, ExitHasCause, RawInit, capture
<1>5. Promiscuous'
  BY DEF SetFlags, WriteFlags, Written, WithPromisc, IInv, Promiscuous, Shapes,
      TypeOK, capture
<1>6. Flags'
  BY DEF SetFlags, IInv, Flags, capture
<1>7. Reports'
  BY DEF SetFlags, RawInitFails, IInv, Reports, Change, RawInit, Leaving, capture,
      reports
<1> QED
  BY <1>1, <1>2, <1>3, <1>4, <1>5, <1>6, <1>7 DEF IInv

(* raw_init's bind(): the socket is the program's, or the attempt failed.    *)
LEMMA BindKeeps ==
    ASSUME IInv, Bind
    PROVE  IInv'
<1>1. Shapes'
  <2>1. raw' \in BOOLEAN /\ cause' \in BOOLEAN /\ dead' \in BOOLEAN
    BY Zenon DEF Bind, IInv, Shapes, TypeOK
  <2>2. UNCHANGED <<present, adm, carrier, promisc, changes, meddled, interface,
                    interface_auto, name, start, ifr>>
    BY DEF Bind
  <2>3. pc' \in {"type", "recv", "exit", "sleep"}
    BY DEF Bind, RawInitFails
  <2>4. /\ present \subseteq Names /\ adm \subseteq present /\ promisc \subseteq present
        /\ carrier \subseteq Names
        /\ name \in Names \cup {InterfaceOf(c) : c \in Configs} \cup {None}
        /\ interface_auto => name # Loopback
        /\ socket \in Names \cup {None}
        /\ bound \in Seq(Names)
    BY DEF IInv, Shapes, TypeOK
  <2>5. socket' \in Names \cup {None} /\ bound' \in Seq(Names)
    BY <2>4 DEF Bind
  <2>6. /\ interface_auto \in BOOLEAN /\ start \in BOOLEAN /\ meddled \in BOOLEAN
        /\ ifr \in [up : BOOLEAN, promisc : BOOLEAN]
    BY Zenon DEF IInv, Shapes, TypeOK
  <2>7. TypeOK'
    BY <2>1, <2>2, <2>3, <2>4, <2>5, <2>6 DEF TypeOK
  <2> QED
    BY <2>2, <2>7 DEF IInv, Shapes
<1>2. Sockets'
  BY DEF Bind, RawInitFails, IInv, Sockets, Phases, Causes, RawInit, Leaving
<1>3. Phases'
  BY DEF Bind, RawInitFails, IInv, Phases, RawInit, Leaving
<1>4. Causes'
  BY DEF Bind, IInv, Causes, ExitHasCause, RawInit
<1>5. Promiscuous'
  BY DEF Bind, RawInitFails, IInv, Promiscuous
<1>6. Flags'
  BY DEF Bind, RawInitFails, Flags
<1>7. Reports'
  <2>1. CASE bound' = Append(bound, name)
    <3>1. PICK last \in Nat : last = Len(bound)
      BY DEF IInv, Shapes, TypeOK
    <3>2. /\ Len(bound') = last + 1
          /\ bound'[last + 1] = name
          /\ \A n \in 1 .. last : bound'[n] = bound[n]
      BY <2>1, <3>1 DEF IInv, Shapes, TypeOK
    <3>3. \A n \in 1 .. last : Change(n)' = Change(n)
      BY <3>2 DEF Change
    <3>4. Change(last + 1)' =
             [name_do |-> name, name_z |-> IF last = 0 THEN None ELSE bound[last]]
      <4>1. last + 1 = 1 <=> last = 0
        BY <3>1
      <4>2. last # 0 => bound'[last + 1 - 1] = bound[last]
        BY <3>1, <3>2
      <4> QED
        BY <3>2, <4>1, <4>2 DEF Change
    <3>5. delivered.change # NoChange =>
             delivered.of \in 1 .. last /\ delivered.change = Change(delivered.of)
      BY <3>1 DEF IInv, Reports
    <3>6. delivered'.change # NoChange => delivered'.change = Change(delivered.of)'
      BY <3>3, <3>5 DEF Bind, reports
    <3> QED
      BY <2>1, <3>1, <3>2, <3>3, <3>4, <3>5, <3>6, NoneIsNoName
      DEF Bind, IInv, Reports, Phases, Shapes, TypeOK, RawInit, Leaving
  <2>2. CASE UNCHANGED bound
    BY <2>2, NoneIsNoName
    DEF Bind, RawInitFails, IInv, Reports, Sockets, Phases, Causes, Shapes, TypeOK, Change, RawInit,
        Leaving, outside, capture, reports
  <2> QED
    BY <2>1, <2>2 DEF Bind
<1> QED
  BY <1>1, <1>2, <1>3, <1>4, <1>5, <1>6, <1>7 DEF IInv

(* The link type is asked for once, before the loop.                         *)
LEMMA LinkTypeKeeps ==
    ASSUME IInv, LinkType
    PROVE  IInv'
<1>1. Shapes'
  BY DEF LinkType, IInv, Shapes, TypeOK, outside, capture, reports
<1>2. Sockets'
  BY DEF LinkType, IInv, Sockets, RawInit, Leaving, capture
<1>3. Phases'
  BY DEF LinkType, Phases, RawInit, Leaving
<1>4. Causes'
  BY DEF LinkType, IInv, Causes, ExitHasCause, RawInit, outside, capture
<1>5. Promiscuous'
  BY DEF LinkType, IInv, Promiscuous, outside, capture
<1>6. Flags'
  BY DEF LinkType, Flags
<1>7. Reports'
  BY DEF LinkType, IInv, Reports, Phases, RawInit, capture, reports
<1> QED
  BY <1>1, <1>2, <1>3, <1>4, <1>5, <1>6, <1>7 DEF IInv

(* The head of a turn: go on receiving, leave, or end with a cause.          *)
LEMMA LoopTurnKeeps ==
    ASSUME IInv, LoopTurn
    PROVE  IInv'
<1>1. Shapes'
  <2>1. pc' \in {"recv", "exit", "close", "leave_get"}
    BY DEF LoopTurn
  <2>2. UNCHANGED <<present, adm, carrier, promisc, dead, changes, meddled, interface,
                    interface_auto, name, socket, raw, bound, ifr>>
    BY DEF LoopTurn, outside
  <2>3. start' \in BOOLEAN /\ cause' \in BOOLEAN
    BY Zenon DEF LoopTurn, StatusFails, IInv, Shapes, TypeOK
  <2>4. /\ present \subseteq Names /\ adm \subseteq present /\ promisc \subseteq present
        /\ carrier \subseteq Names
        /\ name \in Names \cup {InterfaceOf(c) : c \in Configs} \cup {None}
        /\ interface_auto => name # Loopback
        /\ socket \in Names \cup {None}
        /\ bound \in Seq(Names)
    BY DEF IInv, Shapes, TypeOK
  <2>5. /\ interface_auto \in BOOLEAN /\ raw \in BOOLEAN /\ dead \in BOOLEAN
        /\ meddled \in BOOLEAN
        /\ ifr \in [up : BOOLEAN, promisc : BOOLEAN]
    BY Zenon DEF IInv, Shapes, TypeOK
  <2>6. TypeOK'
    BY <2>1, <2>2, <2>3, <2>4, <2>5 DEF TypeOK
  <2> QED
    BY <2>2, <2>6 DEF IInv, Shapes
<1>2. Sockets'
  BY DEF LoopTurn, StatusFails, IInv, Sockets, RawInit, Leaving
<1>3. Phases'
  BY DEF LoopTurn, Phases, RawInit, Leaving
<1>4. Causes'
  BY DEF LoopTurn, StatusFails, IInv, Causes, ExitHasCause, RawInit, outside
<1>5. Promiscuous'
  BY NoneIsNoName DEF LoopTurn, IInv, Promiscuous, Shapes, TypeOK, outside
<1>6. Flags'
  BY DEF LoopTurn, Flags
<1>7. Reports'
  BY NoneIsNoName DEF LoopTurn, StatusFails, FirstChange, IInv, Shapes, TypeOK,
      Reports, Sockets, Change, RawInit, Leaving
<1> QED
  BY <1>1, <1>2, <1>3, <1>4, <1>5, <1>6, <1>7 DEF IInv

(* close_promisc reads the flags of the interface that is left.              *)
LEMMA LeaveGetFlagsKeeps ==
    ASSUME IInv, LeaveGetFlags
    PROVE  IInv'
<1>1. Shapes'
  <2>1. ifr' = [up |-> name \in adm, promisc |-> name \in promisc] \/ UNCHANGED ifr
    BY DEF LeaveGetFlags, ReadFlags
  <2>2. ifr' \in [up : BOOLEAN, promisc : BOOLEAN]
    BY <2>1, FlagsRead DEF IInv, Shapes, TypeOK
  <2> QED
    BY <2>2 DEF LeaveGetFlags, ReadFlags, RawInitFails, IInv, Shapes, TypeOK, outside, capture, reports
<1>2. Sockets'
  BY DEF LeaveGetFlags, ReadFlags, IInv, Sockets, RawInit, Leaving, capture
<1>3. Phases'
  BY DEF LeaveGetFlags, ReadFlags, IInv, Phases, Leaving, capture
<1>4. Causes'
  BY DEF LeaveGetFlags, ReadFlags, IInv, Causes, ExitHasCause, RawInit, outside,
      capture
<1>5. Promiscuous'
  <2>1. pc' = "leave_set" =>
           ifr' = [up |-> name \in adm, promisc |-> name \in promisc]
    BY DEF LeaveGetFlags, ReadFlags
  <2>2. pc' = "leave_set" => (ifr'.promisc <=> name \in promisc)
    BY <2>1, FlagsRead
  <2> QED
    BY <2>2, NoneIsNoName
    DEF LeaveGetFlags, ReadFlags, IInv, Promiscuous, Sockets, RawInit, Leaving,
        Shapes, TypeOK, outside, capture, reports
<1>6. Flags'
  <2>1. pc' \in {"set_flags", "leave_set"} =>
           ifr' = [up |-> name \in adm, promisc |-> name \in promisc]
    BY DEF LeaveGetFlags, ReadFlags
  <2>2. pc' \in {"set_flags", "leave_set"} => (ifr'.up <=> name \in adm)
    BY <2>1, FlagsRead
  <2> QED
    BY <2>2 DEF LeaveGetFlags, ReadFlags, Flags, outside, capture
<1>7. Reports'
  BY DEF LeaveGetFlags, ReadFlags, IInv, Reports, Change, RawInit, Leaving, capture,
      reports
<1> QED
  BY <1>1, <1>2, <1>3, <1>4, <1>5, <1>6, <1>7 DEF IInv

(* close_promisc writes them: the interface is promiscuous no more.          *)
LEMMA LeaveSetFlagsKeeps ==
    ASSUME IInv, LeaveSetFlags
    PROVE  IInv'
<1>1. Shapes'
  BY DEF LeaveSetFlags, WriteFlags, Written, IInv, Shapes, TypeOK, capture, reports
<1>2. Sockets'
  BY DEF LeaveSetFlags, IInv, Sockets, RawInit, Leaving, capture
<1>3. Phases'
  BY DEF LeaveSetFlags, IInv, Phases, Leaving, capture
<1>4. Causes'
  BY DEF LeaveSetFlags, IInv, Causes, ExitHasCause, RawInit, capture
<1>5. Promiscuous'
  BY DEF LeaveSetFlags, WriteFlags, Written, WithoutPromisc, IInv, Promiscuous,
      Shapes, TypeOK
<1>6. Flags'
  BY DEF LeaveSetFlags, Flags
<1>7. Reports'
  BY DEF LeaveSetFlags, IInv, Reports, Change, RawInit, Leaving, capture, reports
<1> QED
  BY <1>1, <1>2, <1>3, <1>4, <1>5, <1>6, <1>7 DEF IInv

(* The old socket is closed before the next attempt opens one.               *)
LEMMA CloseSocketKeeps ==
    ASSUME IInv, CloseSocket
    PROVE  IInv'
<1>1. Shapes'
  BY NoneIsNoName DEF CloseSocket, IInv, Shapes, TypeOK, reports
<1>2. Sockets'
  BY DEF CloseSocket, IInv, Sockets, Leaving
<1>3. Phases'
  BY DEF CloseSocket, IInv, Phases
<1>4. Causes'
  BY DEF CloseSocket, Causes, ExitHasCause
<1>5. Promiscuous'
  BY DEF CloseSocket, IInv, Promiscuous
<1>6. Flags'
  BY DEF CloseSocket, Flags
<1>7. Reports'
  BY DEF CloseSocket, IInv, Reports, Phases, Change, reports
<1> QED
  BY <1>1, <1>2, <1>3, <1>4, <1>5, <1>6, <1>7 DEF IInv

(* The pause after a failed attempt.                                         *)
LEMMA SleepKeeps ==
    ASSUME IInv, Sleep
    PROVE  IInv'
<1>1. Shapes'
  BY DEF Sleep, IInv, Shapes, TypeOK, outside, capture, reports
<1>2. Sockets'
  BY DEF Sleep, IInv, Sockets, Phases, Leaving, capture
<1>3. Phases'
  BY DEF Sleep, Phases, RawInit, Leaving
<1>4. Causes'
  BY DEF Sleep, IInv, Causes, ExitHasCause, RawInit, outside, capture
<1>5. Promiscuous'
  BY DEF Sleep, IInv, Promiscuous, Sockets, outside, capture
<1>6. Flags'
  BY DEF Sleep, Flags
<1>7. Reports'
  BY DEF Sleep, IInv, Reports, Sockets, Phases, Change, capture, reports
<1> QED
  BY <1>1, <1>2, <1>3, <1>4, <1>5, <1>6, <1>7 DEF IInv

(* A receive that times out loses the change, and reports none.              *)
LEMMA NoFrameKeeps ==
    ASSUME IInv, NoFrame
    PROVE  IInv'
<1>1. Shapes'
  BY DEF NoFrame, IInv, Shapes, TypeOK, outside, capture, reports
<1>2. Sockets'
  BY DEF NoFrame, IInv, Sockets, Phases, RawInit, Leaving, capture
<1>3. Phases'
  BY DEF NoFrame, Phases, RawInit, Leaving
<1>4. Causes'
  BY DEF NoFrame, IInv, Causes, ExitHasCause, RawInit, outside, capture
<1>5. Promiscuous'
  BY DEF NoFrame, IInv, Promiscuous, outside, capture
<1>6. Flags'
  BY DEF NoFrame, Flags
<1>7. Reports'
  BY DEF NoFrame, IInv, Reports, Phases, Change, RawInit, Leaving, capture, reports
<1> QED
  BY <1>1, <1>2, <1>3, <1>4, <1>5, <1>6, <1>7 DEF IInv

(* A frame takes the change with it; the next turn has none.                 *)
LEMMA FrameKeeps ==
    ASSUME IInv, Frame
    PROVE  IInv'
<1>1. Shapes'
  BY DEF Frame, IInv, Shapes, TypeOK, outside, capture
<1>2. Sockets'
  BY DEF Frame, IInv, Sockets, Phases, RawInit, Leaving, capture
<1>3. Phases'
  BY DEF Frame, Phases, RawInit, Leaving
<1>4. Causes'
  BY DEF Frame, IInv, Causes, ExitHasCause, RawInit, outside, capture
<1>5. Promiscuous'
  BY DEF Frame, IInv, Promiscuous, outside, capture
<1>6. Flags'
  BY DEF Frame, Flags
<1>7. Reports'
  BY DEF Frame, IInv, Reports, Phases, Change, RawInit, Leaving, capture
<1> QED
  BY <1>1, <1>2, <1>3, <1>4, <1>5, <1>6, <1>7 DEF IInv

(* Someone takes an interface up or down.                                    *)
LEMMA ChangeAdminKeeps ==
    ASSUME IInv, NEW i \in Names, ChangeAdmin(i)
    PROVE  IInv'
<1>1. Shapes'
  BY DEF ChangeAdmin, Outside, Toggled, IInv, Shapes, TypeOK, capture, reports
<1>2. Sockets'
  BY DEF ChangeAdmin, Outside, IInv, Sockets, capture
<1>3. Phases'
  BY DEF ChangeAdmin, Outside, IInv, Phases, capture
<1>4. Causes'
  BY DEF ChangeAdmin, Outside, IInv, Causes, ExitHasCause, capture
<1>5. Promiscuous'
  BY DEF ChangeAdmin, Outside, IInv, Promiscuous, capture
<1>6. Flags'
  BY DEF ChangeAdmin, Outside, Toggled, IInv, Flags, capture
<1>7. Reports'
  BY DEF ChangeAdmin, Outside, IInv, Reports, Change, capture, reports
<1> QED
  BY <1>1, <1>2, <1>3, <1>4, <1>5, <1>6, <1>7 DEF IInv

(* A cable is plugged or unplugged.                                          *)
LEMMA ChangeCarrierKeeps ==
    ASSUME IInv, NEW i \in Names, ChangeCarrier(i)
    PROVE  IInv'
<1>1. Shapes'
  BY DEF ChangeCarrier, Outside, Toggled, IInv, Shapes, TypeOK, capture, reports
<1>2. Sockets'
  BY DEF ChangeCarrier, Outside, IInv, Sockets, capture
<1>3. Phases'
  BY DEF ChangeCarrier, Outside, IInv, Phases, capture
<1>4. Causes'
  BY DEF ChangeCarrier, Outside, IInv, Causes, ExitHasCause, capture
<1>5. Promiscuous'
  BY DEF ChangeCarrier, Outside, IInv, Promiscuous, capture
<1>6. Flags'
  BY DEF ChangeCarrier, Outside, IInv, Flags, capture
<1>7. Reports'
  BY DEF ChangeCarrier, Outside, IInv, Reports, Change, capture, reports
<1> QED
  BY <1>1, <1>2, <1>3, <1>4, <1>5, <1>6, <1>7 DEF IInv

(* Someone else works on the promiscuous flag.                               *)
LEMMA ChangePromiscKeeps ==
    ASSUME IInv, NEW i \in Names, ChangePromisc(i)
    PROVE  IInv'
<1>1. Shapes'
  BY DEF ChangePromisc, Outside, Toggled, IInv, Shapes, TypeOK, capture, reports
<1>2. Sockets'
  BY DEF ChangePromisc, Outside, IInv, Sockets, capture
<1>3. Phases'
  BY DEF ChangePromisc, Outside, IInv, Phases, capture
<1>4. Causes'
  BY DEF ChangePromisc, Outside, IInv, Causes, ExitHasCause, capture
<1>5. Promiscuous'
  BY DEF ChangePromisc, Promiscuous
<1>6. Flags'
  BY DEF ChangePromisc, Outside, IInv, Flags, capture
<1>7. Reports'
  BY DEF ChangePromisc, Outside, IInv, Reports, Change, capture, reports
<1> QED
  BY <1>1, <1>2, <1>3, <1>4, <1>5, <1>6, <1>7 DEF IInv

(* An interface goes away, and its flags with it.                            *)
LEMMA RemoveKeeps ==
    ASSUME IInv, NEW i \in Names, Remove(i)
    PROVE  IInv'
<1>1. Shapes'
  BY DEF Remove, Outside, IInv, Shapes, TypeOK, capture, reports
<1>2. Sockets'
  BY DEF Remove, Outside, IInv, Sockets, capture
<1>3. Phases'
  BY DEF Remove, Outside, IInv, Phases, capture
<1>4. Causes'
  BY DEF Remove, Outside, IInv, Causes, ExitHasCause, capture
<1>5. Promiscuous'
  BY DEF Remove, Outside, IInv, Promiscuous, capture
<1>6. Flags'
  BY DEF Remove, Outside, IInv, Flags, capture
<1>7. Reports'
  BY DEF Remove, Outside, IInv, Reports, Change, capture, reports
<1> QED
  BY <1>1, <1>2, <1>3, <1>4, <1>5, <1>6, <1>7 DEF IInv

(* An interface comes, up and not promiscuous.                               *)
LEMMA AddKeeps ==
    ASSUME IInv, NEW i \in Names, Add(i)
    PROVE  IInv'
<1>1. Shapes'
  BY DEF Add, Outside, IInv, Shapes, TypeOK, capture, reports
<1>2. Sockets'
  BY DEF Add, Outside, IInv, Sockets, capture
<1>3. Phases'
  BY DEF Add, Outside, IInv, Phases, capture
<1>4. Causes'
  BY DEF Add, Outside, IInv, Causes, ExitHasCause, capture
<1>5. Promiscuous'
  BY DEF Add, Promiscuous
<1>6. Flags'
  BY DEF Add, Outside, IInv, Flags, capture
<1>7. Reports'
  BY DEF Add, Outside, IInv, Reports, Change, capture, reports
<1> QED
  BY <1>1, <1>2, <1>3, <1>4, <1>5, <1>6, <1>7 DEF IInv

-----------------------------------------------------------------------------
(* The invariant at the start.                                               *)
LEMMA InitHolds == Init => IInv
<1> SUFFICES ASSUME Init PROVE IInv
  OBVIOUS
<1>1. Shapes
  <2>1. [up |-> FALSE, promisc |-> FALSE] \in [up : BOOLEAN, promisc : BOOLEAN]
    OBVIOUS
  <2>2. <<>> \in Seq(Names)
    OBVIOUS
  <2>3. present \subseteq Names /\ adm \subseteq present
    BY DEF Init
  <2> QED
    BY <2>1, <2>2, <2>3 DEF Init, Shapes, TypeOK
<1>2. Sockets /\ Phases
  BY DEF Init, Sockets, Phases, RawInit, Leaving
<1>3. Causes /\ Promiscuous /\ Flags
  BY DEF Init, Causes, ExitHasCause, RawInit, Promiscuous, Flags
<1>4. Reports
  BY DEF Init, Reports, RawInit, Leaving
<1> QED
  BY <1>1, <1>2, <1>3, <1>4 DEF IInv

(* The invariant where nothing changes.                                      *)
LEMMA StutterKeeps == IInv /\ UNCHANGED vars => IInv'
<1> SUFFICES ASSUME IInv, UNCHANGED vars PROVE IInv'
  OBVIOUS
<1>1. UNCHANGED <<present, adm, carrier, promisc, dead, changes, meddled, interface,
                  interface_auto, name, socket, raw, start, old_interface, dt, delivered,
                  bound, pc, ifr, touched, cause>>
  BY DEF vars, outside, capture, reports
<1>2. Shapes'
  BY <1>1 DEF IInv, Shapes, TypeOK
<1>3. Sockets' /\ Phases' /\ Causes'
  BY <1>1 DEF IInv, Sockets, Phases, Causes, ExitHasCause
<1>4. Promiscuous' /\ Flags'
  BY <1>1 DEF IInv, Promiscuous, Flags
<1>5. Reports'
  BY <1>1 DEF IInv, Reports, Change
<1> QED
  BY <1>2, <1>3, <1>4, <1>5 DEF IInv

(* The invariant is kept by every step: one lemma above for each action.     *)
LEMMA NextKeeps == IInv /\ [Next]_vars => IInv'
<1> SUFFICES ASSUME IInv, [Next]_vars PROVE IInv'
  OBVIOUS
<1>1. CASE Environment
  BY <1>1, ChangeAdminKeeps, ChangeCarrierKeeps, ChangePromiscKeeps, RemoveKeeps, AddKeeps
  DEF Environment
<1>2. CASE Program
  BY <1>2, read_confKeeps, NameDeviceKeeps, OpenSocketKeeps, GetFlagsKeeps, SetFlagsKeeps,
     BindKeeps, LinkTypeKeeps, LoopTurnKeeps, LeaveGetFlagsKeeps, LeaveSetFlagsKeeps,
     CloseSocketKeeps, SleepKeeps, NoFrameKeeps, FrameKeeps
  DEF Program
<1>3. CASE Ended \/ UNCHANGED vars
  BY <1>3, StutterKeeps DEF Ended
<1> QED
  BY <1>1, <1>2, <1>3 DEF Next

(* The invariant holds of every run.                                         *)
THEOREM CaptureInvariant == Spec => []IInv
  BY InitHolds, NextKeeps, PTL DEF Spec

(* Every variable keeps to its type, for any list of interfaces.            *)
THEOREM CaptureTypes == Spec => []TypeOK
<1>1. IInv => TypeOK
  BY DEF IInv, Shapes
<1> QED
  BY <1>1, CaptureInvariant, PTL

(* However interfaces come and go, failed attempts do not pile up sockets.   *)
THEOREM SocketsDoNotPileUp == Spec => []OneSocket
<1>1. IInv => OneSocket
  BY DEF IInv, Sockets, OneSocket, RawInit
<1> QED
  BY <1>1, CaptureInvariant, PTL

(* No interface is left promiscuous, if no one else works on the flags.      *)
THEOREM LeftAsFound == Spec => []PromiscOnlyWhereCaptured
<1>1. IInv => PromiscOnlyWhereCaptured
  BY DEF IInv, Promiscuous, PromiscOnlyWhereCaptured
<1> QED
  BY <1>1, CaptureInvariant, PTL

(* The loop is left only for a failure or an interface taken away.           *)
THEOREM LoopEndsWithCause == Spec => []ExitHasCause
<1>1. IInv => ExitHasCause
  BY DEF IInv, Causes
<1> QED
  BY <1>1, CaptureInvariant, PTL

(* A change of interface is reported with the first frame after it or never. *)
THEOREM ChangesReportedOnce == Spec => []ReportedOnce
<1>1. IInv => ReportedOnce
  BY DEF IInv, Reports, ReportedOnce, Change
<1> QED
  BY <1>1, CaptureInvariant, PTL

(* The program itself takes no interface up or down, but what it writes may  *)
(* be older than a change from outside.                                      *)
THEOREM FlagsWrittenBack == Spec => WritesOnlyPromisc
<1> DEFINE Step == \A i \in Names : (i \in adm <=> i \in adm') \/ changes' # changes \/ i \in touched
<1>1. IInv /\ [Next]_vars => [Step]_vars
  <2> SUFFICES ASSUME IInv, Next PROVE Step
    OBVIOUS
  <2>1. CASE Environment
    <3>1. changes' = changes + 1 /\ changes \in Nat
      BY <2>1 DEF Environment, ChangeAdmin, ChangeCarrier, ChangePromisc, Remove, Add, Outside,
                  IInv, Shapes
    <3> QED
      BY <3>1
  <2>2. CASE SetFlags
    BY <2>2 DEF SetFlags, WriteFlags, WithPromisc, Written, IInv, Flags
  <2>3. CASE LeaveSetFlags
    BY <2>3 DEF LeaveSetFlags, WriteFlags, WithoutPromisc, Written, IInv, Flags
  <2>4. CASE UNCHANGED adm
    BY <2>4
  <2>5. CASE Program /\ ~SetFlags /\ ~LeaveSetFlags
    BY <2>4, <2>5 DEF Program, read_conf, NameDevice, OpenSocket, GetFlags, Bind, LinkType,
      LoopTurn, LeaveGetFlags, CloseSocket, Sleep, NoFrame, Frame, ReadFlags, outside
  <2>6. CASE Ended
    BY <2>4, <2>6 DEF Ended, vars, outside
  <2> QED
    BY <2>1, <2>2, <2>3, <2>5, <2>6 DEF Next
<1> QED
  BY <1>1, InitHolds, NextKeeps, PTL DEF Spec, WritesOnlyPromisc
=============================================================================
