---------------------------------- MODULE KSocket ----------------------------------
(*****************************************************************************)
(* The sock build from its start to the loop that receives frames            *)
(* (src/backend/katalyzer.c main, read_conf.c, ksocket.c).                   *)
(*                                                                           *)
(* With INTERFACE=auto the first running interface is captured; when it goes *)
(* down k_loop leaves it and looks for another one.  Interfaces come and go, *)
(* and their flags are read, changed and written back in separate system     *)
(* calls, between which other programs may change them.  One action is one   *)
(* system call with the code up to the next one.                             *)
(*                                                                           *)
(* malloc, getifaddrs and gettimeofday succeed, a system call on a present   *)
(* interface may fail only where the code opens or configures a socket, and  *)
(* descriptor 0 is no socket (it is the standard input).                     *)
(*****************************************************************************)
EXTENDS Naturals, Sequences, FiniteSetsExt

CONSTANTS
    Ifaces,         \* interfaces, in the order of getifaddrs
    Loopback,       \* the loopback interface
    Configs,        \* configuration files: the mandatory lines, name and value
    MaxChanges      \* bound: changes of the interfaces from outside

AutoName == "auto"
None == "-"         \* no name, no socket

ASSUME KSocketAssumption ==
    /\ MaxChanges \in Nat
    /\ Ifaces \in Seq(STRING \ {None}) /\ Loopback \in STRING \ {None}
    /\ \A c \in Configs : c \in Seq({"INTERFACE", "DB_HOST", "DB_NAME", "DB_USER", "DB_PASS"}
                                      \X STRING)

VARIABLES
    present, adm, carrier,  \* interfaces that exist, are up, have a carrier
    promisc,        \* interfaces whose flag IFF_PROMISC is set
    pc,             \* the next system call
    interface,      \* INTERFACE of the configuration
    interface_auto, name, socket,   \* of the k_capture; socket: its interface
    raw,            \* raw_init has a socket that it did not store (yet)
    dead,           \* the interface of the socket was removed
    ifr,            \* flags read with SIOCGIFFLAGS
    start,          \* the loop was not entered yet
    old_interface, dt,  \* name before the last change; change not yet delivered
    delivered,      \* last frame: the change reported with it, the number of its
                    \* socket, and 1 if it was the first from it, else 2 (history)
    bound,          \* interfaces of all sockets so far (history)
    changes, touched, meddled, cause  \* ghosts: see the environment

outside == <<present, adm, carrier, promisc, dead, changes, meddled>>
capture == <<interface, interface_auto, name, socket, raw, start>>
reports == <<old_interface, dt, delivered, bound>>
vars == <<outside, capture, reports, pc, ifr, touched, cause>>

Names == {Ifaces[k] : k \in DOMAIN Ifaces}
Running(i) == i \in present /\ i \in adm /\ i \in carrier
NoChange == [name_do |-> None, name_z |-> None]

Init ==
    /\ present \in {P \in SUBSET Names : Loopback \in P}
    /\ adm \in {U \in SUBSET present : Loopback \in U}
    /\ carrier = Names
    /\ promisc = {}
    /\ pc = "read_conf"
    /\ interface = None
    /\ interface_auto = FALSE
    /\ name = None
    /\ socket = None
    /\ raw = FALSE
    /\ dead = FALSE
    /\ ifr = [up |-> FALSE, promisc |-> FALSE]
    /\ start = TRUE
    /\ old_interface = None
    /\ dt = NoChange
    /\ delivered = [change |-> NoChange, of |-> 0, nth |-> 1]
    /\ bound = <<>>
    /\ changes = 0
    /\ touched = {}
    /\ meddled = FALSE
    /\ cause = FALSE

-----------------------------------------------------------------------------
(* The environment.  touched: interfaces changed since the program read the  *)
(* flags; meddled: another program changed a promiscuous flag, or an         *)
(* interface was made anew; cause: an interface went away or a call failed.  *)

Outside(i) ==
    /\ changes < MaxChanges
    /\ i # Loopback
    /\ changes' = changes + 1
    /\ touched' = touched \cup {i}
    /\ UNCHANGED <<capture, reports, pc, ifr>>

Toggled(S, i) == IF i \in S THEN S \ {i} ELSE S \cup {i}

ChangeAdmin(i) ==
    /\ i \in present /\ Outside(i)
    /\ adm' = Toggled(adm, i)
    /\ UNCHANGED <<present, carrier, promisc, dead, meddled, cause>>

ChangeCarrier(i) ==
    /\ i \in present /\ Outside(i)
    /\ carrier' = Toggled(carrier, i)
    /\ UNCHANGED <<present, adm, promisc, dead, meddled, cause>>

ChangePromisc(i) ==
    /\ i \in present /\ Outside(i)
    /\ promisc' = Toggled(promisc, i)
    /\ meddled' = TRUE
    /\ UNCHANGED <<present, adm, carrier, dead, cause>>

Remove(i) ==
    /\ i \in present /\ Outside(i)
    /\ present' = present \ {i}
    /\ adm' = adm \ {i}
    /\ promisc' = promisc \ {i}
    /\ dead' = (dead \/ socket = i)
    /\ cause' = TRUE
    /\ UNCHANGED <<carrier, meddled>>

Add(i) ==
    /\ i \in Names \ present /\ Outside(i)
    /\ present' = present \cup {i}
    /\ adm' = adm \cup {i}
    /\ meddled' = TRUE
    /\ UNCHANGED <<carrier, promisc, dead, cause>>

Environment ==
    \E i \in Names : \/ ChangeAdmin(i) \/ ChangeCarrier(i) \/ ChangePromisc(i)
                     \/ Remove(i) \/ Add(i)

-----------------------------------------------------------------------------
(* main before the loop.                                                     *)

\* A name given twice counts twice.
i_is_configured(lines) == Len(lines)

\* The last line of a name holds; without one the string is empty.
InterfaceOf(lines) ==
    LET L == {k \in DOMAIN lines : lines[k][1] = "INTERFACE"}
    IN  IF L = {} THEN "" ELSE lines[Max(L)][2]

read_conf ==
    /\ pc = "read_conf"
    /\ \E lines \in Configs :
          /\ interface' = InterfaceOf(lines)
          /\ pc' = IF i_is_configured(lines) = 5 THEN "name" ELSE "exit"
    /\ UNCHANGED <<outside, interface_auto, name, socket, raw, start, reports, ifr,
                   touched, cause>>

-----------------------------------------------------------------------------
(* raw_init, called by main and by k_loop, which sleeps when it fails.       *)

RawInitFails == pc' = IF start THEN "exit" ELSE "sleep"

\* faulty: the loopback interface is taken as well
AnyRunning == {k \in DOMAIN Ifaces : Running(Ifaces[k])}

Candidates == {k \in DOMAIN Ifaces : Ifaces[k] # Loopback /\ Running(Ifaces[k])}
find_dev == IF Candidates = {} THEN None ELSE Ifaces[Min(Candidates)]

NameDevice ==
    /\ pc = "name"
    /\ LET device == IF start THEN interface ELSE AutoName
           new == IF device = AutoName THEN find_dev ELSE device
       IN  /\ name' = new
           /\ IF new = None
              THEN RawInitFails /\ UNCHANGED interface_auto
              ELSE pc' = "socket" /\ interface_auto' = (device = AutoName)
    /\ UNCHANGED <<outside, interface, socket, raw, start, reports, ifr, touched, cause>>

OpenSocket ==
    /\ pc = "socket"
    /\ \/ /\ raw' = TRUE
          /\ pc' = "get_flags"
          /\ UNCHANGED cause
       \/ /\ RawInitFails
          /\ cause' = TRUE
          /\ UNCHANGED raw
    /\ UNCHANGED <<outside, interface, interface_auto, name, socket, start, reports, ifr,
                   touched>>

\* ioctl SIOCGIFFLAGS; promisc and up are the flags that matter here.
ReadFlags(next, failed) ==
    /\ IF name \in present
       THEN /\ ifr' = [up |-> name \in adm, promisc |-> name \in promisc]
            /\ touched' = {}
            /\ next
       ELSE failed /\ UNCHANGED <<ifr, touched>>
    /\ UNCHANGED <<outside, capture, reports, cause>>

\* From here on a failure leaves the socket open.
GetFlags == pc = "get_flags" /\ ReadFlags(pc' = "set_flags", RawInitFails)

\* ioctl SIOCSIFFLAGS writes every flag.
Written(S, b) == IF b THEN S \cup {name} ELSE S \ {name}

WriteFlags(flags) ==
    /\ adm' = Written(adm, flags.up)
    /\ promisc' = Written(promisc, flags.promisc)

\* faulty: the other flags are not kept
OnlyPromisc(flags) == [up |-> FALSE, promisc |-> TRUE]

WithPromisc(flags) == [up |-> flags.up, promisc |-> TRUE]

SetFlags ==
    /\ pc = "set_flags"
    /\ IF name \in present
       THEN WriteFlags(WithPromisc(ifr)) /\ pc' = "bind"
       ELSE RawInitFails /\ UNCHANGED <<adm, promisc>>
    /\ UNCHANGED <<present, carrier, dead, changes, meddled, capture, reports, ifr,
                   touched, cause>>

\* SIOCGIFINDEX, bind and the options of the socket, which is stored at last.
Bind ==
    /\ pc = "bind"
    /\ \/ /\ name \in present
          /\ socket' = name
          /\ bound' = Append(bound, name)
          /\ raw' = FALSE
          /\ dead' = FALSE
          /\ IF start
             THEN pc' = "type" /\ UNCHANGED dt
             ELSE /\ pc' = "recv"
                  /\ dt' = [name_do |-> name, name_z |-> old_interface]
          /\ UNCHANGED cause
       \/ /\ RawInitFails
          /\ cause' = TRUE
          /\ UNCHANGED <<socket, bound, raw, dead, dt>>
    /\ UNCHANGED <<present, adm, carrier, promisc, changes, meddled, interface,
                   interface_auto, name, start, old_interface, delivered, ifr, touched>>

\* /sys/class/net/<INTERFACE>/type is read with no test that it could be opened,
\* also for "auto"; then main waits for a full minute and calls k_loop.
LinkType ==
    /\ pc = "type"
    /\ pc' = IF interface \in present THEN "loop" ELSE "crash"
    /\ cause' = (cause \/ interface \notin present)
    /\ UNCHANGED <<outside, capture, reports, ifr, touched>>

-----------------------------------------------------------------------------
(* k_loop.                                                                   *)

\* faulty: an interface without a name is in order
NamelessIsFine == IF name = None \/ Running(name) THEN 1 ELSE 0

get_status == IF name # None /\ Running(name) THEN 1 ELSE 0

\* faulty: the call on a closed socket is not noticed
OnlyWhenGone == name # None /\ name \notin present

\* faulty: the call is made when there is no name, too
FailsNameless == socket = None \/ name \notin present

\* The ioctl fails, for which get_status ends the program.
StatusFails == name # None /\ (socket = None \/ name \notin present)

\* faulty: a change that was not delivered is kept
KeptChange == IF start THEN [name_do |-> name, name_z |-> None] ELSE dt

\* dt at the top of a turn: the start is reported as a change from "-".
FirstChange == IF start THEN [name_do |-> name, name_z |-> None] ELSE NoChange

LoopTurn ==
    /\ pc = "loop"
    /\ start' = FALSE
    /\ dt' = FirstChange
    /\ IF ~interface_auto THEN pc' = "recv" /\ UNCHANGED old_interface
       ELSE IF StatusFails THEN pc' = "exit" /\ UNCHANGED old_interface
       ELSE IF get_status = 1 THEN pc' = "recv" /\ UNCHANGED old_interface
       ELSE IF name = None THEN pc' = "close" /\ UNCHANGED old_interface
       ELSE pc' = "leave_get" /\ old_interface' = name
    /\ UNCHANGED <<outside, interface, interface_auto, name, socket, raw, delivered, bound,
                   ifr, touched, cause>>

\* close_promisc, whose result is not looked at.
LeaveGetFlags == pc = "leave_get" /\ ReadFlags(pc' = "leave_set", pc' = "close")

\* faulty: the flag is set again
StillPromisc(flags) == [up |-> flags.up, promisc |-> TRUE]

WithoutPromisc(flags) == [up |-> flags.up, promisc |-> ~flags.promisc]

LeaveSetFlags ==
    /\ pc = "leave_set"
    /\ pc' = "close"
    /\ IF name \in present THEN WriteFlags(WithoutPromisc(ifr))
                           ELSE UNCHANGED <<adm, promisc>>
    /\ UNCHANGED <<present, carrier, dead, changes, meddled, capture, reports, ifr,
                   touched, cause>>

CloseSocket ==
    /\ pc = "close"
    /\ pc' = "name"
    /\ name' = None
    /\ socket' = None
    /\ dead' = FALSE
    /\ UNCHANGED <<present, adm, carrier, promisc, changes, meddled, interface,
                   interface_auto, raw, start, reports, ifr, touched, cause>>

Sleep ==
    /\ pc = "sleep"
    /\ pc' = "loop"
    /\ UNCHANGED <<outside, capture, reports, ifr, touched, cause>>

\* recvfrom returns at the latest after ten seconds; only auto passes dt on.
NoFrame ==
    /\ pc = "recv"
    /\ pc' = "loop"
    /\ UNCHANGED <<outside, capture, reports, ifr, touched, cause>>

Frame ==
    /\ pc = "recv"
    /\ Running(socket) /\ ~dead
    /\ pc' = "loop"
    /\ delivered' = [change |-> IF interface_auto THEN dt ELSE NoChange, of |-> Len(bound),
                     nth |-> IF delivered.of = Len(bound) THEN 2 ELSE 1]
    /\ UNCHANGED <<outside, capture, old_interface, dt, bound, ifr, touched, cause>>

Program ==
    \/ read_conf \/ NameDevice \/ OpenSocket \/ GetFlags \/ SetFlags \/ Bind \/ LinkType
    \/ LoopTurn \/ LeaveGetFlags \/ LeaveSetFlags \/ CloseSocket \/ Sleep
    \/ NoFrame \/ Frame

Ended == pc \in {"exit", "crash"} /\ UNCHANGED vars

Next == Environment \/ Program \/ Ended
Spec == Init /\ [][Next]_vars /\ WF_vars(Program)

-----------------------------------------------------------------------------
(* Properties.                                                               *)

(* Types; and a name found by itself is never that of the loopback, which    *)
(* find_dev leaves out.                                                      *)
TypeOK ==
    /\ present \subseteq Names /\ adm \subseteq present /\ promisc \subseteq present
    /\ carrier \subseteq Names
    /\ pc \in {"read_conf", "name", "socket", "get_flags", "set_flags", "bind", "type",
               "loop", "leave_get", "leave_set", "close", "sleep", "recv", "exit", "crash"}
    /\ name \in Names \cup {InterfaceOf(c) : c \in Configs} \cup {None}
    /\ interface_auto => name # Loopback
    /\ socket \in Names \cup {None}
    /\ interface_auto \in BOOLEAN /\ raw \in BOOLEAN /\ dead \in BOOLEAN
    /\ start \in BOOLEAN /\ meddled \in BOOLEAN /\ cause \in BOOLEAN
    /\ ifr \in [up : BOOLEAN, promisc : BOOLEAN]
    /\ bound \in Seq(Names)

(* The program has one socket at most.  raw_init loses the socket when one   *)
(* of its later calls fails, but then the turn after the sleep ends in       *)
(* get_status, so that the failures do not add up (ksocket.c 303, 113).      *)
OneSocket == pc = "socket" => ~raw /\ socket = None

(* While it runs the program leaves no interface promiscuous but the one it  *)
(* captures, although close_promisc only turns the flag round (229); unless  *)
(* others changed the flag or made the interface anew, when turning it round *)
(* may switch it on.                                                         *)
PromiscOnlyWhereCaptured ==
    ~meddled /\ pc \notin {"exit", "crash"} => promisc \subseteq {name}

(* Once in its loop the program ends only because an interface was taken     *)
(* away or a system call failed; that no interface is up is survived (452).  *)
ExitHasCause == ~start /\ pc = "exit" => cause

(* Writing the flags back does not change whether an interface is up, unless *)
(* someone else changed it between the reading and the writing.              *)
WritesOnlyPromisc ==
    [][\A i \in Names : (i \in adm <=> i \in adm') \/ changes' # changes \/ i \in touched]_vars

(* A change of interface is reported with the first frame of its socket or   *)
(* never, and names the interface and the one captured before (477: a turn   *)
(* without a frame drops it).                                                *)
ReportedOnce ==
    LET n == delivered.of
    IN  delivered.change # NoChange =>
            /\ delivered.nth = 1
            /\ delivered.change =
                  [name_do |-> bound[n], name_z |-> IF n = 1 THEN None ELSE bound[n - 1]]

\* Ended, or nothing to capture, or capturing what is up; or holding a socket
\* whose interface was replaced by one of the same name, which no one notices.
Settled ==
    \/ pc \in {"exit", "crash"}
    \/ Candidates = {}
    \/ (socket = name /\ Running(name))
    \/ dead

(* With INTERFACE=auto, when the interfaces change no more, the program      *)
(* captures one that is up as soon as there is one (k_loop 418-475).         *)
FindsAnInterface == <>[](interface = AutoName => Settled)
=============================================================================
