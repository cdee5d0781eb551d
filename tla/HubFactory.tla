----------------------------- MODULE HubFactory -----------------------------
(***************************************************************************)
(* Setting a hub up: the hub factory (controller/hub_factory.cpp), its     *)
(* port pool (util/portpool.hpp) and the addresses it hands out, which the *)
(* hub's constructor and the engines check with the parser of Url.         *)
(*                                                                         *)
(* ip() and transport() give the three sides the same value, so one of     *)
(* each is kept.  get() binds one socket after the other; bind throws when *)
(* the address is no address of this machine, or its port is held by       *)
(* another process or another socket of this one.  The sockets get() has   *)
(* opened so far are destroyed then, except those of the heart monitor     *)
(* once it exists: it is a member, and the reactor shares its ROUTER.  An  *)
(* address that stands for every interface, or for the name of one, can be *)
(* bound but not connected to, which get() does last.                      *)
(***************************************************************************)
EXTENDS Url, Integers, Sequences, FiniteSets, FiniteSetsExt

CONSTANTS
  Ips, Transports,  \* what ip() and transport() are called with
  Intervals,        \* what hm_interval() is called with
  Bindable,         \* the <<transport, ip>> a socket can be bound to
  Connectable,      \* those a socket can be connected to
  Overlapping,      \* the pairs of them that keep a port from each other
  StartPort,        \* the constructor's argument
  Attempts          \* bound: calls of get()

ASSUME FactoryAssumption ==
  /\ Bindable \subseteq Transports \X Ips
  /\ Connectable \subseteq Bindable
  /\ \A m \in Bindable : <<m, m>> \in Overlapping
  /\ StartPort \in Nat
  /\ Attempts \in Nat

\* A socket that carries a port is bound to the name of an interface or to a
\* network address, not to a path: those have no separator in them.
ASSUME AddressAssumption ==
  /\ Transports \subseteq Text
  /\ Ips \subseteq Text
  /\ \A m \in Bindable : /\ Free(m[1], {":"})
                         /\ m[2] # <<>> /\ Free(m[2], {":", "/"})

VARIABLES
  transport, ip,  \* m_*_transport, m_*_ip
  monitorUrl,     \* m_monitor_url
  interval,       \* m_heartmonitor_interval_millisec
  taken,          \* the ports other processes hold
  bound,          \* <<address, role>> of the sockets bound in this process
  hub,            \* the addresses of the hub get() returned: one or none
  attempts        \* how often get() was called

factoryVars == <<transport, ip, monitorUrl, interval, taken, bound, hub,
                 attempts>>

-----------------------------------------------------------------------------
\* A pool whose ports start anew with each call.
PoolRestarts(asked) ==
  [k \in DOMAIN asked |-> [i \in 1..asked[k] |-> StartPort + i - 1]]
\* portpool::get, called with these numbers one after the other.
Pool(asked) ==
  [k \in DOMAIN asked |->
     LET before == {s \in (1..(k - 1)) \X (1..2) : s[2] <= asked[s[1]]} IN
     [i \in 1..asked[k] |-> StartPort + Cardinality(before) + i - 1]]

\* The constructor's ports.
Ports == Pool(<<2, 2, 2, 2, 2, 1, 1, 1>>)
HbPorts == Ports[1]
MuxPorts == Ports[2]
TaskPorts == Ports[3]
ControlPorts == Ports[4]
IopubPorts == Ports[5]
MonPort == Ports[6][1]
NotifierPort == Ports[7][1]
RegPort == Ports[8][1]

\* A format without its "://".
AddressBare(t, i, port) == t \o i \o <<Mark(":"), Number(port)>>
\* format("%s://%s:%i").
Address(t, i, port) == t \o ProtEnd \o i \o <<Mark(":"), Number(port)>>
Here(port) == Address(transport, ip, port)

\* Where the hub's sockets are bound, in the order of get().
Binds ==
  <<<<Here(RegPort), "query">>,
    <<Here(HbPorts[1]), "ping">>,
    <<Here(HbPorts[2]), "pong">>,
    <<Here(NotifierPort), "notifier">>,
    <<monitorUrl, "monitor">>>>
MonitorMade == 3  \* the heart monitor is made after this one

\* engine_info and client_info.
Info ==
  [registration |-> Here(RegPort),
   notification |-> Here(NotifierPort),
   heartbeat |-> <<Here(HbPorts[1]), Here(HbPorts[2])>>,
   monitor |-> Here(MonPort),
   interval |-> interval,
   queues |-> {Here(P[side]) : side \in {1, 2},
                 P \in {MuxPorts, TaskPorts, ControlPorts, IopubPorts}}]

Used == {HbPorts[1], HbPorts[2], RegPort, NotifierPort, MonPort}
Roles == {"query", "ping", "pong", "notifier", "monitor"}

FactoryTypeOK ==
  /\ transport \in Transports \cup {<<>>}
  /\ ip \in Ips \cup {<<>>}
  /\ interval \in Intervals \cup {2000}
  /\ taken \subseteq Used
  /\ \A b \in bound : ValidateUrl(b[1]) /\ b[2] \in Roles
  /\ Cardinality(hub) <= 1
  /\ attempts \in 0..Attempts

FactoryInit ==
  /\ transport = <<>> /\ ip = <<>> /\ monitorUrl = <<>>
  /\ interval = 2000
  /\ taken = {} /\ bound = {} /\ hub = {}
  /\ attempts = 0

-----------------------------------------------------------------------------
\* A setter that leaves the monitor's URL to the other one.
SetIpAlone(i) ==
  /\ ip' = i
  /\ UNCHANGED <<transport, monitorUrl, interval, taken, bound, hub, attempts>>
SetIp(i) ==
  /\ ip' = i
  /\ monitorUrl' = Address(transport, i, MonPort)
  /\ UNCHANGED <<transport, interval, taken, bound, hub, attempts>>

SetTransport(t) ==
  /\ transport' = t
  /\ monitorUrl' = Address(t, ip, MonPort)
  /\ UNCHANGED <<ip, interval, taken, bound, hub, attempts>>

HmInterval(n) ==
  /\ interval' = n
  /\ UNCHANGED <<transport, ip, monitorUrl, taken, bound, hub, attempts>>

\* Other processes bind and release ports this one does not hold.
Neighbours(P) ==
  /\ P \cap {b[1][Len(b[1])].value : b \in bound} = {}
  /\ taken' = P
  /\ UNCHANGED <<transport, ip, monitorUrl, interval, bound, hub, attempts>>

Near(m) == {n \in Bindable : <<m, n>> \in Overlapping}
CanBind(address, open) ==
  \E m \in Bindable, p \in Used \ taken :
    /\ address = Address(m[1], m[2], p)
    /\ \A n \in Near(m) : Address(n[1], n[2], p) \notin {b[1] : b \in open}

InprocBound == 6    \* sub->bind("inproc://monitor")
TaskConnected == 7  \* r->connect(ci.task)
AllDone == 8

\* The steps of get() behind the binds that throw: "inproc://monitor" is bound
\* once in the factory's context, by the first hub; and ci.task is where the
\* hub was told to be.
LateFailures ==
  {k \in {InprocBound} : hub # {}}
    \cup {k \in {TaskConnected} : <<transport, ip>> \notin Connectable}

\* The first step that throws.
FirstFailure ==
  Min({k \in DOMAIN Binds :
         ~CanBind(Binds[k][1], bound \cup {Binds[j] : j \in 1..(k - 1)})}
        \cup LateFailures \cup {AllDone})

\* A factory whose new heart monitor takes the first hub's with it.
OrphansAll == {b \in bound : b[2] = "ping"}
\* m_heartmonitor.reset(): the PUB socket of the monitor before goes, unless
\* a hub shares that monitor.
Orphans == {b \in bound : b[2] = "ping" /\ \A h \in hub : b[1] # h.heartbeat[1]}

Opened(n) == {Binds[k] : k \in 1..n}

\* A factory that keeps what it had opened before the failure.
GetFailsOpen ==
  /\ FirstFailure < AllDone
  /\ bound' = (bound \ Orphans) \cup Opened(Min({5, FirstFailure - 1}))
  /\ UNCHANGED hub
GetFails ==
  /\ FirstFailure < AllDone
  /\ \/ FirstFailure <= MonitorMade /\ UNCHANGED bound
     \/ /\ FirstFailure > MonitorMade
        /\ bound' = (bound \ Orphans) \cup
                      {b \in Opened(MonitorMade) : b[2] \in {"ping", "pong"}}
  /\ UNCHANGED hub

GetReturns ==
  /\ FirstFailure = AllDone
  /\ bound' = (bound \ Orphans) \cup Opened(5)
  /\ hub' = {Info}

\* hub_factory::get, and the constructor of the hub.
Get ==
  /\ attempts < Attempts
  /\ attempts' = attempts + 1
  /\ GetFails \/ GetReturns
  /\ UNCHANGED <<transport, ip, monitorUrl, interval, taken>>

FactoryNext ==
  \/ \E i \in Ips : SetIp(i)
  \/ \E t \in Transports : SetTransport(t)
  \/ \E n \in Intervals : HmInterval(n)
  \/ \E P \in SUBSET Used : Neighbours(P)
  \/ Get

FactorySpec == FactoryInit /\ [][FactoryNext]_factoryVars

-----------------------------------------------------------------------------
\* What a hub hands out leads to it, and goes on doing so: the assertions of
\* its constructor and the checks in engine::run and in the heart hold, the
\* registration goes to the query socket, heartbeat[0] to the pings and
\* heartbeat[1] to the pongs, the monitor listens where the hub was told to
\* be, and no two of the eight queues have the same address, whatever setters
\* and further attempts follow.
EnginesReachHub ==
  \A h \in hub :
    /\ {<<h.registration, "query">>, <<h.heartbeat[1], "ping">>,
        <<h.heartbeat[2], "pong">>, <<h.notification, "notifier">>,
        <<h.monitor, "monitor">>} \subseteq bound
    /\ \A address \in h.queues \cup {h.registration, h.notification,
                                     h.heartbeat[1], h.heartbeat[2]} :
         ValidateUrl(address)
    /\ Cardinality(h.queues) = 8

\* A factory that was given an address of this machine, in whatever order,
\* returns its hub exactly when, with its ports held by nobody else, that
\* address can be connected to and no attempt at it or at one that overlaps it
\* failed behind the heart monitor: that attempt's ROUTER keeps the pong port
\* for as long as the reactor lives.
GetWorks ==
  [][Get /\ hub = {} /\ taken = {} /\ <<transport, ip>> \in Bindable
       => (hub' # {} <=>
             /\ <<transport, ip>> \in Connectable
             /\ \A m \in Near(<<transport, ip>>) :
                  <<Address(m[1], m[2], HbPorts[2]), "pong">> \notin bound)]_factoryVars

\* A get() that throws leaves no socket behind but those of a heart monitor,
\* and of those with its PUB socket at most one.
FailureLeavesMonitor ==
  hub = {} => /\ \A b \in bound : b[2] \in {"ping", "pong"}
              /\ Cardinality({b \in bound : b[2] = "ping"}) <= 1
=============================================================================
