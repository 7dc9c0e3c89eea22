------------------------------ MODULE UdpProxy ------------------------------
(***************************************************************************)
(* The UDP proxies of the vehicles (js_udp_proxy.js), the request that     *)
(* opens and closes them (js_chat_system_commands.js), the 'close' event   *)
(* of their unit (js_chat_connection.js) and the block an administrator    *)
(* puts on one (js_andruav_comm_server.js).                                *)
(*                                                                         *)
(* One action is one callback.  A bind is asked for in one callback and    *)
(* done, on Node's nextTick queue, before any other event is handled: only *)
(* messages that the same unit sent together are handled in between.       *)
(* Other processes take and release ports at any time.                     *)
(***************************************************************************)
EXTENDS Naturals

CONSTANTS
  Units,  \* vehicles; a proxy is registered under the name of its unit
  Ports,  \* the UDP ports of the host, numbers above 0
  Shared, \* the ports that other processes of the host may use too
  Asks,   \* the pairs of ports that units ask for, 0 for any port
  None

Side == 1..2  \* _udp_socket1 and _udp_socket2
Pairs == [Side -> Ports \cup {0}]
AnyPort == [i \in Side |-> 0]

Entries ==
  [socket_port : Pairs, blocked : BOOLEAN, idle : BOOLEAN, port : Pairs,
   st : [Side -> {"binding", "ready", "inuse", "error"}], drops : BOOLEAN,
   callback : {"new", "refresh", "health"}]

ASSUME UdpAssumption ==
  /\ Ports \subseteq Nat \ {0}
  /\ Shared \subseteq Ports
  /\ Asks \subseteq Pairs
  /\ None \notin Pairs \cup Units \cup Entries

VARIABLES
  \* The registered proxies, by name.  socket_port holds the two ports the
  \* entry remembers; port, st, drops and callback belong to its m_udpproxy:
  \* the ports of the sockets, what became of their binds, _blocked, and what
  \* the proxy's callback was given to do.
  m_activeUdpProxy,
  holder,            \* who has each port: "free", "proxy" or "other"
  m_reaperInterval,  \* is the reaper running
  suspended,         \* has the host slept since the reaper's last tick
  unnamed,           \* the parties that leave out their sender id, whose name
                     \* `undefined' is a key like any other; it never changes
  conn,              \* the unit's socket: see Connections below
  chunk,             \* the unit whose messages are being read in this turn
  told,              \* the ports the unit heard last, AnyPort if it has no proxy,
                     \* None if it has not been told anything
  asking             \* does the unit wait for the answer to a request

proxyVars == <<m_activeUdpProxy, holder>>
reaperVars == <<m_reaperInterval, suspended>>
unitVars == <<unnamed, conn, chunk, told, asking>>
vars == <<proxyVars, reaperVars, unitVars>>

Init ==
  /\ m_activeUdpProxy = [u \in Units |-> None]
  /\ holder = [p \in Ports |-> "free"]
  /\ m_reaperInterval = FALSE
  /\ suspended = FALSE
  /\ unnamed \in SUBSET Units
  /\ conn = [u \in Units |-> "gone"]
  /\ chunk = None
  /\ told = [u \in Units |-> None]
  /\ asking = [u \in Units |-> FALSE]

Registered(u) == m_activeUdpProxy[u] # None
IsReady(e) == \A i \in Side : e.st[i] = "ready"
Binding(e) == \E i \in Side : e.st[i] = "binding"

\* The binds asked for in this turn are done.
Quiet == \A u \in Units : Registered(u) => ~Binding(m_activeUdpProxy[u])

-----------------------------------------------------------------------------
(* Proxies *)

\* A new entry with its proxy.
Mutant_Opened(asked) ==
  [blocked |-> FALSE, idle |-> FALSE, port |-> asked,
   st |-> [i \in Side |-> "binding"], drops |-> FALSE, callback |-> "new"]

Opened(asked) ==
  [socket_port |-> asked, blocked |-> FALSE, idle |-> FALSE, port |-> asked,
   st |-> [i \in Side |-> "binding"], drops |-> FALSE, callback |-> "new"]

\* close() of the proxies in es: the ports of the sockets that were bound.
Mutant_Closed(es) == [p \in Ports |-> IF \E e \in es : IsReady(e) /\ e.port[1] = p
                                      THEN "free" ELSE holder[p]]

Closed(es) ==
  [p \in Ports |->
     IF \E e \in es, i \in Side : e.st[i] = "ready" /\ e.port[i] = p
     THEN "free"
     ELSE holder[p]]

\* recreateProxy, after which the old proxy is closed: the ports stay what they
\* were, and the new proxy takes over the block.
Mutant_Recreated(e, callback) ==
  [e EXCEPT !.port = AnyPort,
            !.st = [i \in Side |-> "binding"],
            !.drops = e.blocked,
            !.idle = FALSE,
            !.callback = callback]

Mutant_RecreatedForwards(e, callback) ==
  [e EXCEPT !.port = [i \in Side |-> IF e.socket_port[i] # 0 THEN e.socket_port[i]
                                                            ELSE e.port[i]],
            !.st = [i \in Side |-> "binding"],
            !.drops = FALSE,
            !.idle = FALSE,
            !.callback = callback]

Recreated(e, callback) ==
  [e EXCEPT !.port = [i \in Side |-> IF e.socket_port[i] # 0 THEN e.socket_port[i]
                                                            ELSE e.port[i]],
            !.st = [i \in Side |-> "binding"],
            !.drops = e.blocked,
            !.idle = FALSE,
            !.callback = callback]

-----------------------------------------------------------------------------
(* Requests of a unit *)

\* A message of u is handled: nothing else happens in this turn but what u sent
\* with it.
Turn(u) ==
  /\ conn[u] = "on"
  /\ Quiet \/ chunk = u

\* The unit is told its ports: AnyPort stands for the answer with en = false.
Tell(u, what) ==
  /\ told' = [told EXCEPT ![u] = what]
  /\ asking' = [asking EXCEPT ![u] = FALSE]

\* getUDPSocket opens a proxy: the unit has none, or one with other ports.
OpenProxy(u, asked) ==
  /\ m_activeUdpProxy' = [m_activeUdpProxy EXCEPT ![u] = Opened(asked)]
  /\ holder' = Closed({m_activeUdpProxy[u]} \ {None})
  /\ asking' = [asking EXCEPT ![u] = TRUE]
  /\ UNCHANGED told

SamePorts(u, asked) ==
  Registered(u) /\ \A i \in Side : asked[i] \in {0, m_activeUdpProxy[u].port[i]}

\* getUDPSocket finds the proxy ready and answers at once.
KeepProxy(u) ==
  /\ IsReady(m_activeUdpProxy[u])
  /\ m_activeUdpProxy' = [m_activeUdpProxy EXCEPT ![u].idle = FALSE]
  /\ Tell(u, m_activeUdpProxy[u].port)
  /\ UNCHANGED holder

\* getUDPSocket finds the proxy not ready.
RefreshProxy(u) ==
  /\ ~IsReady(m_activeUdpProxy[u])
  /\ m_activeUdpProxy' = [m_activeUdpProxy EXCEPT ![u] = Recreated(@, "refresh")]
  /\ holder' = Closed({m_activeUdpProxy[u]})
  /\ asking' = [asking EXCEPT ![u] = TRUE]
  /\ UNCHANGED told

\* The request to open a proxy.
RequestOpen(u, asked) ==
  /\ Turn(u)
  /\ \/ ~SamePorts(u, asked) /\ OpenProxy(u, asked)
     \/ SamePorts(u, asked) /\ KeepProxy(u)
     \/ SamePorts(u, asked) /\ RefreshProxy(u)
  /\ chunk' = IF Quiet' THEN None ELSE u
  /\ UNCHANGED <<reaperVars, unnamed, conn>>

\* closeUDPSocket(u)
CloseProxy(u) ==
  /\ holder' = Closed({m_activeUdpProxy[u]} \ {None})
  /\ m_activeUdpProxy' = [m_activeUdpProxy EXCEPT ![u] = None]

\* The request to close it.
RequestClose(u) ==
  /\ Turn(u)
  /\ CloseProxy(u)
  /\ Tell(u, AnyPort)
  /\ chunk' = IF Quiet' THEN None ELSE u
  /\ UNCHANGED <<reaperVars, unnamed, conn>>

-----------------------------------------------------------------------------
(* The end of a bind *)

\* The callback of e, the proxy of u, now that both sockets have reported; h is
\* who has the ports.  "new" and "refresh" answer the unit, and close the proxy
\* if it could not be opened; "health" tells the unit of a failure only.
Callback(u, e, h) ==
  LET bound == [e EXCEPT !.socket_port = e.port]
      released == [p \in Ports |-> IF \E i \in Side : e.st[i] = "ready" /\ e.port[i] = p
                                   THEN "free" ELSE h[p]]
  IN  /\ \/ /\ IsReady(e)
            /\ m_activeUdpProxy' = [m_activeUdpProxy EXCEPT ![u] = bound]
            /\ holder' = h
            /\ IF e.callback = "health" THEN UNCHANGED <<told, asking>>
                                        ELSE Tell(u, e.port)
         \/ /\ ~IsReady(e)
            /\ e.callback # "health"
            /\ m_activeUdpProxy' = [m_activeUdpProxy EXCEPT ![u] = None]
            /\ holder' = released
            /\ Tell(u, AnyPort)
         \/ /\ ~IsReady(e)
            /\ e.callback = "health"
            /\ m_activeUdpProxy' = [m_activeUdpProxy EXCEPT ![u] = e]
            /\ holder' = h
            /\ told' = IF conn[u] = "on" THEN [told EXCEPT ![u] = AnyPort] ELSE told
            /\ UNCHANGED asking
      \* startReaper
      /\ m_reaperInterval' = (m_reaperInterval \/ e.callback = "new")
      /\ suspended' = (suspended /\ m_reaperInterval)

\* Only 'listening' and EADDRINUSE are reported to the proxy.
Mutant_Reported(e) == IsReady(e)

Reported(e) == \A i \in Side : e.st[i] \in {"ready", "inuse"}

\* Socket i of u's proxy has been bound or not: e is the entry and h who has the
\* ports after that.
BindDone(u, e, h) ==
  /\ \/ Reported(e) /\ Callback(u, e, h)
     \/ /\ ~Reported(e)
        /\ m_activeUdpProxy' = [m_activeUdpProxy EXCEPT ![u] = e]
        /\ holder' = h
        /\ UNCHANGED <<reaperVars, told, asking>>
  /\ chunk' = None
  /\ UNCHANGED <<unnamed, conn>>

Listening(u, i, p) ==
  /\ Registered(u)
  /\ m_activeUdpProxy[u].st[i] = "binding"
  /\ m_activeUdpProxy[u].port[i] \in {0, p}
  /\ holder[p] = "free"
  /\ BindDone(u, [m_activeUdpProxy[u] EXCEPT !.st[i] = "ready", !.port[i] = p],
              [holder EXCEPT ![p] = "proxy"])

AddressInUse(u, i) ==
  /\ Registered(u)
  /\ m_activeUdpProxy[u].st[i] = "binding"
  /\ \A p \in Ports : m_activeUdpProxy[u].port[i] \in {0, p} => holder[p] # "free"
  /\ BindDone(u, [m_activeUdpProxy[u] EXCEPT !.st[i] = "inuse"], holder)

\* Any other error: no permission, no buffers.
BindError(u, i) ==
  /\ Registered(u)
  /\ m_activeUdpProxy[u].st[i] = "binding"
  /\ BindDone(u, [m_activeUdpProxy[u] EXCEPT !.st[i] = "error"], holder)

-----------------------------------------------------------------------------
(* The reaper *)

\* What a tick does with the proxies: those that are not ready are recreated;
\* after a sleep that is all of them, since the resume recovery has just closed
\* and reopened every one.
Mutant_ToRecreate == {u \in Units : Registered(u) /\ suspended}

ToRecreate ==
  {u \in Units : Registered(u) /\ (suspended \/ ~IsReady(m_activeUdpProxy[u]))}

\* Those that are idle, and whose unit is not connected, are closed.
ToReap ==
  {u \in Units \ ToRecreate :
     Registered(u) /\ m_activeUdpProxy[u].idle /\ conn[u] # "on"}

\* The reaper stops when there is no proxy left.
Mutant_StillNeeded == ToRecreate # {}

StillNeeded == \E u \in Units : Registered(u) /\ u \notin ToReap

ReaperTick ==
  /\ m_reaperInterval
  /\ Quiet
  /\ m_activeUdpProxy' =
       [u \in Units |->
          IF u \in ToRecreate THEN Recreated(m_activeUdpProxy[u], "health")
          ELSE IF u \in ToReap THEN None
          ELSE m_activeUdpProxy[u]]
  /\ holder' = Closed({m_activeUdpProxy[u] : u \in ToRecreate \cup ToReap})
  /\ m_reaperInterval' = StillNeeded
  /\ suspended' = FALSE
  /\ chunk' = None
  /\ UNCHANGED <<unnamed, conn, told, asking>>

-----------------------------------------------------------------------------
(* The administrator *)

\* fn_setProxyBlocked: SET_UDP_PROXY_STATE of the AUTH server.
SetBlocked(u, b) ==
  /\ Quiet
  /\ Registered(u)
  /\ m_activeUdpProxy' =
       [m_activeUdpProxy EXCEPT ![u].blocked = b, ![u].drops = b]
  /\ UNCHANGED <<holder, reaperVars, unitVars>>

-----------------------------------------------------------------------------
(* Connections: "on" (an active sender whose socket is open), "closing" or   *)
(* "gone".                                                                   *)

\* A party of that name logs in; a connection that is still there is replaced
\* and its 'close' event does nothing.
LogIn(u) ==
  /\ Quiet
  /\ u \in unnamed => conn[u] = "gone"
  /\ conn' = [conn EXCEPT ![u] = "on"]
  /\ Tell(u, None)
  /\ UNCHANGED <<proxyVars, reaperVars, unnamed, chunk>>

Leave(u) ==
  /\ Quiet
  /\ conn[u] = "on"
  /\ conn' = [conn EXCEPT ![u] = "closing"]
  /\ Tell(u, None)
  /\ UNCHANGED <<proxyVars, reaperVars, unnamed, chunk>>

\* fn_onWsClose: the proxy is closed by the name of the socket, if it has one.
OnClose(u) ==
  /\ Quiet
  /\ conn[u] = "closing"
  /\ conn' = [conn EXCEPT ![u] = "gone"]
  /\ \/ u \notin unnamed /\ CloseProxy(u)
     \/ u \in unnamed /\ UNCHANGED proxyVars
  /\ UNCHANGED <<reaperVars, unnamed, chunk, told, asking>>

-----------------------------------------------------------------------------
(* The host *)

\* A datagram arrives at a socket of the proxy.
Packet(u) ==
  /\ Quiet
  /\ Registered(u)
  /\ \E i \in Side : m_activeUdpProxy[u].st[i] = "ready"
  /\ m_activeUdpProxy' = [m_activeUdpProxy EXCEPT ![u].idle = FALSE]
  /\ UNCHANGED <<holder, reaperVars, unitVars>>

\* Five minutes without one.
GoIdle(u) ==
  /\ Quiet
  /\ Registered(u)
  /\ ~m_activeUdpProxy[u].idle
  /\ m_activeUdpProxy' = [m_activeUdpProxy EXCEPT ![u].idle = TRUE]
  /\ UNCHANGED <<holder, reaperVars, unitVars>>

Suspend ==
  /\ Quiet
  /\ m_reaperInterval
  /\ ~suspended
  /\ suspended' = TRUE
  /\ UNCHANGED <<proxyVars, m_reaperInterval, unitVars>>

OtherProcess(p) ==
  /\ \/ holder[p] = "free" /\ holder' = [holder EXCEPT ![p] = "other"]
     \/ holder[p] = "other" /\ holder' = [holder EXCEPT ![p] = "free"]
  /\ UNCHANGED <<m_activeUdpProxy, reaperVars, unitVars>>

BindStep(u) ==
  \E i \in Side :
    \/ \E p \in Ports : Listening(u, i, p)
    \/ AddressInUse(u, i)
    \/ BindError(u, i)

UnitStep(u) ==
  \/ \E asked \in Asks : RequestOpen(u, asked)
  \/ RequestClose(u)
  \/ LogIn(u) \/ Leave(u) \/ OnClose(u)

Next ==
  \/ \E u \in Units : UnitStep(u) \/ BindStep(u) \/ Packet(u) \/ GoIdle(u)
  \/ \E u \in Units, b \in BOOLEAN : SetBlocked(u, b)
  \/ \E p \in Shared : OtherProcess(p)
  \/ ReaperTick
  \/ Suspend

\* The binds of a turn end with it; the reaper's timer and the five minutes of
\* GoIdle pass, whatever else the server is busy with.
Fairness ==
  /\ \A u \in Units : WF_vars(BindStep(u)) /\ SF_vars(GoIdle(u))
  /\ SF_vars(ReaperTick)

Spec == Init /\ [][Next]_vars

FairSpec == Spec /\ Fairness

-----------------------------------------------------------------------------
(* Properties *)

TypeOK ==
  /\ m_activeUdpProxy \in [Units -> Entries \cup {None}]
  /\ holder \in [Ports -> {"free", "proxy", "other"}]
  /\ m_reaperInterval \in BOOLEAN
  /\ suspended \in BOOLEAN
  /\ unnamed \subseteq Units
  /\ conn \in [Units -> {"on", "closing", "gone"}]
  /\ chunk \in Units \cup {None}
  /\ told \in [Units -> Pairs \cup {None}]
  /\ asking \in [Units -> BOOLEAN]

Owns(u, i, p) ==
  Registered(u) /\ m_activeUdpProxy[u].st[i] = "ready" /\ m_activeUdpProxy[u].port[i] = p

\* No socket is leaked or lost, whatever was recreated, half open or replaced:
\* a port of ours is the port of exactly one socket of a registered proxy, and
\* a socket that is ready has its port.
PortsAccountedFor ==
  /\ \A p \in Ports :
       holder[p] = "proxy" <=> \E u \in Units, i \in Side : Owns(u, i, p)
  /\ \A u, v \in Units, i, j \in Side, p \in Ports :
       Owns(u, i, p) /\ Owns(v, j, p) => u = v /\ i = j

\* The ports a unit was told are those of its proxy as long as it is not told
\* otherwise: also after the reaper has recreated the proxy.
ToldTrue ==
  \A u \in Units :
    conn[u] = "on" /\ ~asking[u] /\ told[u] \notin {None, AnyPort}
      => Registered(u) /\ m_activeUdpProxy[u].port = told[u]

\* An administrator's block drops packets until it is lifted or the proxy is
\* closed: recreating the proxy does not lift it (js_udp_proxy.js:318).
BlockHolds ==
  \A u \in Units :
    Registered(u) => m_activeUdpProxy[u].drops = m_activeUdpProxy[u].blocked

\* A unit whose turn is over has its answer, unless a bind failed other than
\* with EADDRINUSE -- the reaper may have recreated the proxy since.
Answered ==
  \A u \in Units :
    asking[u] /\ Quiet =>
      /\ Registered(u)
      /\ \/ \E i \in Side : m_activeUdpProxy[u].st[i] = "error"
         \/ m_activeUdpProxy[u].callback = "health"

BindFails(u) == \E i \in Side : AddressInUse(u, i) \/ BindError(u, i)

\* While the reaper runs a proxy that is not ready is ready again some day --
\* after a sleep, or after its bind failed -- unless its binds fail for ever.
HealthRestores ==
  \A u \in Units :
    \/ (Registered(u) /\ ~IsReady(m_activeUdpProxy[u]) /\ m_reaperInterval)
         ~> (Registered(u) => IsReady(m_activeUdpProxy[u]))
    \/ []<><<BindFails(u)>>_vars

\* While the reaper runs, the proxy of a unit that is gone is closed, unless it
\* is used or recreated for ever.
OrphansGo ==
  \A u \in Units :
    \/ (Registered(u) /\ conn[u] = "gone" /\ m_reaperInterval)
         ~> (Registered(u) => conn[u] # "gone")
    \/ []<><<Packet(u) \/ BindFails(u) \/ Suspend>>_vars

\* js_udp_proxy.js:338-341: a unit that was told that its proxy is closed has no
\* proxy that forwards for it, until it asks for one.
ToldClosedTrue ==
  \A u \in Units :
    conn[u] = "on" /\ ~asking[u] /\ told[u] = AnyPort
      => ~(Registered(u) /\ IsReady(m_activeUdpProxy[u]))
=============================================================================
