--------------------------- MODULE UdpProxyProofs ---------------------------
(* For any number of units, ports and requests: no port is leaked or lent    *)
(* twice, what a unit was told of its proxy stays true, a block holds, and   *)
(* every request is answered unless a bind fails with an unexpected error.   *)
EXTENDS UdpProxy, TLAPS

-----------------------------------------------------------------------------
(* The inductive invariant. *)

\* A port that the entry remembers is the one its socket asks for, so that a
\* proxy that is recreated asks for the ports its unit was told; a socket that
\* is ready has a port.
PortsKept ==
  \A u \in Units, i \in Side :
    Registered(u) =>
      /\ m_activeUdpProxy[u].socket_port[i] \in {0, m_activeUdpProxy[u].port[i]}
      /\ m_activeUdpProxy[u].st[i] = "ready" => m_activeUdpProxy[u].port[i] \in Ports

\* What a unit is told are the ports of two bound sockets.
ToldPorts == told \in [Units -> [Side -> Ports] \cup {AnyPort, None}]

\* A request is only open on a live connection, and there is a proxy whose bind
\* will answer it, or has failed in a way that is never reported.
Pending ==
  \A u \in Units :
    asking[u] =>
      /\ conn[u] = "on"
      /\ Registered(u)
      /\ \/ \E i \in Side : m_activeUdpProxy[u].st[i] \in {"binding", "error"}
         \/ m_activeUdpProxy[u].callback = "health"

IInv ==
  /\ TypeOK
  /\ PortsAccountedFor
  /\ PortsKept
  /\ ToldPorts
  /\ ToldTrue
  /\ BlockHolds
  /\ Pending

-----------------------------------------------------------------------------
(* Entries *)

\* The two sides, and the pair that stands for any port.
LEMMA SideFacts ==
  /\ Side = {1, 2}
  /\ AnyPort \in Pairs
<1>1. Side = {1, 2} /\ AnyPort \in Pairs
  BY DEF Side, Pairs, AnyPort
<1> QED BY <1>1

\* A new entry.
LEMMA OpenedEntry ==
  ASSUME NEW asked \in Pairs
  PROVE  /\ Opened(asked) \in Entries
         /\ Opened(asked).socket_port = asked
         /\ Opened(asked).port = asked
         /\ Opened(asked).st = [i \in Side |-> "binding"]
         /\ Opened(asked).drops = Opened(asked).blocked
         /\ Opened(asked).callback = "new"
BY DEF Opened, Entries

\* A recreated entry.
LEMMA RecreatedEntry ==
  ASSUME NEW e \in Entries, NEW cb \in {"refresh", "health"}
  PROVE  /\ Recreated(e, cb) \in Entries
         /\ Recreated(e, cb).socket_port = e.socket_port
         /\ \A i \in Side : e.socket_port[i] \in {0, e.port[i]}
              => Recreated(e, cb).port[i] = e.port[i]
         /\ Recreated(e, cb).st = [i \in Side |-> "binding"]
         /\ Recreated(e, cb).drops = Recreated(e, cb).blocked
         /\ Recreated(e, cb).callback = cb
BY DEF Recreated, Entries, Pairs
-----------------------------------------------------------------------------
(* Ports *)

\* A step that changes no socket and no port of ours.
LEMMA KeepPorts ==
  ASSUME PortsAccountedFor,
         \A p \in Ports : holder'[p] = "proxy" <=> holder[p] = "proxy",
         \A u \in Units, i \in Side, p \in Ports : Owns(u, i, p)' <=> Owns(u, i, p)
  PROVE  PortsAccountedFor'
BY DEF PortsAccountedFor

\* The proxies es of the units in S are closed; what takes their place has not
\* been bound yet.
LEMMA ClosePorts ==
  ASSUME TypeOK, PortsAccountedFor, NEW S \in SUBSET Units, NEW es,
         \A e : e \in es <=> \E v \in S : Registered(v) /\ e = m_activeUdpProxy[v],
         holder' = Closed(es),
         \A v \in Units, i \in Side, p \in Ports :
            Owns(v, i, p)' <=> Owns(v, i, p) /\ v \notin S
  PROVE  /\ holder' \in [Ports -> {"free", "proxy", "other"}]
         /\ PortsAccountedFor'
<1>1. ASSUME NEW p \in Ports
      PROVE  holder'[p] = IF \E v \in S, i \in Side : Owns(v, i, p)
                          THEN "free" ELSE holder[p]
  <2>1. (\E e \in es, i \in Side : e.st[i] = "ready" /\ e.port[i] = p)
          <=> \E v \in S, i \in Side : Owns(v, i, p)
    BY DEF Owns
  <2> QED BY <2>1 DEF Closed
<1>2. holder' \in [Ports -> {"free", "proxy", "other"}]
  BY DEF Closed, TypeOK
<1>3. ASSUME NEW p \in Ports
      PROVE  holder'[p] = "proxy" <=> \E v \in Units, i \in Side : Owns(v, i, p)'
  <2>1. CASE \E v \in S, i \in Side : Owns(v, i, p)
    <3>1. PICK v \in S, i \in Side : Owns(v, i, p)
      BY <2>1
    <3>2. \A w \in Units, j \in Side : ~Owns(w, j, p)'
      BY <3>1 DEF PortsAccountedFor
    <3> QED BY <1>1, <2>1, <3>2
  <2>2. CASE ~\E v \in S, i \in Side : Owns(v, i, p)
    BY <1>1, <2>2 DEF PortsAccountedFor
  <2> QED BY <2>1, <2>2
<1>4. \A u, v \in Units, i, j \in Side, p \in Ports :
        Owns(u, i, p)' /\ Owns(v, j, p)' => u = v /\ i = j
  BY DEF PortsAccountedFor
<1> QED BY <1>2, <1>3, <1>4 DEF PortsAccountedFor

-----------------------------------------------------------------------------
(* Small steps *)

\* Steps that leave the proxies, and what their units were told, alone; units
\* may leave, and are then told nothing.
LEMMA UnitsMove ==
  ASSUME IInv, UNCHANGED m_activeUdpProxy,
         \A p \in Ports : holder'[p] = "proxy" <=> holder[p] = "proxy",
         TypeOK',
         \A u \in Units : \/ conn'[u] = conn[u] /\ told'[u] = told[u] /\ asking'[u] = asking[u]
                          \/ told'[u] = None /\ ~asking'[u]
                          \/ told'[u] = told[u] /\ ~asking'[u] /\ conn'[u] # "on"
  PROVE  IInv'
<1> USE DEF IInv
<1>1. PortsAccountedFor'
  BY KeepPorts DEF Owns, Registered
<1>2. PortsKept'
  BY DEF PortsKept, Registered
<1>3. ToldPorts'
  BY DEF ToldPorts, TypeOK
<1>4. ToldTrue'
  BY DEF ToldTrue, Registered
<1>5. BlockHolds'
  BY DEF BlockHolds, Registered
<1>6. Pending'
  BY DEF Pending, Registered, TypeOK
<1> QED BY <1>1, <1>2, <1>3, <1>4, <1>5, <1>6

\* A unit logs in or leaves.
LEMMA ConnectionSteps ==
  ASSUME IInv, NEW u \in Units, LogIn(u) \/ Leave(u)
  PROVE  IInv'
<1> USE UdpAssumption DEF IInv, proxyVars, reaperVars, unitVars
<1>1. CASE LogIn(u)
  <2>1. TypeOK'
    BY <1>1 DEF LogIn, Tell, TypeOK
  <2> QED BY <1>1, <2>1, UnitsMove DEF LogIn, Tell, TypeOK
<1>2. CASE Leave(u)
  <2>1. TypeOK'
    BY <1>2 DEF Leave, Tell, TypeOK
  <2> QED BY <1>2, <2>1, UnitsMove DEF Leave, Tell, TypeOK
<1> QED BY <1>1, <1>2

\* The entry of u changes, but not its sockets and ports.
LEMMA EntryTouched ==
  ASSUME IInv, NEW u \in Units, Registered(u), NEW e \in Entries,
         e.socket_port = m_activeUdpProxy[u].socket_port,
         e.port = m_activeUdpProxy[u].port,
         e.st = m_activeUdpProxy[u].st,
         e.drops = e.blocked,
         e.callback = m_activeUdpProxy[u].callback,
         m_activeUdpProxy' = [m_activeUdpProxy EXCEPT ![u] = e],
         UNCHANGED <<holder, reaperVars, unitVars>>
  PROVE  IInv'
<1> USE UdpAssumption DEF IInv, reaperVars, unitVars
<1>1. \A v \in Units :
        /\ Registered(v)' <=> Registered(v)
        /\ v # u => m_activeUdpProxy'[v] = m_activeUdpProxy[v]
        /\ m_activeUdpProxy'[u] = e
  BY DEF Registered, TypeOK
<1>2. TypeOK'
  BY DEF TypeOK
<1>3. PortsAccountedFor'
  <2>1. \A v \in Units, i \in Side, p \in Ports : Owns(v, i, p)' <=> Owns(v, i, p)
    BY <1>1 DEF Owns
  <2> QED BY <2>1, KeepPorts
<1>4. PortsKept'
  BY <1>1 DEF PortsKept
<1>5. ToldPorts'
  BY DEF ToldPorts
<1>6. ToldTrue'
  BY <1>1 DEF ToldTrue
<1>7. BlockHolds'
  BY <1>1 DEF BlockHolds
<1>8. Pending'
  BY <1>1 DEF Pending
<1> QED BY <1>2, <1>3, <1>4, <1>5, <1>6, <1>7, <1>8

\* A datagram, the idle time, and the administrator.
LEMMA TouchSteps ==
  ASSUME IInv, NEW u \in Units,
         Packet(u) \/ GoIdle(u) \/ \E b \in BOOLEAN : SetBlocked(u, b)
  PROVE  IInv'
<1> DEFINE e == m_activeUdpProxy[u]
<1>1. Registered(u)
  BY DEF Packet, GoIdle, SetBlocked
<1>2. e \in Entries /\ e.drops = e.blocked
  BY <1>1 DEF IInv, TypeOK, BlockHolds, Registered
<1>3. CASE Packet(u) \/ GoIdle(u)
  <2>1. PICK b \in BOOLEAN : m_activeUdpProxy' = [m_activeUdpProxy EXCEPT ![u].idle = b]
    BY <1>3 DEF Packet, GoIdle
  <2>2. m_activeUdpProxy' = [m_activeUdpProxy EXCEPT ![u] = [e EXCEPT !.idle = b]]
    BY <2>1
  <2>3. UNCHANGED <<holder, reaperVars, unitVars>>
    BY <1>3 DEF Packet, GoIdle
  <2>4. [e EXCEPT !.idle = b] \in Entries
    BY <1>2 DEF Entries
  <2> QED BY <1>1, <1>2, <2>2, <2>3, <2>4, EntryTouched DEF Entries
<1>4. CASE \E b \in BOOLEAN : SetBlocked(u, b)
  <2>1. PICK b \in BOOLEAN : SetBlocked(u, b)
    BY <1>4
  <2>2. m_activeUdpProxy' =
          [m_activeUdpProxy EXCEPT ![u] = [e EXCEPT !.blocked = b, !.drops = b]]
    BY <2>1 DEF SetBlocked
  <2>3. UNCHANGED <<holder, reaperVars, unitVars>>
    BY <2>1 DEF SetBlocked
  <2>4. [e EXCEPT !.blocked = b, !.drops = b] \in Entries
    BY <1>2 DEF Entries
  <2> QED BY <1>1, <1>2, <2>2, <2>3, <2>4, EntryTouched DEF Entries
<1> QED BY <1>3, <1>4

-----------------------------------------------------------------------------
(* Requests *)

\* The proxy of u is closed, and x takes its place: nothing, or a proxy that
\* has not been bound yet.
LEMMA Replaced ==
  ASSUME IInv, NEW u \in Units, NEW x \in Entries \cup {None},
         x # None =>
           /\ x.drops = x.blocked
           /\ \A i \in Side : x.socket_port[i] \in {0, x.port[i]} /\ x.st[i] = "binding",
         holder' = Closed({m_activeUdpProxy[u]} \ {None}),
         m_activeUdpProxy' = [m_activeUdpProxy EXCEPT ![u] = x]
  PROVE  /\ m_activeUdpProxy' \in [Units -> Entries \cup {None}]
         /\ holder' \in [Ports -> {"free", "proxy", "other"}]
         /\ PortsAccountedFor' /\ PortsKept' /\ BlockHolds'
         /\ \A v \in Units \ {u} : m_activeUdpProxy'[v] = m_activeUdpProxy[v]
         /\ m_activeUdpProxy'[u] = x
<1> USE UdpAssumption DEF IInv
<1>1. /\ \A v \in Units \ {u} : m_activeUdpProxy'[v] = m_activeUdpProxy[v]
      /\ m_activeUdpProxy'[u] = x
  BY DEF TypeOK
<1>2. m_activeUdpProxy' \in [Units -> Entries \cup {None}]
  BY DEF TypeOK
<1>3. holder' \in [Ports -> {"free", "proxy", "other"}] /\ PortsAccountedFor'
  <2>1. \A v \in Units, i \in Side, p \in Ports :
          Owns(v, i, p)' <=> Owns(v, i, p) /\ v \notin {u}
    BY <1>1 DEF Owns, Registered
  <2>2. \A e : e \in {m_activeUdpProxy[u]} \ {None}
                 <=> \E v \in {u} : Registered(v) /\ e = m_activeUdpProxy[v]
    BY DEF Registered
  <2> QED BY <2>1, <2>2, ClosePorts
<1>4. PortsKept'
  BY <1>1 DEF PortsKept, Registered
<1>5. BlockHolds'
  BY <1>1 DEF BlockHolds, Registered
<1> QED BY <1>1, <1>2, <1>3, <1>4, <1>5

\* getUDPSocket: opened, kept as it is, or refreshed.
LEMMA RequestOpenStep ==
  ASSUME IInv, NEW u \in Units, NEW asked \in Asks, RequestOpen(u, asked)
  PROVE  IInv'
<1> USE UdpAssumption, SideFacts DEF reaperVars
<1> DEFINE e == m_activeUdpProxy[u]
<1>1. conn[u] = "on" /\ UNCHANGED <<m_reaperInterval, suspended, unnamed, conn>>
      /\ chunk' \in Units \cup {None}
  BY DEF RequestOpen, Turn
<1>2. CASE OpenProxy(u, asked)
  <2>1. asked \in Pairs
    OBVIOUS
  <2>2. /\ m_activeUdpProxy' = [m_activeUdpProxy EXCEPT ![u] = Opened(asked)]
        /\ holder' = Closed({m_activeUdpProxy[u]} \ {None})
        /\ asking' = [asking EXCEPT ![u] = TRUE]
        /\ UNCHANGED told
    BY <1>2 DEF OpenProxy
  <2>3. /\ m_activeUdpProxy' \in [Units -> Entries \cup {None}]
        /\ holder' \in [Ports -> {"free", "proxy", "other"}]
        /\ PortsAccountedFor' /\ PortsKept' /\ BlockHolds'
        /\ \A v \in Units \ {u} : m_activeUdpProxy'[v] = m_activeUdpProxy[v]
        /\ m_activeUdpProxy'[u] = Opened(asked)
    <3>1. /\ Opened(asked).drops = Opened(asked).blocked
          /\ \A i \in Side : /\ Opened(asked).socket_port[i] \in {0, Opened(asked).port[i]}
                             /\ Opened(asked).st[i] = "binding"
      BY <2>1, OpenedEntry
    <3>2. Opened(asked) \in Entries
      BY <2>1, OpenedEntry
    <3> QED BY <2>2, <3>1, <3>2, Replaced
  <2>4. TypeOK' /\ ToldPorts'
    BY <1>1, <2>2, <2>3 DEF IInv, TypeOK, ToldPorts
  <2>5. ToldTrue'
    BY <1>1, <2>2, <2>3 DEF IInv, TypeOK, ToldTrue, Registered
  <2>6. Pending'
    <3>1. Opened(asked).st[1] = "binding" /\ Opened(asked) \in Entries
      BY <2>1, OpenedEntry
    <3> QED BY <1>1, <2>2, <2>3, <3>1 DEF IInv, TypeOK, Pending, Registered
  <2> QED BY <2>3, <2>4, <2>5, <2>6 DEF IInv
<1>3. CASE SamePorts(u, asked) /\ KeepProxy(u)
  <2>1. Registered(u) /\ IsReady(e)
    BY <1>3 DEF SamePorts, KeepProxy
  <2>2. e \in Entries /\ e.drops = e.blocked
    BY <2>1 DEF IInv, TypeOK, BlockHolds, Registered
  <2>3. e.port \in [Side -> Ports]
    BY <2>1, <2>2 DEF IInv, PortsKept, IsReady, Entries, Pairs
  <2>4. /\ told' = [told EXCEPT ![u] = e.port]
        /\ asking' = [asking EXCEPT ![u] = FALSE]
        /\ holder' = holder
    BY <1>3 DEF KeepProxy, Tell
  <2> DEFINE f == [e EXCEPT !.idle = FALSE]
  <2>5. m_activeUdpProxy' = [m_activeUdpProxy EXCEPT ![u] = f]
    BY <1>3 DEF KeepProxy
  <2>6. /\ f \in Entries /\ f.port = e.port /\ f.st = e.st /\ f.drops = f.blocked
        /\ f.socket_port = e.socket_port /\ f.callback = e.callback
    BY <2>2 DEF Entries
  <2> HIDE DEF f
  <2>7. /\ \A v \in Units \ {u} : m_activeUdpProxy'[v] = m_activeUdpProxy[v]
        /\ m_activeUdpProxy'[u] = f
        /\ \A v \in Units : Registered(v)' <=> Registered(v)
    BY <2>1, <2>5, <2>6 DEF IInv, TypeOK, Registered
  <2>8. TypeOK' /\ ToldPorts'
    BY <1>1, <2>2, <2>3, <2>4, <2>5, <2>6 DEF IInv, TypeOK, ToldPorts, Entries, Pairs
  <2>9. PortsAccountedFor'
    <3>1. \A v \in Units, i \in Side, p \in Ports : Owns(v, i, p)' <=> Owns(v, i, p)
      BY <2>6, <2>7 DEF Owns
    <3> QED BY <2>4, <3>1, KeepPorts DEF IInv
  <2>10. PortsKept' /\ BlockHolds'
    BY <2>6, <2>7 DEF IInv, PortsKept, BlockHolds
  <2>11. ToldTrue'
    BY <1>1, <2>1, <2>4, <2>6, <2>7 DEF IInv, TypeOK, ToldTrue
  <2>12. Pending'
    BY <1>1, <2>4, <2>6, <2>7 DEF IInv, TypeOK, Pending
  <2> QED BY <2>8, <2>9, <2>10, <2>11, <2>12 DEF IInv
<1>4. CASE SamePorts(u, asked) /\ RefreshProxy(u)
  <2>1. e \in Entries /\ \A i \in Side : e.socket_port[i] \in {0, e.port[i]}
    BY <1>4 DEF SamePorts, IInv, TypeOK, PortsKept, Registered
  <2>2. /\ m_activeUdpProxy' = [m_activeUdpProxy EXCEPT ![u] = Recreated(e, "refresh")]
        /\ holder' = Closed({e} \ {None})
        /\ asking' = [asking EXCEPT ![u] = TRUE]
        /\ UNCHANGED told
    BY <1>4, <2>1 DEF RefreshProxy
  <2>3. /\ Recreated(e, "refresh") \in Entries
        /\ Recreated(e, "refresh").drops = Recreated(e, "refresh").blocked
        /\ \A i \in Side : Recreated(e, "refresh").socket_port[i]
                              \in {0, Recreated(e, "refresh").port[i]}
        /\ \A i \in Side : Recreated(e, "refresh").st[i] = "binding"
    BY <2>1, RecreatedEntry
  <2>4. /\ m_activeUdpProxy' \in [Units -> Entries \cup {None}]
        /\ holder' \in [Ports -> {"free", "proxy", "other"}]
        /\ PortsAccountedFor' /\ PortsKept' /\ BlockHolds'
        /\ \A v \in Units \ {u} : m_activeUdpProxy'[v] = m_activeUdpProxy[v]
        /\ m_activeUdpProxy'[u] = Recreated(e, "refresh")
    BY <2>2, <2>3, Replaced
  <2>5. TypeOK' /\ ToldPorts'
    BY <1>1, <2>2, <2>4 DEF IInv, TypeOK, ToldPorts
  <2>6. ToldTrue'
    BY <1>1, <2>2, <2>4 DEF IInv, TypeOK, ToldTrue, Registered
  <2>7. Pending'
    BY <1>1, <2>2, <2>3, <2>4 DEF IInv, TypeOK, Pending, Registered
  <2> QED BY <2>4, <2>5, <2>6, <2>7 DEF IInv
<1> QED BY <1>2, <1>3, <1>4 DEF RequestOpen
\* A proxy is closed on request, or with its unit's socket.
LEMMA CloseSteps ==
  ASSUME IInv, NEW u \in Units, RequestClose(u) \/ OnClose(u)
  PROVE  IInv'
<1> USE UdpAssumption, SideFacts DEF reaperVars
<1>1. CASE UNCHANGED proxyVars /\ OnClose(u)
  <2>1. TypeOK'
    BY <1>1 DEF OnClose, IInv, TypeOK, proxyVars
  <2> QED BY <1>1, <2>1, UnitsMove DEF OnClose, IInv, TypeOK, Pending, proxyVars
<1>2. CASE CloseProxy(u)
  <2>1. /\ m_activeUdpProxy' \in [Units -> Entries \cup {None}]
        /\ holder' \in [Ports -> {"free", "proxy", "other"}]
        /\ PortsAccountedFor' /\ PortsKept' /\ BlockHolds'
        /\ \A v \in Units \ {u} : m_activeUdpProxy'[v] = m_activeUdpProxy[v]
        /\ m_activeUdpProxy'[u] = None
    BY <1>2, Replaced DEF CloseProxy
  <2>2. \/ told' = [told EXCEPT ![u] = AnyPort] /\ asking' = [asking EXCEPT ![u] = FALSE]
           /\ conn' = conn
        \/ told' = told /\ asking' = asking /\ conn[u] # "on"
           /\ conn' = [conn EXCEPT ![u] = "gone"]
    BY DEF RequestClose, OnClose, Tell
  <2>3. chunk' \in Units \cup {None} /\ UNCHANGED <<reaperVars, unnamed>>
    BY DEF RequestClose, OnClose, IInv, TypeOK
  <2>4. told' \in {told, [told EXCEPT ![u] = AnyPort]}
        /\ asking' \in {asking, [asking EXCEPT ![u] = FALSE]}
        /\ conn' \in {conn, [conn EXCEPT ![u] = "gone"]}
    BY <2>2
  <2>5. TypeOK'
    <3>1. told' \in [Units -> Pairs \cup {None}]
      BY <2>4 DEF IInv, TypeOK
    <3>2. /\ asking' \in [Units -> BOOLEAN]
          /\ conn' \in [Units -> {"on", "closing", "gone"}]
      BY <2>4 DEF IInv, TypeOK
    <3> QED BY <2>1, <2>3, <3>1, <3>2 DEF IInv, TypeOK
  <2>6. ToldPorts'
    BY <2>4 DEF IInv, ToldPorts
  <2>7. ToldTrue'
    BY <2>1, <2>2 DEF IInv, TypeOK, ToldTrue, Registered
  <2>8. Pending'
    BY <2>1, <2>2 DEF IInv, TypeOK, Pending, Registered
  <2> QED BY <2>1, <2>5, <2>6, <2>7, <2>8 DEF IInv
<1> QED BY <1>1, <1>2 DEF RequestClose, OnClose

-----------------------------------------------------------------------------
(* The end of a bind *)

\* Socket i has been bound to p.
Bound(a, i, p) == [a EXCEPT !.st[i] = "ready", !.port[i] = p]

\* Binding a socket of an entry changes nothing else of it.
LEMMA BoundEntry ==
  ASSUME NEW a \in Entries, NEW i \in Side, NEW p \in Ports
  PROVE  /\ Bound(a, i, p) \in Entries
         /\ Bound(a, i, p).blocked = a.blocked
         /\ Bound(a, i, p).drops = a.drops
         /\ Bound(a, i, p).callback = a.callback
         /\ Bound(a, i, p).socket_port = a.socket_port
         /\ \A j \in Side : j # i => /\ Bound(a, i, p).port[j] = a.port[j]
                                     /\ Bound(a, i, p).st[j] = a.st[j]
         /\ Bound(a, i, p).st[i] = "ready"
         /\ Bound(a, i, p).port[i] = p
<1> DEFINE st == [a.st EXCEPT ![i] = "ready"]
           port == [a.port EXCEPT ![i] = p]
<1>1. Bound(a, i, p) = [a EXCEPT !.st = st, !.port = port]
  BY DEF Bound
<1>2. st \in [Side -> {"binding", "ready", "inuse", "error"}] /\ port \in Pairs
  BY DEF Entries, Pairs
<1>3. /\ \A j \in Side : j # i => st[j] = a.st[j] /\ port[j] = a.port[j]
      /\ st[i] = "ready" /\ port[i] = p
  BY DEF Entries, Pairs
<1> HIDE DEF st, port
<1> QED BY <1>1, <1>2, <1>3 DEF Entries

\* Socket i has not been bound.
LEMMA FailedEntry ==
  ASSUME NEW a \in Entries, NEW i \in Side, NEW x \in {"inuse", "error"},
         a.st[i] = "binding",
         NEW e, e = [a EXCEPT !.st[i] = x]
  PROVE  /\ e \in Entries /\ e.blocked = a.blocked /\ e.drops = a.drops
         /\ e.callback = a.callback /\ e.socket_port = a.socket_port /\ e.port = a.port
         /\ \A j \in Side : j # i => e.st[j] = a.st[j]
         /\ e.st[i] = x
<1> DEFINE st == [a.st EXCEPT ![i] = x]
<1>1. e = [a EXCEPT !.st = st]
  OBVIOUS
<1>2. st \in [Side -> {"binding", "ready", "inuse", "error"}]
  BY DEF Entries
<1>3. st[i] = x /\ \A j \in Side : j # i => st[j] = a.st[j]
  BY DEF Entries
<1> HIDE DEF st
<1> QED BY <1>1, <1>2, <1>3 DEF Entries

\* What BindDone does to the entry and its unit: the proxy is kept, and its unit
\* may be told its ports or that it is gone; or it is closed, and its unit told.
Kept(u, e, h) ==
  /\ \E x \in Entries :
       /\ m_activeUdpProxy' = [m_activeUdpProxy EXCEPT ![u] = x]
       /\ x.st = e.st /\ x.port = e.port /\ x.callback = e.callback
       /\ x.drops = e.drops /\ x.blocked = e.blocked
       /\ \A j \in Side : x.socket_port[j] \in {0, x.port[j]}
  /\ holder' = h
  /\ \/ /\ UNCHANGED <<told, asking>>
        /\ ~Reported(e) \/ e.callback = "health"
     \/ /\ told' = [told EXCEPT ![u] = AnyPort]
        /\ UNCHANGED asking
        /\ e.callback = "health"
     \/ /\ Tell(u, e.port)
        /\ IsReady(e)

GivenUp(u, e, h) ==
  /\ m_activeUdpProxy' = [m_activeUdpProxy EXCEPT ![u] = None]
  /\ holder' = [p \in Ports |-> IF \E i \in Side : e.st[i] = "ready" /\ e.port[i] = p
                                THEN "free" ELSE h[p]]
  /\ Tell(u, AnyPort)

\* The two ways BindDone can go.
LEMMA BindDoneCases ==
  ASSUME TypeOK, NEW u \in Units, NEW e \in Entries, NEW h, BindDone(u, e, h),
         \A j \in Side : e.socket_port[j] \in {0, e.port[j]}
  PROVE  /\ Kept(u, e, h) \/ GivenUp(u, e, h)
         /\ chunk' \in Units \cup {None} /\ UNCHANGED <<unnamed, conn>>
         /\ m_reaperInterval' \in BOOLEAN /\ suspended' \in BOOLEAN
<1>1. chunk' \in Units \cup {None} /\ UNCHANGED <<unnamed, conn>>
  BY DEF BindDone
<1>2. m_reaperInterval' \in BOOLEAN /\ suspended' \in BOOLEAN
  BY DEF BindDone, Callback, TypeOK, reaperVars
<1>3. CASE ~Reported(e)
  BY <1>1, <1>2, <1>3 DEF BindDone, Kept
<1>4. CASE Reported(e) /\ IsReady(e)
  <2> DEFINE x == [e EXCEPT !.socket_port = e.port]
  <2>1. /\ x \in Entries /\ x.st = e.st /\ x.port = e.port /\ x.callback = e.callback
        /\ x.drops = e.drops /\ x.blocked = e.blocked /\ x.socket_port = x.port
    BY DEF Entries
  <2>2. m_activeUdpProxy' = [m_activeUdpProxy EXCEPT ![u] = x] /\ holder' = h
    BY <1>4 DEF BindDone, Callback
  <2>3. IF e.callback = "health" THEN UNCHANGED <<told, asking>> ELSE Tell(u, e.port)
    BY <1>4 DEF BindDone, Callback
  <2> HIDE DEF x
  <2> QED BY <1>1, <1>2, <1>4, <2>1, <2>2, <2>3 DEF Kept
<1>5. CASE Reported(e) /\ ~IsReady(e) /\ e.callback # "health"
  BY <1>1, <1>2, <1>5 DEF BindDone, Callback, GivenUp
<1>6. CASE Reported(e) /\ ~IsReady(e) /\ e.callback = "health"
  <2>1. /\ m_activeUdpProxy' = [m_activeUdpProxy EXCEPT ![u] = e] /\ holder' = h
        /\ told' \in {told, [told EXCEPT ![u] = AnyPort]} /\ UNCHANGED asking
    BY <1>6 DEF BindDone, Callback
  <2> QED BY <1>1, <1>2, <1>6, <2>1 DEF Kept
<1> QED BY <1>1, <1>2, <1>3, <1>4, <1>5, <1>6
\* The end of a bind, with the callback when both have ended.
LEMMA BindStepInv ==
  ASSUME IInv, NEW u \in Units, BindStep(u)
  PROVE  IInv'
<1> USE UdpAssumption, SideFacts
<1> DEFINE a == m_activeUdpProxy[u]
<1>1. PICK i \in Side : \/ \E p \in Ports : Listening(u, i, p)
                        \/ AddressInUse(u, i)
                        \/ BindError(u, i)
  BY DEF BindStep
<1>2. Registered(u) /\ a.st[i] = "binding"
  BY <1>1 DEF Listening, AddressInUse, BindError
<1>3. a \in Entries /\ a.drops = a.blocked
      /\ \A j \in Side : /\ a.socket_port[j] \in {0, a.port[j]}
                         /\ a.st[j] = "ready" => a.port[j] \in Ports
  BY <1>2 DEF IInv, TypeOK, BlockHolds, PortsKept, Registered
<1>4. PICK e, h :
        /\ BindDone(u, e, h)
        /\ \/ \E p \in Ports : /\ a.port[i] \in {0, p} /\ holder[p] = "free"
                               /\ e = Bound(a, i, p)
                               /\ h = [holder EXCEPT ![p] = "proxy"]
           \/ \E x \in {"inuse", "error"} : e = [a EXCEPT !.st[i] = x] /\ h = holder
  BY <1>1 DEF Listening, AddressInUse, BindError, Bound
<1>5. /\ e \in Entries /\ e.drops = e.blocked /\ e.callback = a.callback
      /\ \A j \in Side : /\ e.socket_port[j] \in {0, e.port[j]}
                         /\ e.st[j] = "ready" => e.port[j] \in Ports
                         /\ a.port[j] # 0 => e.port[j] = a.port[j]
  <2>1. CASE \E p \in Ports : /\ a.port[i] \in {0, p} /\ holder[p] = "free"
                              /\ e = Bound(a, i, p)
    <3>1. PICK p \in Ports : /\ a.port[i] \in {0, p}
                             /\ e = Bound(a, i, p)
      BY <2>1
    <3> HIDE DEF a
    <3>2. e \in Entries /\ e.blocked = a.blocked /\ e.drops = a.drops
          /\ e.callback = a.callback /\ e.socket_port = a.socket_port
      BY <1>3, <3>1, BoundEntry
    <3>3. /\ \A j \in Side : j # i => e.port[j] = a.port[j] /\ e.st[j] = a.st[j]
          /\ e.st[i] = "ready" /\ e.port[i] = p
      BY <1>3, <3>1, BoundEntry
    <3> QED BY <1>3, <3>1, <3>2, <3>3
  <2>2. CASE \E x \in {"inuse", "error"} : e = [a EXCEPT !.st[i] = x]
    <3>1. PICK x \in {"inuse", "error"} : e = [a EXCEPT !.st[i] = x]
      BY <2>2
    <3> HIDE DEF a
    <3> QED BY <1>2, <1>3, <3>1, FailedEntry
  <2> QED BY <1>4, <2>1, <2>2
<1>6. h \in [Ports -> {"free", "proxy", "other"}]
  BY <1>4 DEF IInv, TypeOK
\* Who owns what after the socket has reported.
<1>7. \/ \E p \in Ports :
           /\ holder[p] = "free" /\ h = [holder EXCEPT ![p] = "proxy"]
           /\ \A j \in Side, q \in Ports :
                (e.st[j] = "ready" /\ e.port[j] = q) <=> (Owns(u, j, q) \/ (j = i /\ q = p))
      \/ /\ h = holder
         /\ \A j \in Side, q \in Ports : (e.st[j] = "ready" /\ e.port[j] = q) <=> Owns(u, j, q)
  <2>1. ASSUME NEW p \in Ports, a.port[i] \in {0, p}, holder[p] = "free",
               e = Bound(a, i, p), h = [holder EXCEPT ![p] = "proxy"]
        PROVE  \A j \in Side, q \in Ports :
                 (e.st[j] = "ready" /\ e.port[j] = q) <=> (Owns(u, j, q) \/ (j = i /\ q = p))
    <3>1. /\ \A j \in Side : j # i => e.port[j] = a.port[j] /\ e.st[j] = a.st[j]
          /\ e.st[i] = "ready" /\ e.port[i] = p
      <4>1. e = Bound(a, i, p) /\ a \in Entries
        BY <1>3, <2>1
      <4> HIDE DEF a
      <4> QED BY <4>1, BoundEntry
    <3> QED BY <1>2, <3>1 DEF Owns
  <2>2. ASSUME NEW x \in {"inuse", "error"}, e = [a EXCEPT !.st[i] = x]
        PROVE  \A j \in Side, q \in Ports : (e.st[j] = "ready" /\ e.port[j] = q) <=> Owns(u, j, q)
    <3>1. (\A j \in Side : j # i => e.st[j] = a.st[j]) /\ e.st[i] = x /\ e.port = a.port
      <4> HIDE DEF a
      <4> QED BY <1>2, <1>3, <2>2, FailedEntry
    <3> QED BY <1>2, <3>1 DEF Owns
  <2> QED BY <1>4, <2>1, <2>2
<1>8. /\ Kept(u, e, h) \/ GivenUp(u, e, h)
      /\ chunk' \in Units \cup {None} /\ UNCHANGED <<unnamed, conn>>
      /\ m_reaperInterval' \in BOOLEAN /\ suspended' \in BOOLEAN
  BY <1>4, <1>5, BindDoneCases DEF IInv
<1>9. CASE Kept(u, e, h)
  <2>1. PICK x \in Entries :
          /\ m_activeUdpProxy' = [m_activeUdpProxy EXCEPT ![u] = x]
          /\ x.st = e.st /\ x.port = e.port /\ x.callback = e.callback
          /\ x.drops = e.drops /\ x.blocked = e.blocked
          /\ \A j \in Side : x.socket_port[j] \in {0, x.port[j]}
    BY <1>9 DEF Kept
  <2>2. /\ \A v \in Units \ {u} : m_activeUdpProxy'[v] = m_activeUdpProxy[v]
        /\ m_activeUdpProxy'[u] = x
        /\ \A v \in Units : Registered(v)' <=> Registered(v)
    BY <1>2, <2>1 DEF IInv, TypeOK, Registered
  <2>3. holder' = h
    BY <1>9 DEF Kept
  <2>4. IsReady(e) => e.port \in [Side -> Ports]
    BY <1>5 DEF IsReady, Entries, Pairs
  <2>5. \/ told' = told
        \/ told' = [told EXCEPT ![u] = AnyPort]
        \/ told' = [told EXCEPT ![u] = e.port] /\ IsReady(e)
    BY <1>9 DEF Kept, Tell
  <2>6. asking' = asking \/ asking' = [asking EXCEPT ![u] = FALSE]
    BY <1>9 DEF Kept, Tell
  <2>7. TypeOK'
    <3>1. told' \in [Units -> Pairs \cup {None}]
      BY <1>5, <2>5 DEF IInv, TypeOK, Entries
    <3>2. asking' \in [Units -> BOOLEAN]
      BY <2>6 DEF IInv, TypeOK
    <3> QED BY <1>6, <1>8, <2>1, <2>3, <3>1, <3>2 DEF IInv, TypeOK
  <2>8. PortsAccountedFor'
    <3>1. \A v \in Units, j \in Side, q \in Ports : v # u => (Owns(v, j, q)' <=> Owns(v, j, q))
      BY <2>2 DEF Owns
    <3>2. \A j \in Side, q \in Ports : Owns(u, j, q)' <=> (e.st[j] = "ready" /\ e.port[j] = q)
      BY <1>2, <2>1, <2>2 DEF Owns
    <3>3. CASE h = holder /\ \A j \in Side, q \in Ports :
                               (e.st[j] = "ready" /\ e.port[j] = q) <=> Owns(u, j, q)
      <4>1. \A v \in Units, j \in Side, q \in Ports : Owns(v, j, q)' <=> Owns(v, j, q)
        BY <3>1, <3>2, <3>3
      <4> QED BY <2>3, <3>3, <4>1, KeepPorts DEF IInv
    <3>4. CASE \E p \in Ports :
                 /\ holder[p] = "free" /\ h = [holder EXCEPT ![p] = "proxy"]
                 /\ \A j \in Side, q \in Ports :
                      (e.st[j] = "ready" /\ e.port[j] = q) <=> (Owns(u, j, q) \/ (j = i /\ q = p))
      <4>1. PICK p \in Ports :
                 /\ holder[p] = "free" /\ h = [holder EXCEPT ![p] = "proxy"]
                 /\ \A j \in Side, q \in Ports :
                      (e.st[j] = "ready" /\ e.port[j] = q) <=> (Owns(u, j, q) \/ (j = i /\ q = p))
        BY <3>4
      <4>2. \A v \in Units, j \in Side, q \in Ports :
              Owns(v, j, q)' <=> Owns(v, j, q) \/ (v = u /\ j = i /\ q = p)
        BY <3>1, <3>2, <4>1
      <4>3. holder[p] = "free" /\ holder' = [holder EXCEPT ![p] = "proxy"]
        BY <2>3, <4>1
      <4>4. \A v \in Units, j \in Side : ~Owns(v, j, p)
        BY <4>3 DEF IInv, PortsAccountedFor
      <4>5. ASSUME NEW q \in Ports
            PROVE  holder'[q] = "proxy" <=> \E v \in Units, j \in Side : Owns(v, j, q)'
        BY <4>2, <4>3 DEF IInv, PortsAccountedFor, TypeOK
      <4>6. \A v, w \in Units, j, k \in Side, q \in Ports :
              Owns(v, j, q)' /\ Owns(w, k, q)' => v = w /\ j = k
        BY <4>2, <4>4 DEF IInv, PortsAccountedFor
      <4> QED BY <4>5, <4>6 DEF PortsAccountedFor
    <3> QED BY <1>7, <3>3, <3>4
  <2>9. PortsKept'
    BY <1>5, <2>1, <2>2 DEF IInv, PortsKept
  <2>10. ToldPorts'
    BY <2>4, <2>5 DEF IInv, ToldPorts
  <2>11. BlockHolds'
    BY <1>5, <2>1, <2>2 DEF IInv, BlockHolds
  <2>12. ToldTrue'
    <3>1. SUFFICES ASSUME conn[u] = "on", ~asking'[u], told'[u] \notin {None, AnyPort}
                   PROVE  Registered(u)' /\ m_activeUdpProxy'[u].port = told'[u]
      BY <1>8, <2>2, <2>5, <2>6 DEF IInv, ToldTrue, TypeOK
    <3>2. CASE told' = [told EXCEPT ![u] = e.port]
      BY <1>2, <2>1, <2>2, <3>2 DEF IInv, TypeOK
    <3>3. CASE told' = [told EXCEPT ![u] = AnyPort]
      BY <3>1, <3>3 DEF IInv, TypeOK
    <3>4. CASE told' = told /\ asking' = asking
      <4>1. ~asking[u]
        BY <3>1, <3>4
      <4>2. a.port = told[u] /\ told[u] \in [Side -> Ports]
        BY <1>2, <3>1, <3>4, <4>1 DEF IInv, ToldTrue, ToldPorts
      <4>3. \A j \in Side : a.port[j] # 0
        BY <4>2
      <4>4. e.port = a.port
        BY <1>3, <1>5, <4>3 DEF Entries, Pairs
      <4> QED BY <1>2, <2>1, <2>2, <3>4, <4>2, <4>4
    <3> QED BY <1>9, <3>2, <3>3, <3>4 DEF Kept, Tell
  <2>13. Pending'
    <3>1. SUFFICES ASSUME asking'[u]
                   PROVE  /\ conn[u] = "on"
                          /\ \/ \E j \in Side : e.st[j] \in {"binding", "error"}
                             \/ e.callback = "health"
      BY <1>2, <1>8, <2>1, <2>2, <2>6 DEF IInv, Pending, TypeOK
    <3>2. asking[u]
      BY <2>6, <3>1 DEF IInv, TypeOK
    <3>3. conn[u] = "on"
      BY <3>2 DEF IInv, Pending
    <3>4. ~Tell(u, e.port)
      BY <3>1 DEF Tell, IInv, TypeOK
    <3>5. ~Reported(e) \/ e.callback = "health"
      BY <1>9, <3>4 DEF Kept
    <3>6. CASE ~Reported(e)
      BY <1>5, <3>3, <3>6 DEF Reported, Entries
    <3> QED BY <3>3, <3>5, <3>6
  <2> QED BY <2>7, <2>8, <2>9, <2>10, <2>11, <2>12, <2>13 DEF IInv
<1>10. CASE GivenUp(u, e, h)
  <2>1. holder' = Closed({a} \ {None})
    <3>1. \A q \in Ports :
            holder'[q] = IF \E j \in Side : e.st[j] = "ready" /\ e.port[j] = q
                         THEN "free" ELSE h[q]
      BY <1>10 DEF GivenUp
    <3>2. \A q \in Ports :
            holder'[q] = IF \E j \in Side : Owns(u, j, q) THEN "free" ELSE holder[q]
      BY <1>7, <3>1 DEF IInv, TypeOK
    <3>3. \A q \in Ports :
            Closed({a} \ {None})[q] = IF \E j \in Side : Owns(u, j, q) THEN "free" ELSE holder[q]
      BY <1>2 DEF Closed, Owns, Registered
    <3> QED BY <1>10, <3>2, <3>3 DEF GivenUp, Closed
  <2>2. /\ m_activeUdpProxy' = [m_activeUdpProxy EXCEPT ![u] = None]
        /\ told' = [told EXCEPT ![u] = AnyPort]
        /\ asking' = [asking EXCEPT ![u] = FALSE]
    BY <1>10 DEF GivenUp, Tell
  <2>3. /\ m_activeUdpProxy' \in [Units -> Entries \cup {None}]
        /\ holder' \in [Ports -> {"free", "proxy", "other"}]
        /\ PortsAccountedFor' /\ PortsKept' /\ BlockHolds'
        /\ \A v \in Units \ {u} : m_activeUdpProxy'[v] = m_activeUdpProxy[v]
        /\ m_activeUdpProxy'[u] = None
    BY <2>1, <2>2, Replaced
  <2>4. TypeOK' /\ ToldPorts'
    BY <1>8, <2>2, <2>3 DEF IInv, TypeOK, ToldPorts
  <2>5. ToldTrue'
    BY <1>8, <2>2, <2>3 DEF IInv, TypeOK, ToldTrue, Registered
  <2>6. Pending'
    BY <1>8, <2>2, <2>3 DEF IInv, TypeOK, Pending, Registered
  <2> QED BY <2>3, <2>4, <2>5, <2>6 DEF IInv
<1> QED BY <1>8, <1>9, <1>10
-----------------------------------------------------------------------------
(* The reaper *)

\* A tick recreates proxies and closes others.
LEMMA ReaperTickStep ==
  ASSUME IInv, ReaperTick
  PROVE  IInv'
<1> USE UdpAssumption, SideFacts
<1> DEFINE S == ToRecreate \cup ToReap
           R(u) == Recreated(m_activeUdpProxy[u], "health")
<1>1. \A u \in S : Registered(u)
  BY DEF ToRecreate, ToReap
<1>2. ASSUME NEW u \in Units
      PROVE  /\ u \in ToRecreate => m_activeUdpProxy'[u] = R(u)
             /\ u \in ToReap => m_activeUdpProxy'[u] = None
             /\ u \notin S => m_activeUdpProxy'[u] = m_activeUdpProxy[u]
  BY DEF ReaperTick, ToReap
<1>3. ASSUME NEW u \in ToRecreate
      PROVE  /\ R(u) \in Entries /\ R(u).drops = R(u).blocked
             /\ \A i \in Side : /\ R(u).socket_port[i] \in {0, R(u).port[i]}
                                /\ R(u).st[i] = "binding"
             /\ R(u).port = m_activeUdpProxy[u].port
             /\ R(u).callback = "health"
  <2> DEFINE e == m_activeUdpProxy[u]
  <2>1. e \in Entries /\ \A i \in Side : e.socket_port[i] \in {0, e.port[i]}
    BY <1>1 DEF ToRecreate, IInv, TypeOK, PortsKept, Registered
  <2> HIDE DEF e
  <2>2. /\ Recreated(e, "health") \in Entries
        /\ Recreated(e, "health").drops = Recreated(e, "health").blocked
        /\ Recreated(e, "health").socket_port = e.socket_port
        /\ \A i \in Side : Recreated(e, "health").port[i] = e.port[i]
        /\ \A i \in Side : Recreated(e, "health").st[i] = "binding"
        /\ Recreated(e, "health").callback = "health"
    BY <2>1, RecreatedEntry
  <2>3. Recreated(e, "health").port = e.port
    BY <2>1, <2>2 DEF Entries, Pairs
  <2> QED BY <2>1, <2>2, <2>3 DEF e
<1> HIDE DEF R
<1>4. m_activeUdpProxy' \in [Units -> Entries \cup {None}]
  <2>1. \A u \in Units : m_activeUdpProxy'[u] \in Entries \cup {None}
    BY <1>2, <1>3 DEF IInv, TypeOK
  <2> QED BY <2>1 DEF ReaperTick
<1>5. \A u \in Units : Registered(u)' <=> Registered(u) /\ u \notin ToReap
  BY <1>1, <1>2, <1>3 DEF Registered, ToReap
<1>6. holder' \in [Ports -> {"free", "proxy", "other"}] /\ PortsAccountedFor'
  <2>1. \A v \in Units, i \in Side, p \in Ports :
          Owns(v, i, p)' <=> Owns(v, i, p) /\ v \notin S
    BY <1>2, <1>3, <1>5 DEF Owns
  <2>2. \A e : e \in {m_activeUdpProxy[u] : u \in S}
                 <=> \E v \in S : Registered(v) /\ e = m_activeUdpProxy[v]
    BY <1>1
  <2>3. S \in SUBSET Units
    BY DEF ToRecreate, ToReap
  <2>4. holder' = Closed({m_activeUdpProxy[u] : u \in S})
    BY DEF ReaperTick
  <2> HIDE DEF S
  <2> QED BY <2>1, <2>2, <2>3, <2>4, ClosePorts DEF IInv
<1>7. /\ UNCHANGED <<unnamed, conn, told, asking>>
      /\ m_reaperInterval' \in BOOLEAN /\ suspended' \in BOOLEAN /\ chunk' \in Units \cup {None}
  BY DEF ReaperTick, StillNeeded
<1>8. TypeOK' /\ ToldPorts'
  BY <1>4, <1>6, <1>7 DEF IInv, TypeOK, ToldPorts
<1>9. PortsKept' /\ BlockHolds'
  BY <1>2, <1>3, <1>5 DEF IInv, PortsKept, BlockHolds
<1>10. ToldTrue'
  BY <1>2, <1>3, <1>5, <1>7 DEF IInv, ToldTrue, ToReap
<1>11. Pending'
  BY <1>2, <1>3, <1>5, <1>7 DEF IInv, Pending, ToReap
<1> QED BY <1>6, <1>8, <1>9, <1>10, <1>11 DEF IInv

-----------------------------------------------------------------------------
(* The theorems *)

\* No proxy, no request and no unit when the server starts.
LEMMA InvInit == Init => IInv
<1> SUFFICES ASSUME Init PROVE IInv
  OBVIOUS
<1> USE UdpAssumption, SideFacts DEF Init
<1>1. TypeOK
  BY DEF TypeOK
<1>2. PortsAccountedFor
  BY DEF PortsAccountedFor, Owns, Registered
<1>3. PortsKept /\ ToldPorts /\ ToldTrue /\ BlockHolds /\ Pending
  BY DEF PortsKept, ToldPorts, ToldTrue, BlockHolds, Pending, Registered
<1> QED BY <1>1, <1>2, <1>3 DEF IInv

\* Every callback keeps the invariant.
LEMMA InvNext == IInv /\ [Next]_vars => IInv'
<1> SUFFICES ASSUME IInv, [Next]_vars PROVE IInv'
  OBVIOUS
<1>1. ASSUME NEW u \in Units, UnitStep(u) PROVE IInv'
  BY <1>1, RequestOpenStep, CloseSteps, ConnectionSteps DEF UnitStep
<1>2. ASSUME NEW u \in Units, BindStep(u) PROVE IInv'
  BY <1>2, BindStepInv
<1>3. ASSUME NEW u \in Units,
             Packet(u) \/ GoIdle(u) \/ \E b \in BOOLEAN : SetBlocked(u, b)
      PROVE  IInv'
  BY <1>3, TouchSteps
<1>4. CASE Suspend \/ \E p \in Shared : OtherProcess(p)
  <2>1. TypeOK'
    BY <1>4, UdpAssumption DEF IInv, TypeOK, Suspend, OtherProcess, proxyVars, reaperVars, unitVars
  <2>2. UNCHANGED <<m_activeUdpProxy, conn, told, asking>>
    BY <1>4 DEF Suspend, OtherProcess, proxyVars, reaperVars, unitVars
  <2>3. \A q \in Ports : holder'[q] = "proxy" <=> holder[q] = "proxy"
    BY <1>4 DEF Suspend, OtherProcess, proxyVars, IInv, TypeOK
  <2> QED BY <2>1, <2>2, <2>3, UnitsMove
<1>5. CASE ReaperTick
  BY <1>5, ReaperTickStep
<1>6. CASE UNCHANGED vars
  <2>1. UNCHANGED <<m_activeUdpProxy, holder, m_reaperInterval, suspended, unnamed, conn,
                    chunk, told, asking>>
    BY <1>6 DEF vars, proxyVars, reaperVars, unitVars
  <2>2. TypeOK'
    BY <2>1 DEF IInv, TypeOK
  <2> QED BY <2>1, <2>2, UnitsMove
<1> QED BY <1>1, <1>2, <1>3, <1>4, <1>5, <1>6 DEF Next

\* The inductive invariant of the proxies.
THEOREM Invariant == Spec => []IInv
<1>1. Init => IInv
  BY InvInit
<1>2. IInv /\ [Next]_vars => IInv'
  BY InvNext
<1> QED BY <1>1, <1>2, PTL DEF Spec

\* The variables keep their types.
THEOREM TypeCorrect == Spec => []TypeOK
<1>1. IInv => TypeOK
  BY DEF IInv
<1> QED BY <1>1, Invariant, PTL

\* Whatever is recreated, half open or replaced, no socket is leaked and no port
\* is held twice.
THEOREM NoLeakedPort == Spec => []PortsAccountedFor
<1>1. IInv => PortsAccountedFor
  BY DEF IInv
<1> QED BY <1>1, Invariant, PTL

\* The ports a unit was told stay those of its proxy.
THEOREM ToldPortsStay == Spec => []ToldTrue
<1>1. IInv => ToldTrue
  BY DEF IInv
<1> QED BY <1>1, Invariant, PTL

\* Recreating a proxy does not lift an administrator's block.
THEOREM BlockStays == Spec => []BlockHolds
<1>1. IInv => BlockHolds
  BY DEF IInv
<1> QED BY <1>1, Invariant, PTL

\* A request is answered in the turn it was made, unless a bind fails with an
\* error that is not reported.
THEOREM RequestAnswered == Spec => []Answered
<1>1. IInv => Answered
  BY DEF IInv, Pending, Answered, Quiet, Binding
<1> QED BY <1>1, Invariant, PTL
=============================================================================
