-------------------------- MODULE RelayOrderProofs ---------------------------
(* Messages of one sender are heard in the order they were sent, in every     *)
(* forest of servers, whatever links fail: on each link copies stay in line,  *)
(* and a copy that will be relayed follows its predecessors down the same     *)
(* path.                                                                      *)
EXTENDS RelayProofs

-----------------------------------------------------------------------------
\* Who enters a part of the tree that hangs on one link enters by that link.
LEMMA Crossing ==
  ASSUME NEW s \in Servers, NEW w \in Servers, NEW x \in Servers,
         NEW y \in Servers, Edge(s, w), Edge(x, y),
         w \in Beyond(x, y), s \notin Beyond(x, y)
  PROVE  s = x /\ w = y
<1>1. CASE Parent[x] = y
  <2>1. w \notin Below[x] /\ s \in Below[x] /\ x \in Below[x]
    BY <1>1, ForestAssumption DEF Beyond
  <2>2. CASE Parent[s] = w
    BY <1>1, <2>1, <2>2, ForestAssumption
  <2>3. CASE Parent[w] = s
    BY <2>1, <2>3, ForestAssumption
  <2> QED BY <2>2, <2>3 DEF Edge
<1>2. CASE Parent[x] # y
  <2>1. Parent[y] = x /\ w \in Below[y] /\ s \notin Below[y] /\ y \in Below[y]
    BY <1>2, ForestAssumption DEF Beyond, Edge
  <2>2. CASE Parent[s] = w
    BY <2>1, <2>2, ForestAssumption
  <2>3. CASE Parent[w] = s
    BY <2>1, <2>3, ForestAssumption
  <2> QED BY <2>2, <2>3 DEF Edge
<1> QED BY <1>1, <1>2

-----------------------------------------------------------------------------
(* What a step does to the copies that stay and to what was heard.            *)

\* The log only grows.
Older == \A k \in 1..Len(log) : log'[k] = log[k]

\* A fresh copy that stays was fresh before, of the same message and sender.
LEMMA KeptFresh ==
  ASSUME TypeOK, Frontier, Older, NEW gone \in Offsets,
         NEW x \in Servers, NEW y \in Servers,
         NEW i \in 1..Len(channel'[x][y]), Kept(gone, x, y, i), Fresh(x, y, i)'
  PROVE  /\ i + gone[x][y] \in 1..Len(channel[x][y])
         /\ gone[x][y] < i + gone[x][y]
         /\ Fresh(x, y, i + gone[x][y])
         /\ Edge(x, y)
         /\ channel'[x][y][i].id = channel[x][y][i + gone[x][y]].id
         /\ channel'[x][y][i].id \in 1..Len(log)
         /\ log'[channel'[x][y][i].id].from = log[channel'[x][y][i].id].from
<1> DEFINE o == i + gone[x][y]
<1>1. /\ o \in 1..Len(channel[x][y]) /\ gone[x][y] < o /\ Fresh(x, y, o)
      /\ channel'[x][y][i] = channel[x][y][o]
  BY KeptCopy
<1> HIDE DEF o
<1>2. Edge(x, y) /\ channel'[x][y][i].id <= Len(log)
  BY KeptAhead
<1>3. channel[x][y][o] \in Copies
  BY <1>1 DEF TypeOK
<1>4. channel'[x][y][i].id \in 1..MaxMessages
  BY <1>1, <1>3 DEF Copies
<1>5. Len(log) \in Nat
  BY LenProperties DEF TypeOK
<1>6. channel'[x][y][i].id \in 1..Len(log)
  BY <1>2, <1>4, <1>5, UnitsAssumption
<1> QED BY <1>1, <1>2, <1>6 DEF o, Older

\* What was heard is in the log.
LEMMA HeardInLog ==
  ASSUME TypeOK, Frontier, NEW u \in Units, NEW n \in 1..Len(heard[u])
  PROVE  heard[u][n] \in 1..Len(log)
<1>1. heard[u] \in Seq(1..MaxMessages) /\ Len(log) \in Nat
  BY LenProperties DEF TypeOK
<1>2. heard[u][n] \in 1..MaxMessages
  BY <1>1, ElementOfSeq
<1>3. heard[u][n] <= Len(log)
  BY DEF Frontier, CopiesOnLinks
<1> QED BY <1>1, <1>2, <1>3, UnitsAssumption

\* The order among the copies that stay.
LEMMA KeptInOrder ==
  ASSUME TypeOK, Frontier, NoOvertaking, Older, NEW gone \in Offsets,
         NEW x \in Servers, NEW y \in Servers,
         NEW i \in 1..Len(channel'[x][y]), Kept(gone, x, y, i), Fresh(x, y, i)'
  PROVE  /\ Home[log[channel'[x][y][i].id].from] \notin Beyond(x, y)
         /\ \A u \in Units : \A n \in 1..Len(heard[u]) :
              /\ Home[u] \in Beyond(x, y)
              /\ log[heard[u][n]].from = log[channel'[x][y][i].id].from
              => heard[u][n] < channel'[x][y][i].id
         /\ \A j \in 1..Len(channel'[x][y]) :
              /\ Kept(gone, x, y, j) /\ Fresh(x, y, j)' /\ i < j
              /\ log[channel'[x][y][i].id].from = log[channel'[x][y][j].id].from
              => channel'[x][y][i].id < channel'[x][y][j].id
         /\ \A x2, y2 \in Servers : \A j \in 1..Len(channel'[x2][y2]) :
              /\ Kept(gone, x2, y2, j) /\ Fresh(x2, y2, j)'
              /\ <<x, y>> # <<x2, y2>> /\ y2 \in Beyond(x, y)
              /\ log[channel'[x][y][i].id].from
                   = log[channel'[x2][y2][j].id].from
              => channel'[x2][y2][j].id < channel'[x][y][i].id
<1> DEFINE o == i + gone[x][y]
<1>1. /\ o \in 1..Len(channel[x][y]) /\ Fresh(x, y, o)
      /\ channel'[x][y][i].id = channel[x][y][o].id
  BY KeptFresh
<1> HIDE DEF o
<1>2. Home[log[channel'[x][y][i].id].from] \notin Beyond(x, y)
  BY <1>1 DEF NoOvertaking, AwayFromHome
<1>3. ASSUME NEW u \in Units, NEW n \in 1..Len(heard[u]),
             Home[u] \in Beyond(x, y),
             log[heard[u][n]].from = log[channel'[x][y][i].id].from
      PROVE  heard[u][n] < channel'[x][y][i].id
  BY <1>1, <1>3 DEF NoOvertaking, HeardEarlier
<1>4. ASSUME NEW j \in 1..Len(channel'[x][y]), Kept(gone, x, y, j),
             Fresh(x, y, j)', i < j,
             log[channel'[x][y][i].id].from = log[channel'[x][y][j].id].from
      PROVE  channel'[x][y][i].id < channel'[x][y][j].id
  <2> DEFINE p == j + gone[x][y]
  <2>1. /\ p \in 1..Len(channel[x][y]) /\ Fresh(x, y, p)
        /\ channel'[x][y][j].id = channel[x][y][p].id
    BY <1>4, KeptFresh
  <2>2. o < p
    BY <1>4 DEF o, Offsets
  <2> HIDE DEF p
  <2> QED BY <1>1, <1>4, <2>1, <2>2 DEF NoOvertaking, LinkInOrder
<1>5. ASSUME NEW x2 \in Servers, NEW y2 \in Servers,
             NEW j \in 1..Len(channel'[x2][y2]), Kept(gone, x2, y2, j),
             Fresh(x2, y2, j)', <<x, y>> # <<x2, y2>>, y2 \in Beyond(x, y),
             log[channel'[x][y][i].id].from = log[channel'[x2][y2][j].id].from
      PROVE  channel'[x2][y2][j].id < channel'[x][y][i].id
  <2> DEFINE p == j + gone[x2][y2]
  <2>1. /\ p \in 1..Len(channel[x2][y2]) /\ Fresh(x2, y2, p)
        /\ channel'[x2][y2][j].id = channel[x2][y2][p].id
    BY <1>5, KeptFresh
  <2> HIDE DEF p
  <2> QED BY <1>1, <1>5, <2>1 DEF NoOvertaking, AheadEarlier
<1> QED BY <1>2, <1>3, <1>4, <1>5

\* A step that sends nothing and gives nothing keeps the order.
LEMMA OrderQuiet ==
  ASSUME TypeOK, Frontier, NoOvertaking, HeardInOrder,
         UNCHANGED <<log, heard>>, NEW gone \in Offsets, OnlyKept(gone)
  PROVE  NoOvertaking' /\ HeardInOrder'
<1>0. Older
  BY DEF Older
<1>1. ASSUME NEW x \in Servers, NEW y \in Servers,
             NEW i \in 1..Len(channel'[x][y])
      PROVE  Kept(gone, x, y, i) /\ Beyond(x, y)' = Beyond(x, y)
  BY DEF OnlyKept, Beyond
<1>2. HeardEarlier'
  <2> SUFFICES ASSUME NEW x \in Servers, NEW y \in Servers,
                      NEW i \in 1..Len(channel'[x][y]), NEW u \in Units,
                      NEW n \in 1..Len(heard[u]),
                      Fresh(x, y, i)', (Home[u] \in Beyond(x, y))',
                      log[heard[u][n]].from = log[channel'[x][y][i].id].from
               PROVE  heard[u][n] < channel'[x][y][i].id
    BY DEF HeardEarlier
  <2> QED BY <1>0, <1>1, KeptInOrder
<1>3. LinkInOrder'
  <2> SUFFICES ASSUME NEW x \in Servers, NEW y \in Servers,
                      NEW i \in 1..Len(channel'[x][y]),
                      NEW j \in 1..Len(channel'[x][y]),
                      i < j, Fresh(x, y, i)', Fresh(x, y, j)',
                      log[channel'[x][y][i].id].from
                        = log[channel'[x][y][j].id].from
               PROVE  channel'[x][y][i].id < channel'[x][y][j].id
    BY DEF LinkInOrder
  <2> QED BY <1>0, <1>1, KeptInOrder
<1>4. AheadEarlier'
  <2> SUFFICES ASSUME NEW x \in Servers, NEW y \in Servers,
                      NEW x2 \in Servers, NEW y2 \in Servers
               PROVE  \A i \in 1..Len(channel'[x][y]),
                         j \in 1..Len(channel'[x2][y2]) :
                        (/\ <<x, y>> # <<x2, y2>> /\ y2 \in Beyond(x, y)
                         /\ Fresh(x, y, i) /\ Fresh(x2, y2, j)
                         /\ log[channel[x][y][i].id].from
                              = log[channel[x2][y2][j].id].from
                         => channel[x2][y2][j].id < channel[x][y][i].id)'
    BY DEF AheadEarlier
  <2> SUFFICES ASSUME NEW i \in 1..Len(channel'[x][y]),
                      NEW j \in 1..Len(channel'[x2][y2]),
                      <<x, y>> # <<x2, y2>>, (y2 \in Beyond(x, y))',
                      Fresh(x, y, i)', Fresh(x2, y2, j)',
                      (log[channel[x][y][i].id].from
                        = log[channel[x2][y2][j].id].from)'
               PROVE  (channel[x2][y2][j].id < channel[x][y][i].id)'
    OBVIOUS
  <2> QED BY <1>0, <1>1, KeptInOrder
<1>5. AwayFromHome'
  <2> SUFFICES ASSUME NEW x \in Servers, NEW y \in Servers,
                      NEW i \in 1..Len(channel'[x][y]), Fresh(x, y, i)'
               PROVE  (Home[log[channel[x][y][i].id].from]
                         \notin Beyond(x, y))'
    BY DEF AwayFromHome
  <2> QED BY <1>0, <1>1, KeptInOrder
<1>6. HeardInOrder'
  BY DEF HeardInOrder
<1> QED BY <1>2, <1>3, <1>4, <1>5, <1>6 DEF NoOvertaking

-----------------------------------------------------------------------------
(* A step in which server s gives message c.id to units of its own and sends  *)
(* copies of it to neighbours.                                                *)

\* Where s sends the message, and at s, its sender's earlier ones were heard.
NewestHeard(s, c, us) ==
  \A u \in Units : \A n \in 1..Len(heard[u]) :
    /\ \/ u \in us
       \/ \E w \in Servers : Takes(s, c, w) /\ Home[u] \in Beyond(s, w)
    /\ log[heard[u][n]].from = log'[c.id].from
    => heard[u][n] < c.id

\* A copy of a message of the same sender that heads for s is of a later one,
\* a copy where s sends its own is of an earlier one.
InLine(gone, s, c) ==
  \A x, y \in Servers : \A o \in 1..Len(channel[x][y]) :
    /\ gone[x][y] < o /\ Fresh(x, y, o)
    /\ log[channel[x][y][o].id].from = log'[c.id].from
    => /\ s \in Beyond(x, y) => c.id < channel[x][y][o].id
       /\ \A w \in Servers : Takes(s, c, w) /\ y \in Beyond(s, w)
            => channel[x][y][o].id < c.id

\* The message leaves the part of the tree where its sender is.
Outward(s, c) ==
  \A w \in Servers : Takes(s, c, w) => Home[log'[c.id].from] \notin Beyond(s, w)

\* A copy that was in line with c before the step and stays is in line with it.
LEMMA KeptInLine ==
  ASSUME TypeOK, Frontier, Older, NEW gone \in Offsets, NEW s \in Servers,
         NEW c, InLine(gone, s, c), NEW x \in Servers, NEW y \in Servers,
         NEW i \in 1..Len(channel'[x][y]), Kept(gone, x, y, i),
         Fresh(x, y, i)',
         log[channel'[x][y][i].id].from = log'[c.id].from
  PROVE  /\ s \in Beyond(x, y) => c.id < channel'[x][y][i].id
         /\ \A w \in Servers : Takes(s, c, w) /\ y \in Beyond(s, w)
              => channel'[x][y][i].id < c.id
<1> DEFINE o == i + gone[x][y]
<1>1. /\ o \in 1..Len(channel[x][y]) /\ gone[x][y] < o /\ Fresh(x, y, o)
      /\ channel'[x][y][i].id = channel[x][y][o].id
  BY KeptFresh
<1> HIDE DEF o
<1> QED BY <1>1 DEF InLine

\* A server that passes on one copy, in line with all others, keeps the order.
LEMMA OrderStep ==
  ASSUME TypeOK, Frontier, NoOvertaking, HeardInOrder, Older,
         TypeOK',
         NEW gone \in Offsets, NEW s \in Servers, NEW c \in Copies,
         NEW us \in SUBSET Units, Give(c.id, us), \A u \in us : Home[u] = s,
         KeptOrSent(gone, s, c), NewestHeard(s, c, us), InLine(gone, s, c),
         Outward(s, c)
  PROVE  NoOvertaking' /\ HeardInOrder'
<1>0. /\ c.id \in 1..MaxMessages
      /\ \A u \in Units : heard[u] \in Seq(1..MaxMessages)
  BY DEF TypeOK, Copies
\* Where a heard message comes from.
<1>1. ASSUME NEW u \in Units, NEW n \in 1..Len(heard'[u])
      PROVE  \/ /\ n \in 1..Len(heard[u]) /\ heard'[u][n] = heard[u][n]
                /\ log'[heard[u][n]] = log[heard[u][n]]
             \/ u \in us /\ n = Len(heard[u]) + 1 /\ heard'[u][n] = c.id
  <2>1. Len(heard[u]) \in Nat
    BY <1>0, LenProperties
  <2>2. \A k \in 1..Len(heard[u]) : log'[heard[u][k]] = log[heard[u][k]]
    BY HeardInLog DEF Older
  <2>3. CASE u \in us
    <3>1. heard'[u] = Append(heard[u], c.id)
      BY <1>0, <2>3, Given
    <3>2. /\ Len(heard'[u]) = Len(heard[u]) + 1
          /\ \A k \in 1..Len(heard[u]) : heard'[u][k] = heard[u][k]
          /\ heard'[u][Len(heard[u]) + 1] = c.id
      BY <1>0, <3>1, AppendProperties
    <3>3. n \in 1..Len(heard[u]) \/ n = Len(heard[u]) + 1
      BY <2>1, <3>2
    <3> QED BY <2>2, <2>3, <3>2, <3>3
  <2>4. CASE u \notin us
    BY <1>0, <2>2, <2>4, Given
  <2> QED BY <2>3, <2>4
\* Where a fresh copy comes from.
<1>2. ASSUME NEW x \in Servers, NEW y \in Servers,
             NEW i \in 1..Len(channel'[x][y]), Fresh(x, y, i)'
      PROVE  /\ Edge(x, y)
             /\ \/ /\ Kept(gone, x, y, i)
                   /\ log'[channel'[x][y][i].id].from
                        = log[channel'[x][y][i].id].from
                \/ /\ x = s /\ Takes(s, c, y)
                   /\ i = Len(channel'[x][y]) /\ channel'[x][y][i] = c
  <2>1. CASE Kept(gone, x, y, i)
    BY <1>2, <2>1, KeptFresh
  <2>2. CASE Sent(s, c, x, y, i)
    BY <1>2, <2>2 DEF Sent, Fresh, Takes
  <2> QED BY <2>1, <2>2 DEF KeptOrSent
<1>3. ASSUME NEW x \in Servers, NEW y \in Servers
      PROVE  Beyond(x, y)' = Beyond(x, y)
  BY DEF Beyond
<1>4. HeardEarlier'
  <2> SUFFICES ASSUME NEW x \in Servers, NEW y \in Servers,
                      NEW i \in 1..Len(channel'[x][y])
               PROVE  \A u \in Units : \A n \in 1..Len(heard'[u]) :
                        (/\ Fresh(x, y, i) /\ Home[u] \in Beyond(x, y)
                         /\ log[heard[u][n]].from = log[channel[x][y][i].id].from
                         => heard[u][n] < channel[x][y][i].id)'
    BY DEF HeardEarlier
  <2> SUFFICES ASSUME NEW u \in Units, NEW n \in 1..Len(heard'[u]),
                      Fresh(x, y, i)', (Home[u] \in Beyond(x, y))',
                      log'[heard'[u][n]].from = log'[channel'[x][y][i].id].from
               PROVE  heard'[u][n] < channel'[x][y][i].id
    OBVIOUS
  <2>0. Home[u] \in Beyond(x, y)
    BY <1>3
  <2>1. CASE Kept(gone, x, y, i)
    <3>1. log'[channel'[x][y][i].id].from = log[channel'[x][y][i].id].from
      BY <2>1, KeptFresh
    <3>2. CASE n \in 1..Len(heard[u]) /\ heard'[u][n] = heard[u][n]
               /\ log'[heard[u][n]] = log[heard[u][n]]
      BY <2>0, <2>1, <3>1, <3>2, KeptInOrder
    <3>3. CASE u \in us /\ heard'[u][n] = c.id
      BY <2>0, <2>1, <3>1, <3>3, KeptInLine
    <3> QED BY <1>1, <3>2, <3>3
  <2>2. CASE x = s /\ Takes(s, c, y) /\ channel'[x][y][i] = c
    <3>1. u \notin us
      BY <2>0, <2>2, LinkEnds DEF Takes
    <3>2. n \in 1..Len(heard[u]) /\ heard'[u][n] = heard[u][n]
          /\ log'[heard[u][n]] = log[heard[u][n]]
      BY <1>1, <3>1
    <3> QED BY <2>0, <2>2, <3>2 DEF NewestHeard
  <2> QED BY <1>2, <2>1, <2>2
<1>5. LinkInOrder'
  <2> SUFFICES ASSUME NEW x \in Servers, NEW y \in Servers,
                      NEW i \in 1..Len(channel'[x][y]),
                      NEW j \in 1..Len(channel'[x][y]),
                      i < j, Fresh(x, y, i)', Fresh(x, y, j)',
                      log'[channel'[x][y][i].id].from
                        = log'[channel'[x][y][j].id].from
               PROVE  channel'[x][y][i].id < channel'[x][y][j].id
    BY DEF LinkInOrder
  <2>1. i # Len(channel'[x][y])
    <3>1. Len(channel'[x][y]) \in Nat
      BY LenProperties DEF TypeOK
    <3> QED BY <3>1
  <2>2. Kept(gone, x, y, i)
          /\ log'[channel'[x][y][i].id].from = log[channel'[x][y][i].id].from
    BY <1>2, <2>1
  <2>3. CASE Kept(gone, x, y, j)
    <3>1. log'[channel'[x][y][j].id].from = log[channel'[x][y][j].id].from
      BY <2>3, KeptFresh
    <3> QED BY <2>2, <2>3, <3>1, KeptInOrder
  <2>4. CASE x = s /\ Takes(s, c, y) /\ channel'[x][y][j] = c
    <3>1. y \in Beyond(s, y)
      BY <2>4, LinkEnds DEF Takes
    <3>2. log[channel'[x][y][i].id].from = log'[c.id].from
      <4>1. log'[channel'[x][y][i].id].from = log'[channel'[x][y][j].id].from
        OBVIOUS
      <4>2. log'[channel'[x][y][j].id].from = log'[c.id].from
        BY <2>4
      <4>3. log'[channel'[x][y][i].id].from = log[channel'[x][y][i].id].from
        BY <2>2
      <4> QED BY <4>1, <4>2, <4>3
    <3>3. channel'[x][y][i].id < c.id
      BY <2>2, <2>4, <3>1, <3>2, KeptInLine
    <3> QED BY <2>4, <3>3
  <2> QED BY <1>2, <2>3, <2>4
<1>6. AheadEarlier'
  <2> SUFFICES ASSUME NEW x \in Servers, NEW y \in Servers,
                      NEW x2 \in Servers, NEW y2 \in Servers
               PROVE  \A i \in 1..Len(channel'[x][y]),
                         j \in 1..Len(channel'[x2][y2]) :
                        (/\ <<x, y>> # <<x2, y2>> /\ y2 \in Beyond(x, y)
                         /\ Fresh(x, y, i) /\ Fresh(x2, y2, j)
                         /\ log[channel[x][y][i].id].from
                              = log[channel[x2][y2][j].id].from
                         => channel[x2][y2][j].id < channel[x][y][i].id)'
    BY DEF AheadEarlier
  <2> SUFFICES ASSUME NEW i \in 1..Len(channel'[x][y]),
                      NEW j \in 1..Len(channel'[x2][y2]),
                      <<x, y>> # <<x2, y2>>, (y2 \in Beyond(x, y))',
                      Fresh(x, y, i)', Fresh(x2, y2, j)',
                      (log[channel[x][y][i].id].from
                        = log[channel[x2][y2][j].id].from)'
               PROVE  (channel[x2][y2][j].id < channel[x][y][i].id)'
    OBVIOUS
  <2>0. y2 \in Beyond(x, y) /\ Edge(x, y) /\ Edge(x2, y2)
    BY <1>2, <1>3
  <2>1. CASE Kept(gone, x, y, i) /\ Kept(gone, x2, y2, j)
    <3>1. /\ log'[channel'[x][y][i].id].from = log[channel'[x][y][i].id].from
          /\ log'[channel'[x2][y2][j].id].from
               = log[channel'[x2][y2][j].id].from
      BY <2>1, KeptFresh
    <3>2. log[channel'[x][y][i].id].from = log[channel'[x2][y2][j].id].from
      BY <3>1
    <3>3. Fresh(x, y, i)' /\ Fresh(x2, y2, j)'
      OBVIOUS
    <3>4. channel'[x2][y2][j].id < channel'[x][y][i].id
      BY <2>0, <2>1, <3>2, <3>3, KeptInOrder
    <3> QED BY <3>4
  <2>2. CASE /\ Kept(gone, x, y, i)
             /\ x2 = s /\ Takes(s, c, y2) /\ channel'[x2][y2][j] = c
    <3>1. log'[channel'[x][y][i].id].from = log[channel'[x][y][i].id].from
      BY <2>2, KeptFresh
    <3>2. s \in Beyond(x, y)
      BY <2>0, <2>2, Crossing
    <3> QED BY <2>2, <3>1, <3>2, KeptInLine
  <2>3. CASE /\ x = s /\ Takes(s, c, y) /\ channel'[x][y][i] = c
             /\ Kept(gone, x2, y2, j)
    <3>1. log'[channel'[x2][y2][j].id].from = log[channel'[x2][y2][j].id].from
      BY <2>3, KeptFresh
    <3> QED BY <2>0, <2>3, <3>1, KeptInLine
  <2>4. CASE x = s /\ Takes(s, c, y) /\ x2 = s /\ Takes(s, c, y2)
    <3>1. Edge(s, y) /\ Edge(s, y2) /\ y # y2 /\ y2 \in Beyond(s, y2)
      BY <2>0, <2>4, LinkEnds
    <3>2. y2 \notin Beyond(s, y)
      BY <3>1, LinksPart
    <3> QED BY <2>0, <2>4, <3>2
  <2> QED BY <1>2, <2>1, <2>2, <2>3, <2>4
<1>7. AwayFromHome'
  <2> SUFFICES ASSUME NEW x \in Servers, NEW y \in Servers,
                      NEW i \in 1..Len(channel'[x][y]), Fresh(x, y, i)'
               PROVE  Home[log'[channel'[x][y][i].id].from] \notin Beyond(x, y)
    BY <1>3 DEF AwayFromHome
  <2>1. CASE Kept(gone, x, y, i)
    <3>1. log'[channel'[x][y][i].id].from = log[channel'[x][y][i].id].from
      BY <2>1, KeptFresh
    <3>2. Home[log[channel'[x][y][i].id].from] \notin Beyond(x, y)
      BY <2>1, KeptInOrder
    <3> QED BY <3>1, <3>2
  <2>2. CASE x = s /\ Takes(s, c, y) /\ channel'[x][y][i] = c
    BY <2>2 DEF Outward
  <2> QED BY <1>2, <2>1, <2>2
<1>8. HeardInOrder'
  <2> SUFFICES ASSUME NEW u \in Units, NEW i \in 1..Len(heard'[u]),
                      NEW j \in 1..Len(heard'[u]), i < j,
                      log'[heard'[u][i]].from = log'[heard'[u][j]].from
               PROVE  heard'[u][i] < heard'[u][j]
    BY DEF HeardInOrder
  <2>1. Len(heard[u]) \in Nat
    BY <1>0, LenProperties
  <2>2. CASE j \in 1..Len(heard[u])
    <3>1. /\ i \in 1..Len(heard[u])
          /\ heard'[u][i] = heard[u][i] /\ log'[heard[u][i]] = log[heard[u][i]]
          /\ heard'[u][j] = heard[u][j] /\ log'[heard[u][j]] = log[heard[u][j]]
      BY <1>1, <2>1, <2>2
    <3> QED BY <2>2, <3>1 DEF HeardInOrder
  <2>3. CASE u \in us /\ j = Len(heard[u]) + 1 /\ heard'[u][j] = c.id
    <3>1. /\ i \in 1..Len(heard[u])
          /\ heard'[u][i] = heard[u][i] /\ log'[heard[u][i]] = log[heard[u][i]]
      BY <1>1, <2>1, <2>3
    <3> QED BY <2>3, <3>1 DEF NewestHeard
  <2> QED BY <1>1, <2>2, <2>3
<1> QED BY <1>4, <1>5, <1>6, <1>7, <1>8 DEF NoOvertaking

-----------------------------------------------------------------------------
(* The inductive invariant. *)

OrderInv == RelayInv /\ NoOvertaking /\ HeardInOrder

\* At the start there are no copies and nothing was heard.
LEMMA OrderInit == Init => OrderInv
<1> SUFFICES ASSUME Init PROVE OrderInv
  OBVIOUS
<1>1. /\ \A s, t \in Servers : channel[s][t] = <<>>
      /\ \A u \in Units : heard[u] = <<>>
      /\ Len(<<>>) = 0
  BY DEF Init
<1>2. NoOvertaking /\ HeardInOrder
  BY <1>1 DEF NoOvertaking, HeardEarlier, LinkInOrder, AheadEarlier,
              AwayFromHome, HeardInOrder
<1> QED BY <1>2, RelayInit DEF OrderInv

\* A new message is later than all others, and no copy of an earlier one heads
\* back to its sender's server.
LEMMA PostInOrder ==
  ASSUME OrderInv, TypeOK', NEW u \in Units, NEW kind \in Kinds,
         ParseMessage(u, kind)
  PROVE  NoOvertaking' /\ HeardInOrder'
<1> DEFINE s == Home[u]
           k == Len(log) + 1
           c == Posted(u)
<1>1. TypeOK /\ Frontier /\ NoOvertaking /\ HeardInOrder
  BY DEF OrderInv, RelayInv
<1>2. /\ s \in Servers /\ c \in Copies /\ c.id = k
      /\ Len(log) \in Nat
      /\ Older /\ log'[k].from = u
      /\ KeptOrSent(NoneGone, s, c)
  BY <1>1, PostCopies DEF Older
<1>3. PICK us \in SUBSET Units : Give(k, us) /\ \A v \in us : Home[v] = s
  BY <1>1, PostCopies
<1>4. \A v \in Units : \A n \in 1..Len(heard[v]) : heard[v][n] < k
  BY <1>1, <1>2, HeardInLog
<1>5. \A x, y \in Servers : \A o \in 1..Len(channel[x][y]) :
        channel[x][y][o].id < k
  <2> TAKE x, y \in Servers
  <2> TAKE o \in 1..Len(channel[x][y])
  <2>1. channel[x][y][o].id <= Len(log)
    BY <1>1 DEF Frontier, CopiesOnLinks
  <2>2. channel[x][y][o] \in Copies
    BY <1>1 DEF TypeOK
  <2> QED BY <1>2, <2>1, <2>2, UnitsAssumption DEF Copies
<1>6. \A x, y \in Servers : \A o \in 1..Len(channel[x][y]) :
        Fresh(x, y, o) /\ log[channel[x][y][o].id].from = u
          => s \notin Beyond(x, y)
  BY <1>1 DEF NoOvertaking, AwayFromHome
<1> HIDE DEF k, c
<1>7. NewestHeard(s, c, us)
  BY <1>2, <1>4 DEF NewestHeard
<1>8. InLine(NoneGone, s, c)
  BY <1>2, <1>5, <1>6 DEF InLine
<1>9. Outward(s, c)
  BY <1>2, LinkEnds DEF Outward, Takes
<1>10. Give(c.id, us)
  BY <1>2, <1>3
<1> HIDE DEF s
<1> QED BY <1>1, <1>2, <1>3, <1>7, <1>8, <1>9, <1>10, NothingTaken, OrderStep

\* The copy at the head of a link is behind its predecessors, which were heard
\* at s or are where s sends it, and ahead of its successors.
LEMMA SpreadInOrder ==
  ASSUME OrderInv, TypeOK', NEW s \in Servers, NEW t \in Servers,
         ParseExternalMessage(s, t), ~AlreadyRelayed(s, Head(channel[t][s]))
  PROVE  NoOvertaking' /\ HeardInOrder'
<1> DEFINE k == channel[t][s][1].id
           c == Passed(t, s)
           gone == OneGone(t, s)
<1>1. TypeOK /\ Frontier /\ NoOvertaking /\ HeardInOrder
  BY DEF OrderInv, RelayInv
<1>2. /\ 1 \in 1..Len(channel[t][s]) /\ Fresh(t, s, 1) /\ Edge(t, s)
      /\ log' = log
      /\ c \in Copies /\ c.id = k
      /\ gone \in Offsets /\ KeptOrSent(gone, s, c)
  BY <1>1, SpreadCopies
<1>3. \A w : Takes(s, c, w) => Beyond(s, w) \subseteq Beyond(t, s) \ {s}
  BY <1>1, SpreadCopies
<1>4. PICK us \in SUBSET Units : Give(k, us) /\ \A u \in us : Home[u] = s
  BY <1>1, SpreadCopies
<1>5. gone[t][s] = 1
  BY DEF OneGone
<1>6. s \in Beyond(t, s)
  BY <1>2, LinkEnds
<1>7. Older
  BY <1>2 DEF Older
<1> HIDE DEF c, gone
<1>8. NewestHeard(s, c, us)
  <2> SUFFICES ASSUME NEW u \in Units, NEW n \in 1..Len(heard[u]),
                      \/ u \in us
                      \/ \E w \in Servers :
                           Takes(s, c, w) /\ Home[u] \in Beyond(s, w),
                      log[heard[u][n]].from = log[k].from
               PROVE  heard[u][n] < k
    BY <1>2 DEF NewestHeard
  <2>1. Home[u] \in Beyond(t, s)
    BY <1>3, <1>4, <1>6
  <2> QED BY <1>1, <1>2, <2>1 DEF NoOvertaking, HeardEarlier
<1>9. InLine(gone, s, c)
  <2> SUFFICES ASSUME NEW x \in Servers, NEW y \in Servers,
                      NEW o \in 1..Len(channel[x][y]),
                      gone[x][y] < o, Fresh(x, y, o),
                      log[channel[x][y][o].id].from = log[k].from
               PROVE  /\ s \in Beyond(x, y) => k < channel[x][y][o].id
                      /\ \A w \in Servers : Takes(s, c, w) /\ y \in Beyond(s, w)
                           => channel[x][y][o].id < k
    BY <1>2 DEF InLine
  <2>1. CASE x = t /\ y = s
    <3>1. 1 < o
      BY <1>5, <2>1
    <3>2. k < channel[x][y][o].id
      BY <1>1, <1>2, <2>1, <3>1 DEF NoOvertaking, LinkInOrder
    <3> QED BY <1>3, <2>1, <3>2
  <2>2. CASE <<x, y>> # <<t, s>>
    <3>0. AheadEarlier
      BY <1>1 DEF NoOvertaking
    <3>1. ASSUME s \in Beyond(x, y) PROVE k < channel[x][y][o].id
      BY <1>2, <2>2, <3>0, <3>1 DEF AheadEarlier
    <3>2. ASSUME y \in Beyond(t, s) PROVE channel[x][y][o].id < k
      BY <1>2, <2>2, <3>0, <3>2 DEF AheadEarlier
    <3> QED BY <1>3, <3>1, <3>2
  <2> QED BY <2>1, <2>2
<1>10. Outward(s, c)
  <2>1. Home[log[k].from] \notin Beyond(t, s)
    BY <1>1, <1>2 DEF NoOvertaking, AwayFromHome
  <2> QED BY <1>2, <1>3, <2>1 DEF Outward
<1>11. Give(c.id, us)
  BY <1>2, <1>4
<1> HIDE DEF k
<1> QED BY <1>1, <1>2, <1>4, <1>7, <1>8, <1>9, <1>10, <1>11, OrderStep

\* What a lost link leaves is in order still.
LEMMA OrderNothingSent ==
  ASSUME OrderInv, UNCHANGED <<log, heard>>,
         \A x, y \in Servers :
           channel'[x][y] = channel[x][y] \/ channel'[x][y] = <<>>
  PROVE  NoOvertaking' /\ HeardInOrder'
<1>1. OnlyKept(NoneGone)
  BY NothingLeft DEF OrderInv
<1> QED BY <1>1, NothingTaken, OrderQuiet DEF OrderInv, RelayInv

\* Every step keeps the order.
LEMMA OrderNext == OrderInv /\ [Next]_vars => OrderInv'
<1> SUFFICES ASSUME OrderInv, [Next]_vars PROVE NoOvertaking' /\ HeardInOrder'
  BY RelayNext DEF OrderInv
<1>0. TypeOK'
  BY TypeNext DEF OrderInv, RelayInv
<1>1. ASSUME NEW u \in Units, NEW kind \in Kinds, ParseMessage(u, kind)
      PROVE  NoOvertaking' /\ HeardInOrder'
  BY <1>0, <1>1, PostInOrder
<1>2. ASSUME NEW s \in Servers, NEW t \in Servers, ParseExternalMessage(s, t)
      PROVE  NoOvertaking' /\ HeardInOrder'
  <2>1. CASE AlreadyRelayed(s, Head(channel[t][s]))
    <3>1. /\ channel[t][s] # <<>> /\ channel' = Dequeued(t, s)
          /\ UNCHANGED <<log, heard>>
      BY <1>2, <2>1 DEF ParseExternalMessage
    <3> QED BY <3>1, DropCopies, OrderQuiet DEF OrderInv, RelayInv
  <2>2. CASE ~AlreadyRelayed(s, Head(channel[t][s]))
    BY <1>0, <1>2, <2>2, SpreadInOrder
  <2> QED BY <2>1, <2>2
<1>3. ASSUME NEW s \in Servers, LinkUp(s) PROVE NoOvertaking' /\ HeardInOrder'
  BY <1>3, OrderNothingSent DEF LinkUp
<1>4. ASSUME NEW s \in Servers, LinkDown(s)
      PROVE  NoOvertaking' /\ HeardInOrder'
  <2>1. \A x, y \in Servers :
          channel'[x][y] = channel[x][y] \/ channel'[x][y] = <<>>
    BY <1>4, ServersAssumption DEF LinkDown, OrderInv, RelayInv, TypeOK
  <2> QED BY <1>4, <2>1, OrderNothingSent DEF LinkDown
<1>5. ASSUME NEW u \in Units, Move(u) PROVE NoOvertaking' /\ HeardInOrder'
  BY <1>5, OrderNothingSent DEF Move
<1>6. CASE UNCHANGED vars
  BY <1>6, OrderNothingSent DEF vars
<1> QED BY <1>1, <1>2, <1>3, <1>4, <1>5, <1>6 DEF Next

\* Order is kept by every step, from the start on.
THEOREM OrderInvariant == Spec => []OrderInv
<1> QED BY OrderInit, OrderNext, PTL DEF Spec

\* No copy that will be relayed overtakes an earlier one of its sender, on its
\* link or on any other.
THEOREM NothingOvertakes == Spec => []NoOvertaking
<1>1. OrderInv => NoOvertaking
  BY DEF OrderInv
<1> QED BY <1>1, OrderInvariant, PTL

\* Every unit hears the messages of one sender in the order they were sent,
\* in any forest of servers, with losses but never out of turn.
THEOREM EverybodyHearsInOrder == Spec => []HeardInOrder
<1>1. OrderInv => HeardInOrder
  BY DEF OrderInv
<1> QED BY <1>1, OrderInvariant, PTL
=============================================================================
