----------------------------- MODULE RelayProofs ----------------------------
(* The promise of Broadcast holds for every forest of servers, every set of *)
(* parties and any number of messages, whatever links fail.                 *)
EXTENDS Relay, TLAPS, SequenceTheorems

-----------------------------------------------------------------------------
(* The shape of the tree. *)

\* A link leads from one side of the tree to the other, and has two ends.
LEMMA LinkEnds ==
  ASSUME NEW s \in Servers, NEW t \in Servers, Edge(s, t)
  PROVE  /\ s # t
         /\ t \in Beyond(s, t)
         /\ s \notin Beyond(s, t)
         /\ Edge(t, s)
<1>1. CASE Parent[s] = t
  BY <1>1, ForestAssumption DEF Beyond, Edge
<1>2. CASE Parent[t] = s /\ Parent[s] # t
  BY <1>2, ForestAssumption DEF Beyond, Edge
<1> QED BY <1>1, <1>2 DEF Edge

\* What is beyond the next link is beyond this one, but for the server between.
LEMMA LinkNext ==
  ASSUME NEW s \in Servers, NEW t \in Servers, NEW w \in Servers,
         Edge(s, t), Edge(t, w), w # s
  PROVE  Beyond(t, w) \subseteq Beyond(s, t) \ {t}
<1>0. Parent[s] # None \/ Parent[t] = s
  BY ServersAssumption DEF Edge
<1>1. t \notin Beyond(t, w)
  BY LinkEnds
<1>2. CASE Parent[s] = t
  <2>1. CASE Parent[t] = w
    BY <1>1, <1>2, <2>1, ForestAssumption DEF Beyond
  <2>2. CASE Parent[t] # w
    <3>1. Parent[w] = t /\ t # None
      BY <2>2, ServersAssumption DEF Edge
    <3>2. Below[w] \cap Below[s] = {} /\ Below[w] \subseteq Servers
      BY <1>2, <3>1, ForestAssumption
    <3> QED BY <1>1, <1>2, <2>2, <3>2 DEF Beyond
  <2> QED BY <2>1, <2>2
<1>3. CASE Parent[s] # t
  <2>1. Parent[t] = s
    BY <1>3 DEF Edge
  <2>2. Parent[w] = t /\ Parent[t] # w
    BY <2>1 DEF Edge
  <2>3. Below[w] \subseteq Below[t]
    BY <2>2, ForestAssumption
  <2> QED BY <1>1, <1>3, <2>2, <2>3 DEF Beyond
<1> QED BY <1>2, <1>3

\* Different links of a server lead to different parts of the tree.
LEMMA LinksPart ==
  ASSUME NEW t \in Servers, NEW v \in Servers, NEW w \in Servers,
         Edge(t, v), Edge(t, w), v # w
  PROVE  Beyond(t, v) \cap Beyond(t, w) = {}
<1>1. Edge(v, t)
  BY LinkEnds
<1>2. CASE Parent[t] = v
  <2>1. Parent[w] = t /\ Parent[t] # w
    BY <1>2 DEF Edge
  <2>2. Below[w] \subseteq Below[t]
    BY <2>1, ForestAssumption
  <2> QED BY <1>2, <2>1, <2>2 DEF Beyond
<1>3. CASE Parent[t] = w
  <2>1. Parent[v] = t /\ Parent[t] # v
    BY <1>3 DEF Edge
  <2>2. Below[v] \subseteq Below[t]
    BY <2>1, ForestAssumption
  <2> QED BY <1>3, <2>1, <2>2 DEF Beyond
<1>4. CASE Parent[t] # v /\ Parent[t] # w
  <2>1. Parent[v] = t /\ Parent[w] = t /\ t # None
    BY <1>4, ServersAssumption DEF Edge
  <2>2. Below[v] \cap Below[w] = {}
    BY <2>1, ForestAssumption
  <2> QED BY <1>4, <2>2 DEF Beyond
<1> QED BY <1>2, <1>3, <1>4

-----------------------------------------------------------------------------
(* What the helpers do. *)

Channels == [Servers -> [Servers -> Seq(Copies)]]

\* A forwarded copy ends up behind the others on the links to the targets.
LEMMA Forwarded ==
  ASSUME NEW q \in Channels, NEW s \in Servers, NEW targets, NEW c \in Copies
  PROVE  /\ Forward(q, s, targets, c) \in Channels
         /\ \A x, y \in Servers :
              Forward(q, s, targets, c)[x][y] =
                IF x = s /\ y \in targets THEN Append(q[x][y], c) ELSE q[x][y]
BY DEF Forward, Enqueue, Channels

\* Reading a copy takes the first one from its link.
LEMMA Read ==
  ASSUME TypeOK, NEW t \in Servers, NEW s \in Servers, channel[t][s] # <<>>
  PROVE  /\ Head(channel[t][s]) = channel[t][s][1]
         /\ Head(channel[t][s]) \in Copies
         /\ Len(channel[t][s]) \in Nat /\ 1 \in 1..Len(channel[t][s])
         /\ Dequeued(t, s) \in Channels
         /\ \A x, y \in Servers :
              Dequeued(t, s)[x][y] =
                IF x = t /\ y = s THEN Tail(channel[t][s]) ELSE channel[x][y]
<1>1. channel[t][s] \in Seq(Copies) /\ Tail(channel[t][s]) \in Seq(Copies)
  BY HeadTailProperties DEF TypeOK
<1>2. Len(channel[t][s]) \in Nat /\ Len(channel[t][s]) # 0
  BY <1>1, EmptySeq, LenProperties
<1> QED BY <1>1, <1>2 DEF TypeOK, Dequeued, Channels

\* A message is handed to units by appending its id to what they heard.
LEMMA Given ==
  ASSUME TypeOK, NEW k \in 1..MaxMessages, NEW us, Give(k, us)
  PROVE  /\ heard' \in [Units -> Seq(1..MaxMessages)]
         /\ \A u \in Units :
              heard'[u] = IF u \in us THEN Append(heard[u], k) ELSE heard[u]
<1>1. \A u \in Units : heard[u] \in Seq(1..MaxMessages)
  BY DEF TypeOK
<1>2. \A u \in Units : Append(heard[u], k) \in Seq(1..MaxMessages)
  BY <1>1, AppendProperties
<1> QED BY <1>1, <1>2 DEF Give

\* Giving message k to some units adds k to what they have heard, and no more.
LEMMA HeardAfterGive ==
  ASSUME TypeOK, NEW k \in 1..MaxMessages, NEW us, Give(k, us),
         NEW u \in Units, NEW n
  PROVE  HasHeard(u, n)' <=> HasHeard(u, n) \/ (u \in us /\ n = k)
<1>1. heard[u] \in Seq(1..MaxMessages)
  BY DEF TypeOK
<1>2. CASE u \in us
  <2>1. heard'[u] = Append(heard[u], k)
    BY <1>2, Given
  <2>2. /\ Len(heard'[u]) = Len(heard[u]) + 1
        /\ \A i \in 1..Len(heard[u]) : heard'[u][i] = heard[u][i]
        /\ heard'[u][Len(heard[u]) + 1] = k
        /\ Len(heard[u]) \in Nat
    BY <1>1, <2>1
  <2> QED BY <1>2, <2>2 DEF HasHeard
<1>3. CASE u \notin us
  BY <1>3, Given DEF HasHeard
<1> QED BY <1>2, <1>3

-----------------------------------------------------------------------------
(* Type correctness. *)

\* At the start the links and the log are empty.
LEMMA TypeInit == Init => TypeOK
<1> SUFFICES ASSUME Init PROVE TypeOK
  OBVIOUS
<1>1. channel \in Channels
  BY DEF Init, Channels
<1>2. heard \in [Units -> Seq(1..MaxMessages)] /\ log \in Seq(Posts)
  BY DEF Init
<1> QED BY <1>1, <1>2 DEF Init, TypeOK, Channels

\* What a party sends, and the copy of it that leaves its server.
LEMMA SentTyped ==
  ASSUME TypeOK, NEW u \in Units, NEW kind \in Kinds, Len(log) < MaxMessages
  PROVE  /\ [from |-> u, kind |-> kind, room |-> GroupOf(u)] \in Posts
         /\ Len(log) + 1 \in 1..MaxMessages
         /\ [id |-> Len(log) + 1, path |-> PathWith({}, Home[u])] \in Copies
<1>1. GroupOf(u) \in Rooms \cup {None}
  BY DEF GroupOf, Room, Rooms
<1>2. Len(log) \in Nat
  BY LenProperties DEF TypeOK
<1>3. PathWith({}, Home[u]) \in SUBSET Ids
  BY ServersAssumption, UnitsAssumption DEF PathWith
<1> QED BY <1>1, <1>2, <1>3, UnitsAssumption DEF Posts, Copies

\* The copy that a server passes on.
LEMMA PassedTyped ==
  ASSUME NEW c \in Copies, NEW s \in Servers
  PROVE  /\ [c EXCEPT !.path = PathWith(@, s)] \in Copies
         /\ [c EXCEPT !.path = PathWith(@, s)].id = c.id
         /\ [c EXCEPT !.path = PathWith(@, s)].path = c.path \cup {ServerId[s]}
BY ServersAssumption DEF Copies, PathWith

\* Every step keeps the types.
LEMMA TypeNext == TypeOK /\ [Next]_vars => TypeOK'
<1> SUFFICES ASSUME TypeOK, [Next]_vars PROVE TypeOK'
  OBVIOUS
<1>1. ASSUME NEW u \in Units, NEW kind \in Kinds, ParseMessage(u, kind)
      PROVE  TypeOK'
  <2> DEFINE m == [from |-> u, kind |-> kind, room |-> GroupOf(u)]
             c == [id |-> Len(log) + 1, path |-> PathWith({}, Home[u])]
  <2>1. m \in Posts /\ c \in Copies /\ Len(log) + 1 \in 1..MaxMessages
    BY <1>1, SentTyped DEF ParseMessage
  <2>2. log' = Append(log, m)
    BY <1>1 DEF ParseMessage
  <2>3. log' \in Seq(Posts)
    BY <2>1, <2>2 DEF TypeOK
  <2>4. PICK us : Give(Len(log) + 1, us)
    BY <1>1 DEF ParseMessage
  <2>5. heard' \in [Units -> Seq(1..MaxMessages)]
    BY <2>1, <2>4, Given
  <2>6. \/ channel' = channel
        \/ channel' = Forward(channel, Home[u],
                              ForwardTargets(Home[u], None), c)
    BY <1>1 DEF ParseMessage
  <2>7. channel \in Channels /\ Home[u] \in Servers
    BY UnitsAssumption DEF TypeOK, Channels
  <2>8. channel' \in Channels
    BY <2>1, <2>6, <2>7, Forwarded
  <2>9. UNCHANGED <<standing, up>>
    BY <1>1 DEF ParseMessage
  <2> QED BY <2>3, <2>5, <2>8, <2>9 DEF TypeOK, Channels
<1>2. ASSUME NEW s \in Servers, NEW t \in Servers, ParseExternalMessage(s, t)
      PROVE  TypeOK'
  <2> DEFINE c == Head(channel[t][s])
             c2 == [c EXCEPT !.path = PathWith(@, s)]
  <2>1. channel[t][s] # <<>> /\ UNCHANGED <<standing, up, log>>
    BY <1>2 DEF ParseExternalMessage
  <2>2. c \in Copies /\ Dequeued(t, s) \in Channels
    BY <2>1, Read
  <2>3. c.id \in 1..MaxMessages /\ c2 \in Copies
    BY <2>2, PassedTyped DEF Copies
  <2>4. heard' = heard \/ \E us : Give(c.id, us)
    BY <1>2 DEF ParseExternalMessage
  <2>5. heard' \in [Units -> Seq(1..MaxMessages)]
    BY <2>3, <2>4, Given DEF TypeOK
  <2>6. \/ channel' = Dequeued(t, s)
        \/ channel' = Forward(Dequeued(t, s), s, ForwardTargets(s, t), c2)
    BY <1>2 DEF ParseExternalMessage
  <2>7. channel' \in Channels
    BY <2>2, <2>3, <2>6, Forwarded
  <2> QED BY <2>1, <2>5, <2>7 DEF TypeOK, Channels
<1>3. ASSUME NEW s \in Servers, LinkUp(s) PROVE TypeOK'
  BY <1>3 DEF LinkUp, TypeOK
<1>4. ASSUME NEW s \in Servers, LinkDown(s) PROVE TypeOK'
  <2>0. Parent[s] \in Servers /\ channel \in Channels
    BY <1>4, ServersAssumption DEF LinkDown, TypeOK, Channels
  <2>1. channel' \in Channels
    BY <1>4, <2>0, EmptySeq DEF LinkDown, Channels
  <2> QED BY <1>4, <2>1 DEF LinkDown, TypeOK, Channels
<1>5. ASSUME NEW u \in Units, Move(u) PROVE TypeOK'
  BY <1>5 DEF Move, TypeOK
<1>6. CASE UNCHANGED vars
  BY <1>6 DEF vars, TypeOK
<1> QED BY <1>1, <1>2, <1>3, <1>4, <1>5, <1>6 DEF Next

\* Type correctness: links hold copies with a path of server ids, and parties
\* hear ids of messages that the bound allows.
THEOREM RelayTypeCorrect == Spec => []TypeOK
<1> QED BY TypeInit, TypeNext, PTL DEF Spec

-----------------------------------------------------------------------------
(* The frontier.  Two lemmas say what keeps it: a step that only removes   *)
(* copies, and a step in which one server passes a message on.              *)

\* How many copies are taken from the front of each link.
Offsets == [Servers -> [Servers -> Nat]]

\* Copy i on the link from x to y was there before, behind those taken.
Kept(gone, x, y, i) ==
  /\ i + gone[x][y] \in 1..Len(channel[x][y])
  /\ channel'[x][y][i] = channel[x][y][i + gone[x][y]]

\* Copy i on the link from x to y is c, just sent by s.
Sent(s, c, x, y, i) ==
  /\ x = s /\ Edge(s, y)
  /\ i = Len(channel'[x][y]) /\ channel'[x][y][i] = c

OnlyKept(gone) ==
  \A x, y \in Servers : \A i \in 1..Len(channel'[x][y]) : Kept(gone, x, y, i)

KeptOrSent(gone, s, c) ==
  \A x, y \in Servers : \A i \in 1..Len(channel'[x][y]) :
    Kept(gone, x, y, i) \/ Sent(s, c, x, y, i)

\* The neighbours of s that would relay c.
Takes(s, c, w) == w \in Servers /\ Edge(s, w) /\ ServerId[w] \notin c.path

\* No other fresh copy of the message heads for s or for where s sends it.
Alone(gone, s, c) ==
  \A x, y \in Servers : \A o \in 1..Len(channel[x][y]) :
    gone[x][y] < o /\ Fresh(x, y, o) /\ channel[x][y][o].id = c.id
      => /\ s \notin Beyond(x, y)
         /\ \A w \in Servers :
              Takes(s, c, w) => Beyond(x, y) \cap Beyond(s, w) = {}

\* Nobody has heard the message where s sends it.
NewBeyond(s, c) ==
  \A w \in Servers, u \in Units :
    Takes(s, c, w) /\ Home[u] \in Beyond(s, w) => ~HasHeard(u, c.id)

\* A copy that a step keeps is the one that was there, nearer to the head.
LEMMA KeptCopy ==
  ASSUME TypeOK, NEW gone \in Offsets, NEW x \in Servers, NEW y \in Servers,
         NEW i \in 1..Len(channel'[x][y]), Kept(gone, x, y, i)
  PROVE  /\ i + gone[x][y] \in 1..Len(channel[x][y])
         /\ gone[x][y] < i + gone[x][y]
         /\ channel'[x][y][i] = channel[x][y][i + gone[x][y]]
         /\ channel'[x][y][i].id \in Nat
         /\ Fresh(x, y, i)' => Fresh(x, y, i + gone[x][y])
<1>1. gone[x][y] \in Nat /\ channel[x][y] \in Seq(Copies)
  BY DEF Offsets, TypeOK
<1>2. channel[x][y][i + gone[x][y]] \in Copies
  BY <1>1 DEF Kept
<1>3. \A c \in Copies : c.id \in Nat
  BY UnitsAssumption DEF Copies
<1> QED BY <1>1, <1>2, <1>3 DEF Kept, Fresh

\* What the frontier says of the copies that stay.
LEMMA KeptAhead ==
  ASSUME TypeOK, Frontier, NEW gone \in Offsets,
         NEW x \in Servers, NEW y \in Servers,
         NEW i \in 1..Len(channel'[x][y]), Kept(gone, x, y, i)
  PROVE  /\ Edge(x, y)
         /\ ServerId[x] \in channel'[x][y][i].path
         /\ channel'[x][y][i].id <= Len(log)
         /\ Fresh(x, y, i)' => \A u \in Units :
              Home[u] \in Beyond(x, y) => ~HasHeard(u, channel'[x][y][i].id)
<1> DEFINE o == i + gone[x][y]
<1>1. /\ o \in 1..Len(channel[x][y])
      /\ channel'[x][y][i] = channel[x][y][o]
      /\ Fresh(x, y, i)' => Fresh(x, y, o)
  BY KeptCopy
<1> HIDE DEF o
<1>2. /\ Edge(x, y) /\ ServerId[x] \in channel[x][y][o].path
      /\ channel[x][y][o].id <= Len(log)
  BY <1>1 DEF Frontier, CopiesOnLinks
<1>3. Fresh(x, y, o) => \A u \in Units :
        Home[u] \in Beyond(x, y) => ~HasHeard(u, channel[x][y][o].id)
  BY <1>1 DEF Frontier, NewsAhead
<1> QED BY <1>1, <1>2, <1>3

\* Two fresh copies that a step keeps still head for different parts.
LEMMA KeptApart ==
  ASSUME TypeOK, Frontier, NEW gone \in Offsets,
         NEW x \in Servers, NEW y \in Servers,
         NEW x2 \in Servers, NEW y2 \in Servers,
         NEW i \in 1..Len(channel'[x][y]), Kept(gone, x, y, i),
         NEW j \in 1..Len(channel'[x2][y2]), Kept(gone, x2, y2, j),
         Fresh(x, y, i)', Fresh(x2, y2, j)',
         channel'[x][y][i].id = channel'[x2][y2][j].id,
         <<x, y, i>> # <<x2, y2, j>>
  PROVE  Beyond(x, y) \cap Beyond(x2, y2) = {}
<1> DEFINE o == i + gone[x][y]
           p == j + gone[x2][y2]
<1>1. /\ o \in 1..Len(channel[x][y]) /\ Fresh(x, y, o)
      /\ channel'[x][y][i] = channel[x][y][o]
  BY KeptCopy
<1>2. /\ p \in 1..Len(channel[x2][y2]) /\ Fresh(x2, y2, p)
      /\ channel'[x2][y2][j] = channel[x2][y2][p]
  BY KeptCopy
<1>3. <<x, y, o>> # <<x2, y2, p>>
  BY DEF Offsets
<1>4. channel[x][y][o].id = channel[x2][y2][p].id
  BY <1>1, <1>2
<1> HIDE DEF o, p
<1> QED BY <1>1, <1>2, <1>3, <1>4 DEF Frontier, FreshApart

\* A copy that a step keeps heads for another part than the copy c that is sent.
LEMMA KeptAlone ==
  ASSUME TypeOK, NEW gone \in Offsets, NEW s \in Servers, NEW c,
         Alone(gone, s, c), NEW x \in Servers, NEW y \in Servers,
         NEW i \in 1..Len(channel'[x][y]), Kept(gone, x, y, i),
         Fresh(x, y, i)', channel'[x][y][i].id = c.id
  PROVE  /\ s \notin Beyond(x, y)
         /\ \A w \in Servers :
              Takes(s, c, w) => Beyond(x, y) \cap Beyond(s, w) = {}
<1> DEFINE o == i + gone[x][y]
<1>1. /\ o \in 1..Len(channel[x][y]) /\ gone[x][y] < o /\ Fresh(x, y, o)
      /\ channel'[x][y][i] = channel[x][y][o]
  BY KeptCopy
<1> HIDE DEF o
<1> QED BY <1>1 DEF Alone

\* A step that only removes copies keeps the frontier.
LEMMA FrontierQuiet ==
  ASSUME TypeOK, Frontier, HeardOnce, UNCHANGED <<log, heard>>,
         NEW gone \in Offsets, OnlyKept(gone)
  PROVE  Frontier' /\ HeardOnce'
<1>0. ASSUME NEW x \in Servers, NEW y \in Servers,
             NEW i \in 1..Len(channel'[x][y])
      PROVE  Kept(gone, x, y, i)
  BY DEF OnlyKept
<1>1. CopiesOnLinks'
  <2>1. ASSUME NEW x \in Servers, NEW y \in Servers,
               NEW i \in 1..Len(channel'[x][y])
        PROVE  /\ Edge(x, y)
               /\ ServerId[x] \in channel'[x][y][i].path
               /\ channel'[x][y][i].id <= Len(log)
    BY <1>0, KeptAhead
  <2>2. \A u \in Units : \A i \in 1..Len(heard[u]) : heard[u][i] <= Len(log)
    BY DEF Frontier, CopiesOnLinks
  <2> QED BY <2>1, <2>2 DEF CopiesOnLinks, Edge
<1>2. NewsAhead'
  <2> SUFFICES ASSUME NEW x \in Servers, NEW y \in Servers,
                      NEW i \in 1..Len(channel'[x][y]), NEW u \in Units,
                      Fresh(x, y, i)', (Home[u] \in Beyond(x, y))'
               PROVE  ~HasHeard(u, channel[x][y][i].id)'
    BY DEF NewsAhead
  <2>1. Home[u] \in Beyond(x, y)
    BY DEF Beyond
  <2>2. HasHeard(u, channel[x][y][i].id)'
          <=> HasHeard(u, channel'[x][y][i].id)
    BY DEF HasHeard
  <2> QED BY <1>0, <2>1, <2>2, KeptAhead
<1>3. FreshApart'
  <2> SUFFICES ASSUME NEW x \in Servers, NEW y \in Servers,
                      NEW x2 \in Servers, NEW y2 \in Servers,
                      NEW i \in 1..Len(channel'[x][y]),
                      NEW j \in 1..Len(channel'[x2][y2]),
                      Fresh(x, y, i)', Fresh(x2, y2, j)',
                      channel'[x][y][i].id = channel'[x2][y2][j].id,
                      <<x, y, i>> # <<x2, y2, j>>
               PROVE  (Beyond(x, y) \cap Beyond(x2, y2) = {})'
    BY DEF FreshApart
  <2>1. Beyond(x, y)' = Beyond(x, y) /\ Beyond(x2, y2)' = Beyond(x2, y2)
    BY DEF Beyond
  <2> QED BY <1>0, <2>1, KeptApart
<1>4. HeardOnce'
  BY DEF HeardOnce
<1> QED BY <1>1, <1>2, <1>3, <1>4 DEF Frontier

\* s gives message c.id to units of its own that have not heard it, and sends
\* copies c to neighbours.
LEMMA FrontierStep ==
  ASSUME TypeOK, Frontier, HeardOnce,
         NEW gone \in Offsets, NEW s \in Servers, NEW c \in Copies,
         NEW us \in SUBSET Units, Give(c.id, us),
         \A u \in us : Home[u] = s /\ ~HasHeard(u, c.id),
         ServerId[s] \in c.path,
         Len(log') \in Nat, Len(log) <= Len(log'), c.id <= Len(log'),
         KeptOrSent(gone, s, c), Alone(gone, s, c), NewBeyond(s, c)
  PROVE  Frontier' /\ HeardOnce'
<1>0. /\ c.id \in 1..MaxMessages /\ c.id \in Nat
      /\ Len(log) \in Nat
      /\ \A u \in Units : heard[u] \in Seq(1..MaxMessages)
  BY LenProperties, UnitsAssumption DEF TypeOK, Copies
<1>1. ASSUME NEW u \in us
      PROVE  /\ Len(heard[u]) \in Nat
             /\ Len(heard'[u]) = Len(heard[u]) + 1
             /\ \A i \in 1..Len(heard[u]) : heard'[u][i] = heard[u][i]
             /\ heard'[u][Len(heard[u]) + 1] = c.id
  <2>1. heard'[u] = Append(heard[u], c.id) /\ heard[u] \in Seq(1..MaxMessages)
    BY <1>0, Given
  <2> QED BY <1>0, <2>1, AppendProperties, LenProperties
<1>2. ASSUME NEW u \in Units, u \notin us PROVE heard'[u] = heard[u]
  BY <1>0, <1>2, Given
<1>3. ASSUME NEW u \in Units, NEW n, HasHeard(u, n)'
      PROVE  HasHeard(u, n) \/ (u \in us /\ n = c.id)
  BY <1>0, <1>3, HeardAfterGive
<1>4. ASSUME NEW x \in Servers, NEW y \in Servers,
             NEW i \in 1..Len(channel'[x][y])
      PROVE  Kept(gone, x, y, i) \/ Sent(s, c, x, y, i)
  BY DEF KeptOrSent
<1>5. ASSUME NEW x \in Servers, NEW y \in Servers,
             NEW i \in 1..Len(channel'[x][y]), Sent(s, c, x, y, i)
      PROVE  /\ x = s /\ Edge(s, y) /\ i = Len(channel'[x][y])
             /\ channel'[x][y][i] = c
             /\ Fresh(x, y, i)' => Takes(s, c, y)
  BY <1>5 DEF Sent, Fresh, Takes
<1>6. CopiesOnLinks'
  <2>1. ASSUME NEW x \in Servers, NEW y \in Servers,
               NEW i \in 1..Len(channel'[x][y])
        PROVE  /\ Edge(x, y)
               /\ ServerId[x] \in channel'[x][y][i].path
               /\ channel'[x][y][i].id <= Len(log')
    <3>1. CASE Kept(gone, x, y, i)
      <4>1. /\ Edge(x, y) /\ ServerId[x] \in channel'[x][y][i].path
            /\ channel'[x][y][i].id <= Len(log)
        BY <3>1, KeptAhead
      <4>2. channel'[x][y][i].id \in Nat
        BY <3>1, KeptCopy
      <4> QED BY <1>0, <4>1, <4>2
    <3>2. CASE Sent(s, c, x, y, i)
      BY <1>5, <3>2
    <3> QED BY <1>4, <3>1, <3>2
  <2>2. ASSUME NEW u \in Units, NEW i \in 1..Len(heard'[u])
        PROVE  heard'[u][i] <= Len(log')
    <3>1. \A k \in 1..Len(heard[u]) : heard[u][k] <= Len(log)
      BY DEF Frontier, CopiesOnLinks
    <3>0. \A k \in 1..Len(heard[u]) : heard[u][k] \in 1..MaxMessages
      BY <1>0, ElementOfSeq
    <3>2. CASE u \in us
      <4>1. i \in 1..Len(heard[u]) \/ i = Len(heard[u]) + 1
        BY <1>1, <3>2
      <4>2. CASE i \in 1..Len(heard[u])
        <5>1. heard'[u][i] = heard[u][i] /\ heard[u][i] <= Len(log)
          BY <1>1, <3>1, <3>2, <4>2
        <5>2. heard[u][i] \in Nat
          BY <3>0, <4>2, UnitsAssumption
        <5> QED BY <1>0, <5>1, <5>2
      <4>3. CASE i = Len(heard[u]) + 1
        BY <1>1, <3>2, <4>3
      <4> QED BY <4>1, <4>2, <4>3
    <3>3. CASE u \notin us
      <4>1. heard'[u][i] <= Len(log) /\ heard'[u][i] \in 1..MaxMessages
        BY <1>2, <3>0, <3>1, <3>3
      <4> QED BY <1>0, <4>1, UnitsAssumption
    <3> QED BY <3>2, <3>3
  <2> QED BY <2>1, <2>2 DEF CopiesOnLinks, Edge
<1>7. NewsAhead'
  <2> SUFFICES ASSUME NEW x \in Servers, NEW y \in Servers,
                      NEW i \in 1..Len(channel'[x][y]), NEW u \in Units,
                      Fresh(x, y, i)', (Home[u] \in Beyond(x, y))'
               PROVE  ~HasHeard(u, channel[x][y][i].id)'
    BY DEF NewsAhead
  <2>0. Home[u] \in Beyond(x, y)
    BY DEF Beyond
  <2>1. CASE Kept(gone, x, y, i)
    <3>1. ~HasHeard(u, channel'[x][y][i].id)
      BY <2>0, <2>1, KeptAhead
    <3>2. channel'[x][y][i].id = c.id => s \notin Beyond(x, y)
      BY <2>1, KeptAlone
    <3> QED BY <1>3, <2>0, <3>1, <3>2
  <2>2. CASE Sent(s, c, x, y, i)
    <3>1. /\ x = s /\ Edge(s, y) /\ channel'[x][y][i] = c
          /\ Takes(s, c, y)
      BY <1>5, <2>2
    <3>2. ~HasHeard(u, c.id)
      BY <3>1 DEF NewBeyond
    <3>3. u \notin us
      BY <3>1, LinkEnds
    <3> QED BY <1>3, <3>1, <3>2, <3>3
  <2> QED BY <1>4, <2>1, <2>2
<1>8. FreshApart'
  <2> SUFFICES ASSUME NEW x \in Servers, NEW y \in Servers,
                      NEW x2 \in Servers, NEW y2 \in Servers,
                      NEW i \in 1..Len(channel'[x][y]),
                      NEW j \in 1..Len(channel'[x2][y2]),
                      Fresh(x, y, i)', Fresh(x2, y2, j)',
                      channel'[x][y][i].id = channel'[x2][y2][j].id,
                      <<x, y, i>> # <<x2, y2, j>>
               PROVE  (Beyond(x, y) \cap Beyond(x2, y2) = {})'
    BY SMTT(60) DEF FreshApart
  <2>0. Beyond(x, y)' = Beyond(x, y) /\ Beyond(x2, y2)' = Beyond(x2, y2)
    BY DEF Beyond
  <2>1. CASE Kept(gone, x, y, i) /\ Kept(gone, x2, y2, j)
    BY <2>0, <2>1, KeptApart
  <2>2. CASE Kept(gone, x, y, i) /\ Sent(s, c, x2, y2, j)
    <3>1. x2 = s /\ channel'[x2][y2][j] = c /\ Takes(s, c, y2)
      BY <1>5, <2>2
    <3>2. Beyond(x, y) \cap Beyond(s, y2) = {}
      BY <2>2, <3>1, KeptAlone
    <3> QED BY <2>0, <3>1, <3>2
  <2>3. CASE Sent(s, c, x, y, i) /\ Kept(gone, x2, y2, j)
    <3>1. x = s /\ channel'[x][y][i] = c /\ Takes(s, c, y)
      BY <1>5, <2>3
    <3>2. Beyond(x2, y2) \cap Beyond(s, y) = {}
      BY <2>3, <3>1, KeptAlone
    <3> QED BY <2>0, <3>1, <3>2
  <2>4. CASE Sent(s, c, x, y, i) /\ Sent(s, c, x2, y2, j)
    <3>1. x = s /\ x2 = s /\ Edge(s, y) /\ Edge(s, y2) /\ y # y2
      BY <1>5, <2>4
    <3> QED BY <2>0, <3>1, LinksPart
  <2> QED BY <1>4, <2>1, <2>2, <2>3, <2>4
<1>9. HeardOnce'
  <2> SUFFICES ASSUME NEW u \in Units, NEW i \in 1..Len(heard'[u]),
                      NEW j \in 1..Len(heard'[u]), heard'[u][i] = heard'[u][j]
               PROVE  i = j
    BY DEF HeardOnce
  <2>1. \A k, l \in 1..Len(heard[u]) : heard[u][k] = heard[u][l] => k = l
    BY DEF HeardOnce
  <2>2. CASE u \notin us
    BY <1>2, <2>1, <2>2
  <2>3. CASE u \in us
    <3>1. \A k \in 1..Len(heard[u]) : heard[u][k] # c.id
      BY <2>3 DEF HasHeard
    <3>2. /\ Len(heard[u]) \in Nat
          /\ Len(heard'[u]) = Len(heard[u]) + 1
          /\ \A k \in 1..Len(heard[u]) : heard'[u][k] = heard[u][k]
          /\ heard'[u][Len(heard[u]) + 1] = c.id
      BY <1>1, <2>3
    <3>3. \A k \in 1..Len(heard'[u]) :
            k \in 1..Len(heard[u]) \/ k = Len(heard[u]) + 1
      BY <3>2
    <3>4. heard'[u][i] = heard'[u][j]
      OBVIOUS
    <3> QED BY <2>1, <3>1, <3>2, <3>3, <3>4
  <2> QED BY <2>2, <2>3
<1> QED BY <1>6, <1>7, <1>8, <1>9 DEF Frontier

-----------------------------------------------------------------------------
(* Who hears a message at one server. *)

\* Who hears a message on its sender's server belongs to its audience.
LEMMA LocalAudience ==
  ASSUME NEW u \in Units, NEW kind \in Kinds, ParseMessage(u, kind),
         [from |-> u, kind |-> kind, room |-> GroupOf(u)] \in Posts
  PROVE  \E us \in SUBSET Units :
           /\ Give(Len(log) + 1, us)
           /\ \A v \in us : Home[v] = Home[u]
           /\ us \subseteq
                Audience[[from |-> u, kind |-> kind, room |-> GroupOf(u)]]
<1> DEFINE m == [from |-> u, kind |-> kind, room |-> GroupOf(u)]
           us == IF standing[u] # "member" THEN {}
                 ELSE IF kind \in Broadcasts
                 THEN fn_broadcast(Members(Home[u], Room(u)), m, LocalTypes(m))
                 ELSE {v \in Members(Home[u], Room(u)) : Name[v] = kind}
<1>1. Give(Len(log) + 1, us)
  BY DEF ParseMessage
<1>2. /\ us \subseteq Units
      /\ \A v \in us : Home[v] = Home[u]
      /\ kind \in Broadcasts => \A v \in us :
           Name[v] # Name[u] /\ ActorType[v] \in LocalTypes(m)
      /\ kind \notin Broadcasts => \A v \in us : Name[v] = kind
  BY DEF Members, fn_broadcast
<1>3. \A v \in Units : ActorType[v] \in LocalTypes(m)
                         => ActorType[v] \in ExternalTypes(m)
  BY DEF LocalTypes, ExternalTypes, AnyType
<1>4. Audience[m] = IF kind \in Broadcasts
                    THEN {v \in Units : Name[v] # Name[u]
                                          /\ ActorType[v] \in ExternalTypes(m)}
                    ELSE {v \in Units : Name[v] = kind}
  BY DEF Audience
<1> HIDE DEF us, m
<1>5. us \subseteq Audience[m]
  BY <1>2, <1>3, <1>4
<1> QED BY <1>1, <1>2, <1>5 DEF m

\* Who hears a message on another server belongs to its audience.
LEMMA ExternalAudience ==
  ASSUME NEW s \in Servers, NEW m \in Posts
  PROVE  /\ ExternalRecipients(s, m) \subseteq Units
         /\ \A u \in ExternalRecipients(s, m) : Home[u] = s
         /\ ExternalRecipients(s, m) \subseteq Audience[m]
<1>1. CASE m.kind \in Broadcasts
  <2>1. \A u \in Scope(s, m.room) : u \in Units /\ Home[u] = s
    BY DEF Scope, Members, AllMembers
  <2> QED BY <1>1, <2>1 DEF ExternalRecipients, fn_broadcast, Audience
<1>2. CASE m.kind \notin Broadcasts
  <2>1. \A u \in IndividualHere(s, m) :
          u \in Units /\ Home[u] = s /\ Name[u] = m.kind
    BY DEF IndividualHere, Active
  <2> QED BY <1>2, <2>1 DEF ExternalRecipients, Audience
<1> QED BY <1>1, <1>2

-----------------------------------------------------------------------------
(* The inductive invariant. *)

RelayInv == TypeOK /\ Frontier /\ HeardOnce

NoneGone == [x \in Servers |-> [y \in Servers |-> 0]]

\* A step that takes nothing is described by NoneGone.
LEMMA NothingTaken ==
  /\ NoneGone \in Offsets
  /\ \A x, y \in Servers : NoneGone[x][y] = 0
BY DEF NoneGone, Offsets

\* At the start nobody has heard anything and nothing is on its way.
LEMMA RelayInit == Init => RelayInv
<1> SUFFICES ASSUME Init PROVE RelayInv
  OBVIOUS
<1>1. /\ \A s, t \in Servers : channel[s][t] = <<>>
      /\ \A u \in Units : heard[u] = <<>>
      /\ Len(<<>>) = 0
  BY DEF Init
<1>2. Frontier /\ HeardOnce
  BY <1>1 DEF Frontier, CopiesOnLinks, NewsAhead, FreshApart, HeardOnce
<1> QED BY <1>2, TypeInit DEF RelayInv

\* A step that sends nothing and takes nothing but what a link loses.
LEMMA NothingLeft ==
  ASSUME RelayInv,
         \A x, y \in Servers :
           channel'[x][y] = channel[x][y] \/ channel'[x][y] = <<>>
  PROVE  OnlyKept(NoneGone)
<1> SUFFICES ASSUME NEW x \in Servers, NEW y \in Servers,
                    NEW i \in 1..Len(channel'[x][y])
             PROVE  Kept(NoneGone, x, y, i)
  BY DEF OnlyKept
<1>1. channel'[x][y] = channel[x][y]
  BY EmptySeq
<1>2. Len(channel[x][y]) \in Nat
  BY LenProperties DEF RelayInv, TypeOK
<1> QED BY <1>1, <1>2, NothingTaken DEF Kept

\* A step that at most empties links keeps the frontier.
LEMMA NothingSent ==
  ASSUME RelayInv, UNCHANGED <<log, heard>>,
         \A x, y \in Servers :
           channel'[x][y] = channel[x][y] \/ channel'[x][y] = <<>>
  PROVE  Frontier' /\ HeardOnce'
BY NothingLeft, NothingTaken, FrontierQuiet DEF RelayInv

\* The copy of its message that leaves the sender's server.
Posted(u) == [id |-> Len(log) + 1, path |-> PathWith({}, Home[u])]

\* It is sent to neighbours, and the message is given to units of the server.
LEMMA PostCopies ==
  ASSUME TypeOK, NEW u \in Units, NEW kind \in Kinds, ParseMessage(u, kind)
  PROVE  /\ Home[u] \in Servers
         /\ Posted(u) \in Copies
         /\ Posted(u).id = Len(log) + 1
         /\ Posted(u).path = {ServerId[Home[u]]}
         /\ Len(log) \in Nat /\ Len(log') = Len(log) + 1
         /\ \A k \in 1..Len(log) : log'[k] = log[k]
         /\ log'[Len(log) + 1].from = u
         /\ KeptOrSent(NoneGone, Home[u], Posted(u))
         /\ \E us \in SUBSET Units :
              Give(Len(log) + 1, us) /\ \A v \in us : Home[v] = Home[u]
<1> DEFINE s == Home[u]
           k == Len(log) + 1
           c == Posted(u)
           m == [from |-> u, kind |-> kind, room |-> GroupOf(u)]
<1>1. /\ s \in Servers
      /\ m \in Posts /\ c \in Copies
      /\ Len(log) \in Nat /\ log \in Seq(Posts)
  BY SentTyped, LenProperties, UnitsAssumption
     DEF ParseMessage, TypeOK, Posted
<1>2. c.id = k /\ c.path = {ServerId[s]}
  BY DEF PathWith, Posted
<1>3. \E us \in SUBSET Units :
        Give(k, us) /\ \A v \in us : Home[v] = s
  BY <1>1, LocalAudience
<1>4. /\ Len(log') = k /\ log'[k].from = u
      /\ \A j \in 1..Len(log) : log'[j] = log[j]
  <2>1. log' = Append(log, m)
    BY DEF ParseMessage
  <2> QED BY <1>1, <2>1, AppendProperties
<1>5. \/ channel' = channel
      \/ channel' = Forward(channel, s, ForwardTargets(s, None), c)
  BY DEF ParseMessage, Posted
<1>6. \A y \in ForwardTargets(s, None) : Edge(s, y)
  BY DEF ForwardTargets, Linked, Edge
<1> HIDE DEF s, k, c, m
<1>7. KeptOrSent(NoneGone, s, c)
  <2> SUFFICES ASSUME NEW x \in Servers, NEW y \in Servers,
                      NEW i \in 1..Len(channel'[x][y])
               PROVE  Kept(NoneGone, x, y, i) \/ Sent(s, c, x, y, i)
    BY DEF KeptOrSent
  <2>1. channel[x][y] \in Seq(Copies) /\ Len(channel[x][y]) \in Nat
    BY <1>1, LenProperties DEF TypeOK
  <2>2. CASE channel'[x][y] = channel[x][y]
    BY <2>1, <2>2, NothingTaken DEF Kept
  <2>3. CASE x = s /\ Edge(s, y) /\ channel'[x][y] = Append(channel[x][y], c)
    <3>1. /\ Len(channel'[x][y]) = Len(channel[x][y]) + 1
          /\ \A j \in 1..Len(channel[x][y]) :
               channel'[x][y][j] = channel[x][y][j]
          /\ channel'[x][y][Len(channel[x][y]) + 1] = c
      BY <1>1, <2>1, <2>3, AppendProperties
    <3>2. i \in 1..Len(channel[x][y]) \/ i = Len(channel[x][y]) + 1
      BY <2>1, <3>1
    <3> QED BY <2>1, <2>3, <3>1, <3>2, NothingTaken DEF Kept, Sent
  <2>4. channel \in Channels
    BY <1>1 DEF TypeOK, Channels
  <2>5. CASE channel' = Forward(channel, s, ForwardTargets(s, None), c)
    <3>1. channel'[x][y] = IF x = s /\ y \in ForwardTargets(s, None)
                           THEN Append(channel[x][y], c) ELSE channel[x][y]
      BY <1>1, <2>4, <2>5, Forwarded
    <3> QED BY <1>6, <2>2, <2>3, <3>1
  <2> QED BY <1>5, <2>2, <2>5
<1> QED BY <1>1, <1>2, <1>3, <1>4, <1>7 DEF s, k, c

\* A message is new: no copy of it is on any link, and nobody has heard it.
LEMMA PostStep ==
  ASSUME RelayInv, NEW u \in Units, NEW kind \in Kinds, ParseMessage(u, kind)
  PROVE  Frontier' /\ HeardOnce'
<1> DEFINE s == Home[u]
           k == Len(log) + 1
           c == Posted(u)
<1>1. TypeOK /\ Frontier /\ HeardOnce
  BY DEF RelayInv
<1>2. /\ s \in Servers /\ c \in Copies
      /\ c.id = k /\ c.path = {ServerId[s]}
      /\ Len(log) \in Nat /\ Len(log') = k
      /\ KeptOrSent(NoneGone, s, c)
  BY <1>1, PostCopies
<1>3. PICK us \in SUBSET Units :
        Give(k, us) /\ \A v \in us : Home[v] = s
  BY <1>1, PostCopies
<1>4. \A v \in Units : ~HasHeard(v, k)
  BY <1>1, <1>2 DEF HasHeard, Frontier, CopiesOnLinks
<1>5. \A x, y \in Servers : \A o \in 1..Len(channel[x][y]) :
        channel[x][y][o].id # k
  BY <1>1, <1>2 DEF Frontier, CopiesOnLinks
<1>6. Len(log) <= Len(log') /\ Len(log') \in Nat /\ k <= Len(log')
  BY <1>2
<1> HIDE DEF s, k, c
<1>7. Alone(NoneGone, s, c)
  BY <1>2, <1>5 DEF Alone
<1>8. NewBeyond(s, c)
  BY <1>2, <1>4 DEF NewBeyond
<1>9. /\ Give(c.id, us) /\ ServerId[s] \in c.path /\ c.id <= Len(log')
      /\ \A v \in us : Home[v] = s /\ ~HasHeard(v, c.id)
  BY <1>2, <1>3, <1>4, <1>6
<1> QED BY <1>1, <1>2, <1>6, <1>7, <1>8, <1>9, NothingTaken, FrontierStep

\* What is left on the links after s has read a copy from t.
LEMMA TakenOne ==
  ASSUME TypeOK, NEW t \in Servers, NEW s \in Servers, channel[t][s] # <<>>,
         NEW x \in Servers, NEW y \in Servers,
         NEW i \in 1..Len(Dequeued(t, s)[x][y])
  PROVE  LET n == i + (IF x = t /\ y = s THEN 1 ELSE 0)
         IN  /\ n \in 1..Len(channel[x][y])
             /\ Dequeued(t, s)[x][y][i] = channel[x][y][n]
<1>1. channel[x][y] \in Seq(Copies) /\ Len(channel[x][y]) \in Nat
  BY LenProperties DEF TypeOK
<1>2. CASE x = t /\ y = s
  <2>1. Dequeued(t, s)[x][y] = Tail(channel[x][y])
    BY <1>2, Read
  <2>2. /\ Len(Tail(channel[x][y])) = Len(channel[x][y]) - 1
        /\ \A j \in 1..Len(Tail(channel[x][y])) :
             Tail(channel[x][y])[j] = channel[x][y][j + 1]
    BY <1>1, <1>2, HeadTailProperties
  <2> QED BY <1>1, <1>2, <2>1, <2>2
<1>3. CASE ~(x = t /\ y = s)
  <2>1. Dequeued(t, s)[x][y] = channel[x][y]
    BY <1>3, Read
  <2> QED BY <1>1, <1>3, <2>1
<1> QED BY <1>2, <1>3

\* That one copy, and no other.
OneGone(t, s) ==
  [x \in Servers |-> [y \in Servers |-> IF x = t /\ y = s THEN 1 ELSE 0]]

\* A copy that s has passed already is dropped; the others on the link move up.
LEMMA DropCopies ==
  ASSUME TypeOK, NEW s \in Servers, NEW t \in Servers,
         channel[t][s] # <<>>, channel' = Dequeued(t, s)
  PROVE  OneGone(t, s) \in Offsets /\ OnlyKept(OneGone(t, s))
<1>1. OneGone(t, s) \in Offsets
  BY DEF Offsets, OneGone
<1>2. OnlyKept(OneGone(t, s))
  <2> SUFFICES ASSUME NEW x \in Servers, NEW y \in Servers,
                      NEW i \in 1..Len(channel'[x][y])
               PROVE  Kept(OneGone(t, s), x, y, i)
    BY DEF OnlyKept
  <2> QED BY TakenOne DEF Kept, OneGone
<1> QED BY <1>1, <1>2

\* Dropping a copy that has passed here already keeps the frontier.
LEMMA DropStep ==
  ASSUME RelayInv, NEW s \in Servers, NEW t \in Servers,
         channel[t][s] # <<>>, channel' = Dequeued(t, s),
         UNCHANGED <<log, heard>>
  PROVE  Frontier' /\ HeardOnce'
BY DropCopies, FrontierQuiet DEF RelayInv

\* The copy of the message at the head of the link that s passes on.
Passed(t, s) == [Head(channel[t][s]) EXCEPT !.path = PathWith(@, s)]

\* A copy that s has not passed is fresh; s sends its own further down the tree
\* and gives the message to units of its own.
LEMMA SpreadCopies ==
  ASSUME TypeOK, Frontier, NEW s \in Servers, NEW t \in Servers,
         ParseExternalMessage(s, t), ~AlreadyRelayed(s, Head(channel[t][s]))
  PROVE  /\ 1 \in 1..Len(channel[t][s]) /\ Fresh(t, s, 1) /\ Edge(t, s)
         /\ channel[t][s][1].id \in 1..Len(log)
         /\ Head(channel[t][s]).id = channel[t][s][1].id
         /\ log' = log
         /\ Passed(t, s) \in Copies
         /\ Passed(t, s).id = channel[t][s][1].id
         /\ ServerId[s] \in Passed(t, s).path
         /\ \A w : Takes(s, Passed(t, s), w) =>
              /\ w \in Servers /\ Edge(s, w) /\ w # t
              /\ Beyond(s, w) \subseteq Beyond(t, s) \ {s}
         /\ OneGone(t, s) \in Offsets
         /\ KeptOrSent(OneGone(t, s), s, Passed(t, s))
         /\ \E us \in SUBSET Units :
              /\ Give(channel[t][s][1].id, us)
              /\ us \subseteq Audience[log[channel[t][s][1].id]]
              /\ \A u \in us : Home[u] = s
<1> DEFINE h == Head(channel[t][s])
           m == log[h.id]
           c == Passed(t, s)
           us == ExternalRecipients(s, m)
           gone == OneGone(t, s)
<1>1. /\ channel[t][s] # <<>> /\ log' = log
      /\ log \in Seq(Posts) /\ Len(log) \in Nat
  BY LenProperties DEF ParseExternalMessage, TypeOK
<1>2. h = channel[t][s][1] /\ 1 \in 1..Len(channel[t][s]) /\ h \in Copies
  BY <1>1, Read
<1>3. h.id \in 1..MaxMessages /\ h.id \in Nat /\ h.id # 0
  BY <1>2, UnitsAssumption DEF Copies
<1>4. Edge(t, s) /\ ServerId[t] \in h.path /\ h.id <= Len(log)
  BY <1>2 DEF Frontier, CopiesOnLinks
<1>5. h.id \in 1..Len(log)
  BY <1>1, <1>3, <1>4
<1>6. m \in Posts
  BY <1>1, <1>5, ElementOfSeq
<1>7. /\ us \in SUBSET Units /\ us \subseteq Audience[m]
      /\ \A u \in us : Home[u] = s
  BY <1>6, ExternalAudience
<1>8. Give(h.id, us)
  BY DEF ParseExternalMessage
<1>9. Fresh(t, s, 1)
  BY <1>2 DEF Fresh, AlreadyRelayed
<1>10. c \in Copies /\ c.id = h.id /\ c.path = h.path \cup {ServerId[s]}
  BY <1>2, PassedTyped DEF Passed
<1>11. \/ channel' = Dequeued(t, s)
       \/ channel' = Forward(Dequeued(t, s), s, ForwardTargets(s, t), c)
  BY DEF ParseExternalMessage, Passed
<1>12. \A y \in ForwardTargets(s, t) : Edge(s, y)
  BY DEF ForwardTargets, Linked, Edge
<1>13. /\ gone \in Offsets
       /\ \A x, y \in Servers : gone[x][y] = IF x = t /\ y = s THEN 1 ELSE 0
  BY DEF Offsets, OneGone
<1>14. \A w : Takes(s, c, w) => w \in Servers /\ Edge(s, w) /\ w # t
  BY <1>4, <1>10 DEF Takes
<1>15. \A w : Takes(s, c, w) => Beyond(s, w) \subseteq Beyond(t, s) \ {s}
  BY <1>4, <1>14, LinkNext
<1> HIDE DEF c, us, gone, m, h
<1>16. KeptOrSent(gone, s, c)
  <2> SUFFICES ASSUME NEW x \in Servers, NEW y \in Servers,
                      NEW i \in 1..Len(channel'[x][y])
               PROVE  Kept(gone, x, y, i) \/ Sent(s, c, x, y, i)
    BY DEF KeptOrSent
  <2> DEFINE q == Dequeued(t, s)
  <2>0. q \in Channels
    BY <1>1, Read
  <2>1. q[x][y] \in Seq(Copies) /\ Len(q[x][y]) \in Nat
    BY <2>0, LenProperties DEF Channels
  <2>2. \A j \in 1..Len(q[x][y]) :
          /\ j + gone[x][y] \in 1..Len(channel[x][y])
          /\ q[x][y][j] = channel[x][y][j + gone[x][y]]
    <3> TAKE j \in 1..Len(q[x][y])
    <3>1. LET n == j + (IF x = t /\ y = s THEN 1 ELSE 0)
          IN  /\ n \in 1..Len(channel[x][y])
              /\ q[x][y][j] = channel[x][y][n]
      BY <1>1, TakenOne
    <3> QED BY <1>13, <3>1
  <2> HIDE DEF q
  <2>3. CASE channel'[x][y] = q[x][y]
    BY <2>2, <2>3 DEF Kept
  <2>4. CASE x = s /\ Edge(s, y) /\ channel'[x][y] = Append(q[x][y], c)
    <3>1. /\ Len(channel'[x][y]) = Len(q[x][y]) + 1
          /\ \A j \in 1..Len(q[x][y]) : channel'[x][y][j] = q[x][y][j]
          /\ channel'[x][y][Len(q[x][y]) + 1] = c
      BY <1>10, <2>1, <2>4, AppendProperties
    <3>2. CASE i \in 1..Len(q[x][y])
      BY <2>2, <3>1, <3>2 DEF Kept
    <3>3. CASE i = Len(q[x][y]) + 1
      BY <2>4, <3>1, <3>3 DEF Sent
    <3>4. i \in 1..Len(q[x][y]) \/ i = Len(q[x][y]) + 1
      <4>1. Len(q[x][y]) \in Nat /\ i \in 1..Len(q[x][y]) + 1
        BY <2>1, <3>1
      <4> QED BY <4>1
    <3> QED BY <3>2, <3>3, <3>4
  <2>5. CASE channel' = Forward(q, s, ForwardTargets(s, t), c)
    <3>1. channel'[x][y] = IF x = s /\ y \in ForwardTargets(s, t)
                           THEN Append(q[x][y], c) ELSE q[x][y]
      BY <1>10, <2>0, <2>5, Forwarded
    <3> QED BY <1>12, <2>3, <2>4, <3>1
  <2> QED BY <1>11, <2>3, <2>5 DEF q
<1>17. Head(channel[t][s]).id = h.id /\ channel[t][s][1].id = h.id
  BY <1>2 DEF h
<1> QED BY <1>1, <1>2, <1>4, <1>5, <1>7, <1>8, <1>9, <1>10, <1>13, <1>14, <1>15,
           <1>16, <1>17 DEF c, gone, m

\* Everybody beyond the link a fresh copy came on is still to hear the message,
\* the units of s among them, and no other copy leads there.
LEMMA SpreadStep ==
  ASSUME RelayInv, NEW s \in Servers, NEW t \in Servers,
         ParseExternalMessage(s, t), ~AlreadyRelayed(s, Head(channel[t][s]))
  PROVE  /\ Frontier' /\ HeardOnce'
         /\ Head(channel[t][s]).id \in 1..Len(log)
         /\ \E us \in SUBSET Units :
              /\ Give(Head(channel[t][s]).id, us)
              /\ us \subseteq Audience[log[Head(channel[t][s]).id]]
              /\ \A u \in us : ~HasHeard(u, Head(channel[t][s]).id)
<1> DEFINE k == channel[t][s][1].id
           c == Passed(t, s)
           gone == OneGone(t, s)
<1>1. TypeOK /\ Frontier /\ HeardOnce
  BY DEF RelayInv
<1>2. /\ 1 \in 1..Len(channel[t][s]) /\ Fresh(t, s, 1) /\ Edge(t, s)
      /\ k \in 1..Len(log) /\ Head(channel[t][s]).id = k
      /\ log' = log
      /\ c \in Copies /\ c.id = k /\ ServerId[s] \in c.path
      /\ gone \in Offsets /\ KeptOrSent(gone, s, c)
  BY <1>1, SpreadCopies
<1>3. \A w : Takes(s, c, w) => Beyond(s, w) \subseteq Beyond(t, s) \ {s}
  BY <1>1, SpreadCopies
<1>4. PICK us \in SUBSET Units :
        /\ Give(k, us) /\ us \subseteq Audience[log[k]]
        /\ \A u \in us : Home[u] = s
  BY <1>1, SpreadCopies
<1>5. gone[t][s] = 1
  BY DEF OneGone
<1> HIDE DEF k, c, gone
<1>6. \A u \in Units : Home[u] \in Beyond(t, s) => ~HasHeard(u, k)
  BY <1>1, <1>2 DEF Frontier, NewsAhead, k
<1>7. s \in Beyond(t, s)
  BY <1>2, LinkEnds
<1>8. \A u \in us : Home[u] = s /\ ~HasHeard(u, c.id)
  BY <1>2, <1>4, <1>6, <1>7
<1>9. Alone(gone, s, c)
  <2> SUFFICES ASSUME NEW x \in Servers, NEW y \in Servers,
                      NEW o \in 1..Len(channel[x][y]),
                      gone[x][y] < o, Fresh(x, y, o), channel[x][y][o].id = c.id
               PROVE  /\ s \notin Beyond(x, y)
                      /\ \A w \in Servers : Takes(s, c, w) =>
                           Beyond(x, y) \cap Beyond(s, w) = {}
    BY DEF Alone
  <2>1. <<x, y, o>> # <<t, s, 1>>
    BY <1>5
  <2>2. Beyond(x, y) \cap Beyond(t, s) = {}
    BY <1>1, <1>2, <2>1 DEF Frontier, FreshApart, k
  <2> QED BY <1>3, <1>7, <2>2
<1>10. NewBeyond(s, c)
  BY <1>2, <1>3, <1>6 DEF NewBeyond
<1>11. /\ Len(log') \in Nat /\ Len(log) <= Len(log') /\ c.id <= Len(log')
       /\ Give(c.id, us)
  BY <1>1, <1>2, <1>4, LenProperties DEF TypeOK
<1>12. Frontier' /\ HeardOnce'
  BY <1>1, <1>2, <1>8, <1>9, <1>10, <1>11, FrontierStep
<1> QED BY <1>2, <1>4, <1>8, <1>12

\* Every step keeps the invariant.
LEMMA RelayNext == RelayInv /\ [Next]_vars => RelayInv'
<1> SUFFICES ASSUME RelayInv, [Next]_vars PROVE Frontier' /\ HeardOnce'
  BY TypeNext DEF RelayInv
<1>1. ASSUME NEW u \in Units, NEW kind \in Kinds, ParseMessage(u, kind)
      PROVE  Frontier' /\ HeardOnce'
  BY <1>1, PostStep
<1>2. ASSUME NEW s \in Servers, NEW t \in Servers, ParseExternalMessage(s, t)
      PROVE  Frontier' /\ HeardOnce'
  <2>1. CASE AlreadyRelayed(s, Head(channel[t][s]))
    <3>1. /\ channel[t][s] # <<>> /\ channel' = Dequeued(t, s)
          /\ UNCHANGED <<log, heard>>
      BY <1>2, <2>1 DEF ParseExternalMessage
    <3> QED BY <3>1, DropStep
  <2>2. CASE ~AlreadyRelayed(s, Head(channel[t][s]))
    BY <1>2, <2>2, SpreadStep
  <2> QED BY <2>1, <2>2
<1>3. ASSUME NEW s \in Servers, LinkUp(s) PROVE Frontier' /\ HeardOnce'
  BY <1>3, NothingSent DEF LinkUp
<1>4. ASSUME NEW s \in Servers, LinkDown(s) PROVE Frontier' /\ HeardOnce'
  <2>1. \A x, y \in Servers :
          channel'[x][y] = channel[x][y] \/ channel'[x][y] = <<>>
    BY <1>4, ServersAssumption DEF LinkDown, RelayInv, TypeOK
  <2> QED BY <1>4, <2>1, NothingSent DEF LinkDown
<1>5. ASSUME NEW u \in Units, Move(u) PROVE Frontier' /\ HeardOnce'
  BY <1>5, NothingSent DEF Move
<1>6. CASE UNCHANGED vars
  BY <1>6, NothingSent DEF vars
<1> QED BY <1>1, <1>2, <1>3, <1>4, <1>5, <1>6 DEF Next

\* The invariant of the relay always holds.
THEOREM RelayInvariant == Spec => []RelayInv
<1> QED BY RelayInit, RelayNext, PTL DEF Spec

\* No unit is given a message twice, in any forest of servers, whatever links
\* fail: an echo is dropped by the server that sent it, and no other copy comes
\* back to a server that has passed the message (js_chat_routing.js:132-135).
THEOREM NobodyHearsTwice == Spec => []HeardOnce
<1>1. RelayInv => HeardOnce
  BY DEF RelayInv
<1> QED BY <1>1, RelayInvariant, PTL

\* The copies that will be relayed head for separate parts of the tree, where
\* nobody has heard the message.
THEOREM FrontierHolds == Spec => []Frontier
<1>1. RelayInv => Frontier
  BY DEF RelayInv
<1> QED BY <1>1, RelayInvariant, PTL

-----------------------------------------------------------------------------
(* The refinement. *)

\* The relay starts as Broadcast does.
LEMMA PromiseInit == Init => B!Init
BY DEF Init, B!Init

\* Every step is a step of Broadcast, or none that it sees.
LEMMA PromiseNext == RelayInv /\ [Next]_vars => [B!Next]_<<log, heard>>
<1> SUFFICES ASSUME RelayInv, [Next]_vars PROVE [B!Next]_<<log, heard>>
  OBVIOUS
<1>1. ASSUME NEW u \in Units, NEW kind \in Kinds, ParseMessage(u, kind)
      PROVE  B!Next
  <2> DEFINE m == [from |-> u, kind |-> kind, room |-> GroupOf(u)]
  <2>1. m \in Posts /\ log' = Append(log, m)
    BY <1>1, SentTyped DEF ParseMessage, RelayInv
  <2>2. PICK us \in SUBSET Units : Give(Len(log) + 1, us) /\ us \subseteq Audience[m]
    BY <1>1, <2>1, LocalAudience
  <2>3. B!Post(m, us)
    BY <2>1, <2>2 DEF B!Post, B!Give, Give
  <2> QED BY <2>1, <2>3 DEF B!Next
<1>2. ASSUME NEW s \in Servers, NEW t \in Servers, ParseExternalMessage(s, t)
      PROVE  [B!Next]_<<log, heard>>
  <2> DEFINE k == Head(channel[t][s]).id
  <2>1. CASE AlreadyRelayed(s, Head(channel[t][s]))
    BY <1>2, <2>1 DEF ParseExternalMessage
  <2>2. CASE ~AlreadyRelayed(s, Head(channel[t][s]))
    <3>1. k \in 1..Len(log)
      BY <1>2, <2>2, SpreadStep
    <3>2. PICK us \in SUBSET Units :
            /\ Give(k, us) /\ us \subseteq Audience[log[k]]
            /\ \A u \in us : ~HasHeard(u, k)
      BY <1>2, <2>2, SpreadStep
    <3>3. B!Spread(k, us)
      BY <1>2, <3>2 DEF B!Spread, B!Give, Give, B!HasHeard, HasHeard,
                        ParseExternalMessage
    <3> QED BY <3>1, <3>3 DEF B!Next
  <2> QED BY <2>1, <2>2
<1>3. ASSUME NEW s \in Servers, LinkUp(s) \/ LinkDown(s)
      PROVE  UNCHANGED <<log, heard>>
  BY <1>3 DEF LinkUp, LinkDown
<1>4. ASSUME NEW u \in Units, Move(u) PROVE UNCHANGED <<log, heard>>
  BY <1>4 DEF Move
<1>5. CASE UNCHANGED vars
  BY <1>5 DEF vars
<1> QED BY <1>1, <1>2, <1>3, <1>4, <1>5 DEF Next

\* The servers keep the promise of Broadcast: only the audience of a message
\* hears it, each of them once, whatever the tree, the parties and the links do.
THEOREM RelayKeepsPromise == Spec => KeepsPromise
<1> QED BY PromiseInit, PromiseNext, RelayInvariant, PTL
        DEF Spec, KeepsPromise, B!Spec
=============================================================================
