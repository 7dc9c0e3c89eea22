------------------------- MODULE S2SHandshakeProofs -------------------------
(* The handshake gate holds for any children, keys, connections and traffic: *)
(* whatever is cut, terminated, restarted or read late, messages pass only    *)
(* between the parent and a child that has a key of the configuration; and    *)
(* each direction of each link keeps the promise of S2SLink.                 *)
EXTENDS S2SHandshake, SequenceTheorems, TLAPS

-----------------------------------------------------------------------------
(* The inductive invariant: what ties a child to its connection, what a      *)
(* connection that an end has closed still holds, and what may be on one.    *)

\* A child that has a socket has a connection, and is not about to connect.
Attached ==
  \A c \in Children : parentWs[c] # "null" => conn[c] # None /\ ~reconnect[c]

OneOwner ==
  \A c, d \in Children : conn[c] # None /\ conn[c] = conn[d] => c = d

\* What the parent has closed it has forgotten.
ParentForgets ==
  \A k \in Conns :
    child_ws[k] = "none" => ~m_s2s_authed[k] /\ toParent[k] = <<>>

\* A connection that no child holds is down and has nothing for a child.
ChildForgets ==
  \A k \in Conns :
    (\A c \in Children : conn[c] = k => parentWs[c] = "null")
      => wire[k] # "up" /\ toChild[k] = <<>>

\* What reaches a child on a connection that is up comes from a parent that
\* has accepted it.
Accepted ==
  \A c \in Children :
    /\ conn[c] # None
    /\ wire[conn[c]] = "up"
    /\ parentWs[c] = "open" \/ toChild[conn[c]] # <<>>
    => child_ws[conn[c]] # "none"

Proven ==
  \A c \in Children :
    conn[c] # None =>
      /\ m_s2s_authed[conn[c]] => Trustworthy(c)
      /\ c \notin Signers => toParent[conn[c]] \in Seq(Messages)
      /\ ~Trustworthy(c) => toChild[conn[c]] \in Seq({Envelope})

IInv ==
  /\ TypeOK
  /\ Attached
  /\ OneOwner
  /\ ParentForgets
  /\ ChildForgets
  /\ Accepted
  /\ Proven
  /\ GateHolds

-----------------------------------------------------------------------------
(* Streams. *)

\* A message put on some streams leaves every stream a sequence of messages.
LEMMA SentType ==
  ASSUME NEW S, NEW stream \in [Conns -> Seq(S)], NEW ks, NEW m \in S
  PROVE  Sent(stream, ks, m) \in [Conns -> Seq(S)]
BY DEF Sent

\* What is left of a stream when the wire is cut is still a stream.
LEMMA Prefix ==
  ASSUME NEW S, NEW s \in Seq(S), NEW i \in 0..Len(s)
  PROVE  SubSeq(s, 1, i) \in Seq(S)
BY SubSeqProperties

\* What is left of a stream when its first message is read.
LEMMA Rest ==
  ASSUME NEW S, NEW s \in Seq(S), s # <<>>
  PROVE  Tail(s) \in Seq(S)
BY HeadTailProperties

-----------------------------------------------------------------------------
(* One lemma per action. *)

\* connectToParent: a new connection takes the place of the child's last one.
LEMMA ConnectStep ==
  ASSUME IInv, NEW c \in Children, Connect(c)
  PROVE  IInv'
<1> USE HandshakeAssumption
    DEF childVars, parentVars, netVars, historyVars, IInv, Envelope, Messages, Frames
<1>1. TypeOK'
  BY DEF Connect, FreeConns, TypeOK
<1>2. Attached'
  BY DEF Connect, FreeConns, Attached, TypeOK
<1>3. OneOwner'
  BY DEF Connect, FreeConns, OneOwner
<1>4. ParentForgets'
  BY DEF Connect, FreeConns, ParentForgets
<1>5. ChildForgets'
  <2> DEFINE k == CHOOSE k \in FreeConns : TRUE
  <2>1. k \in FreeConns
    BY DEF Connect
  <2>2. conn' = [d \in Children |-> IF d = c THEN k ELSE IF conn[d] = k THEN None
                                   ELSE conn[d]]
    BY DEF Connect
  <2>3. UNCHANGED toChild /\ wire' = [wire EXCEPT ![k] = "up"]
        /\ parentWs' = [parentWs EXCEPT ![c] = "connecting"]
    BY DEF Connect
  <2>4. parentWs[c] = "null"
    BY DEF Connect, Attached
  <2> HIDE DEF k
  <2>5. SUFFICES ASSUME NEW j \in Conns,
                        \A d \in Children : conn'[d] = j => parentWs'[d] = "null"
                 PROVE  wire'[j] # "up" /\ toChild'[j] = <<>>
    BY DEF ChildForgets
  <2>6. j # k
    BY <2>2, <2>3, <2>5 DEF TypeOK
  <2>7. ASSUME NEW d \in Children, conn[d] = j PROVE parentWs[d] = "null"
    <3>1. CASE d = c
      BY <2>4, <3>1
    <3>2. CASE d # c
      BY <2>2, <2>3, <2>5, <2>6, <2>7, <3>2 DEF TypeOK
    <3> QED BY <3>1, <3>2
  <2> QED BY <2>3, <2>6, <2>7 DEF ChildForgets, TypeOK
<1>6. Accepted'
  <2> DEFINE k == CHOOSE k \in FreeConns : TRUE
  <2>1. k \in FreeConns
    BY DEF Connect
  <2>2. toChild[k] = <<>>
    BY <2>1 DEF FreeConns, ChildForgets
  <2>3. conn' = [d \in Children |-> IF d = c THEN k ELSE IF conn[d] = k THEN None
                                   ELSE conn[d]]
    BY DEF Connect
  <2>4. UNCHANGED <<child_ws, toChild>> /\ wire' = [wire EXCEPT ![k] = "up"]
        /\ parentWs' = [parentWs EXCEPT ![c] = "connecting"]
    BY DEF Connect
  <2> HIDE DEF k
  <2>5. SUFFICES ASSUME NEW d \in Children, conn'[d] # None, wire'[conn'[d]] = "up",
                        parentWs'[d] = "open" \/ toChild'[conn'[d]] # <<>>
                 PROVE  child_ws'[conn'[d]] # "none"
    BY DEF Accepted
  <2>6. d # c
    BY <2>2, <2>3, <2>4, <2>5 DEF TypeOK
  <2>7. conn'[d] = conn[d] /\ conn[d] # k
    BY <2>3, <2>5, <2>6
  <2> QED BY <2>4, <2>5, <2>6, <2>7 DEF Accepted, TypeOK
<1>7. Proven'
  <2> DEFINE k == CHOOSE k \in FreeConns : TRUE
  <2>1. k \in FreeConns
    BY DEF Connect
  <2>2. toChild[k] = <<>> /\ toParent[k] = <<>> /\ ~m_s2s_authed[k]
    BY <2>1 DEF FreeConns, ChildForgets, ParentForgets
  <2>3. conn' = [d \in Children |-> IF d = c THEN k ELSE IF conn[d] = k THEN None
                                   ELSE conn[d]]
    BY DEF Connect
  <2>4. UNCHANGED <<m_s2s_authed, toParent, toChild>>
    BY DEF Connect, parentVars
  <2>5. SUFFICES ASSUME NEW d \in Children, conn'[d] # None
                 PROVE  /\ m_s2s_authed[conn'[d]] => Trustworthy(d)
                        /\ d \notin Signers => toParent[conn'[d]] \in Seq(Messages)
                        /\ ~Trustworthy(d) => toChild[conn'[d]] \in Seq({Envelope})
    BY <2>4 DEF Proven, Trustworthy, LoadedKeys
  <2> HIDE DEF k
  <2>6. CASE conn'[d] = k
    <3>1. <<>> \in Seq(Messages) /\ <<>> \in Seq({Envelope})
      OBVIOUS
    <3> QED BY <2>2, <2>6, <3>1
  <2>7. CASE conn'[d] # k
    <3>1. conn'[d] = conn[d]
      BY <2>3, <2>5, <2>7
    <3> QED BY <2>5, <3>1 DEF Proven
  <2> QED BY <2>6, <2>7
<1>8. GateHolds'
  BY DEF Connect, FreeConns, Trustworthy, LoadedKeys, GateHolds
<1> QED BY <1>1, <1>2, <1>3, <1>4, <1>5, <1>6, <1>7, <1>8

\* The child's socket opens.
LEMMA OnOpenStep ==
  ASSUME IInv, NEW c \in Children, OnOpen(c)
  PROVE  IInv'
<1> USE HandshakeAssumption
    DEF childVars, parentVars, netVars, historyVars, IInv, Envelope, Messages, Frames
<1>1. TypeOK'
  BY DEF OnOpen, TypeOK
<1>2. Attached'
  BY DEF OnOpen, Attached
<1>3. OneOwner'
  BY DEF OnOpen, OneOwner
<1>4. ParentForgets'
  BY DEF OnOpen, ParentForgets
<1>5. ChildForgets'
  BY DEF OnOpen, ChildForgets
<1>6. Accepted'
  BY DEF OnOpen, Accepted
<1>7. Proven'
  BY DEF OnOpen, Trustworthy, LoadedKeys, Proven
<1>8. GateHolds'
  BY DEF OnOpen, Trustworthy, LoadedKeys, GateHolds
<1> QED BY <1>1, <1>2, <1>3, <1>4, <1>5, <1>6, <1>7, <1>8

\* The child reads a frame: the challenge, or a message.
LEMMA OnReceiveStep ==
  ASSUME IInv, NEW c \in Children, OnReceive(c)
  PROVE  IInv'
<1> USE HandshakeAssumption
    DEF childVars, parentVars, netVars, historyVars, IInv, Envelope, Messages, Frames
<1>1. TypeOK'
  <2> DEFINE k == conn[c]
  <2>0. k \in Conns /\ toChild[k] \in Seq(Frames) /\ toChild[k] # <<>>
    BY DEF OnReceive, TypeOK, Attached
  <2>1. toChild' \in [Conns -> Seq(Frames)]
    <3>1. Tail(toChild[k]) \in Seq(Frames)
      BY <2>0, Rest
    <3> QED BY <3>1 DEF OnReceive, TypeOK
  <2>2. toParent' \in [Conns -> Seq(Frames)]
    <3>1. 0 \in 0..MaxPosts
      OBVIOUS
    <3>2. toParent' \in {toParent, Sent(toParent, {k}, 0)}
      BY DEF OnReceive, OnChallenge, OnRelayed
    <3>3. Sent(toParent, {k}, 0) \in [Conns -> Seq(0..MaxPosts)]
      BY <3>1, SentType DEF TypeOK
    <3> QED BY <3>2, <3>3 DEF TypeOK
  <2>3. heard' \in [Children -> Seq(Frames)] /\ answered' \in [Children -> BOOLEAN]
    <3>1. Append(heard[c], Head(toChild[k])) \in Seq(Frames)
      BY <2>0 DEF TypeOK
    <3>2. heard' \in {heard, [heard EXCEPT ![c] = Append(@, Head(toChild[k]))]}
      BY DEF OnReceive, OnChallenge, OnRelayed
    <3>3. heard' \in [Children -> Seq(Frames)]
      BY <3>1, <3>2 DEF TypeOK
    <3>4. answered' \in {answered, [answered EXCEPT ![c] = TRUE]}
      BY DEF OnReceive, OnChallenge, OnRelayed
    <3> QED BY <3>3, <3>4 DEF TypeOK
  <2> QED BY <2>1, <2>2, <2>3 DEF OnReceive, TypeOK
<1>2. Attached'
  BY DEF OnReceive, OnChallenge, OnRelayed, Sent, Attached
<1>3. OneOwner'
  BY DEF OnReceive, OnChallenge, OnRelayed, Sent, OneOwner
<1>4. ParentForgets'
  BY DEF OnReceive, OnChallenge, OnRelayed, Sent, ParentForgets, TypeOK, Accepted
<1>5. ChildForgets'
  BY DEF OnReceive, OnChallenge, OnRelayed, Sent, ChildForgets
<1>6. Accepted'
  BY DEF OnReceive, OnChallenge, OnRelayed, Sent, Accepted
<1>7. Proven'
  <2> DEFINE k == conn[c]
  <2>1. k \in Conns /\ toChild[k] \in Seq(Frames) /\ toParent[k] \in Seq(Frames)
    BY DEF OnReceive, TypeOK, Attached
  <2>2. SUFFICES ASSUME NEW d \in Children, conn[d] # None
                 PROVE  /\ d \notin Signers => toParent'[conn[d]] \in Seq(Messages)
                        /\ ~Trustworthy(d) => toChild'[conn[d]] \in Seq({Envelope})
    BY DEF OnReceive, Proven, Trustworthy, LoadedKeys
  <2>3. CASE d # c
    <3>1. conn[d] # k
      BY <2>2, <2>3 DEF OneOwner
    <3>2. toParent'[conn[d]] = toParent[conn[d]] /\ toChild'[conn[d]] = toChild[conn[d]]
      BY <2>1, <2>2, <3>1 DEF OnReceive, OnChallenge, OnRelayed, Sent, TypeOK
    <3> QED BY <2>2, <3>2 DEF Proven
  <2>4. CASE d = c
    <3>1. toChild'[k] = Tail(toChild[k]) /\ toChild[k] # <<>>
      BY <2>1 DEF OnReceive, TypeOK
    <3>2. ~Trustworthy(c) => toChild'[k] \in Seq({Envelope})
      BY <2>1, <3>1 DEF Proven
    <3>3. c \notin Signers => toParent'[k] = toParent[k]
      BY DEF OnReceive, OnChallenge, OnRelayed
    <3> QED BY <2>1, <2>4, <3>2, <3>3 DEF Proven
  <2> QED BY <2>3, <2>4
<1>8. GateHolds'
  <2>1. UNCHANGED taken /\ \A d \in Children \ {c} : heard'[d] = heard[d]
    BY DEF OnReceive, OnChallenge, OnRelayed, TypeOK
  <2>2. ASSUME heard'[c] # heard[c] PROVE Trustworthy(c)
    <3>1. Head(toChild[conn[c]]) # Envelope
      BY <2>2 DEF OnReceive, OnChallenge, TypeOK
    <3>2. conn[c] # None /\ toChild[conn[c]] # <<>>
      BY DEF OnReceive, Attached
    <3>3. ASSUME ~Trustworthy(c) PROVE FALSE
      <4>1. toChild[conn[c]] \in Seq({Envelope})
        BY <3>2, <3>3 DEF Proven
      <4> QED BY <3>1, <3>2, <4>1
    <3> QED BY <3>3
  <2> QED BY <2>1, <2>2 DEF GateHolds, Trustworthy, LoadedKeys
<1> QED BY <1>1, <1>2, <1>3, <1>4, <1>5, <1>6, <1>7, <1>8

\* The child forwards a message, whether or not it has been asked yet.
LEMMA ChildForwardStep ==
  ASSUME IInv, NEW c \in Children, ChildForward(c)
  PROVE  IInv'
<1> USE HandshakeAssumption
    DEF childVars, parentVars, netVars, historyVars, IInv, Envelope, Messages, Frames
<1>1. TypeOK'
  <2>1. posts + 1 \in Frames /\ posts' \in 0..MaxPosts
    BY DEF ChildForward, TypeOK
  <2>2. toParent' \in [Conns -> Seq(Frames)]
    BY <2>1, SentType DEF ChildForward, TypeOK
  <2> QED BY <2>1, <2>2 DEF ChildForward, TypeOK
<1>2. Attached'
  BY DEF ChildForward, Sent, Attached
<1>3. OneOwner'
  BY DEF ChildForward, Sent, OneOwner
<1>4. ParentForgets'
  BY DEF ChildForward, Sent, ParentForgets, TypeOK, Accepted
<1>5. ChildForgets'
  BY DEF ChildForward, Sent, ChildForgets
<1>6. Accepted'
  BY DEF ChildForward, Sent, Accepted
<1>7. Proven'
  <2>1. posts + 1 \in Messages
    BY DEF ChildForward, TypeOK
  <2>2. SUFFICES ASSUME NEW d \in Children, conn[d] # None, d \notin Signers
                 PROVE  toParent'[conn[d]] \in Seq(Messages)
    BY DEF ChildForward, Proven, Trustworthy, LoadedKeys
  <2>3. conn[d] \in Conns /\ toParent[conn[d]] \in Seq(Messages)
    BY <2>2 DEF Proven, TypeOK
  <2>4. toParent'[conn[d]] \in {toParent[conn[d]], Append(toParent[conn[d]], posts + 1)}
    BY <2>3 DEF ChildForward, Sent
  <2>5. Append(toParent[conn[d]], posts + 1) \in Seq(Messages)
    BY <2>1, <2>3
  <2> QED BY <2>3, <2>4, <2>5
<1>8. GateHolds'
  BY DEF ChildForward, Sent, Trustworthy, LoadedKeys, GateHolds
<1> QED BY <1>1, <1>2, <1>3, <1>4, <1>5, <1>6, <1>7, <1>8

\* The child's 'close' handler.
LEMMA ChildCloseStep ==
  ASSUME IInv, NEW c \in Children, ChildClose(c)
  PROVE  IInv'
<1> USE HandshakeAssumption
    DEF childVars, parentVars, netVars, historyVars, IInv, Envelope, Messages, Frames
<1>1. TypeOK'
  BY DEF ChildClose, TypeOK, Attached
<1>2. Attached'
  BY DEF ChildClose, Attached, TypeOK
<1>3. OneOwner'
  BY DEF ChildClose, OneOwner
<1>4. ParentForgets'
  BY DEF ChildClose, ParentForgets
<1>5. ChildForgets'
  BY DEF ChildClose, ChildForgets, TypeOK
<1>6. Accepted'
  BY DEF ChildClose, Accepted
<1>7. Proven'
  BY DEF ChildClose, Trustworthy, LoadedKeys, Proven
<1>8. GateHolds'
  BY DEF ChildClose, Trustworthy, LoadedKeys, GateHolds
<1> QED BY <1>1, <1>2, <1>3, <1>4, <1>5, <1>6, <1>7, <1>8

\* The parent accepts a connection and sends the challenge.
LEMMA AcceptStep ==
  ASSUME IInv, NEW c \in Children, Accept(c)
  PROVE  IInv'
<1> USE HandshakeAssumption
    DEF childVars, parentVars, netVars, historyVars, IInv, Envelope, Messages, Frames
<1>1. TypeOK'
  <2>1. toChild' \in [Conns -> Seq(Frames)]
    <3>1. 0 \in 0..MaxPosts
      OBVIOUS
    <3>2. toChild' = Sent(toChild, {conn[c]}, 0)
      BY DEF Accept
    <3> QED BY <3>1, <3>2, SentType DEF TypeOK
  <2> QED BY <2>1 DEF Accept, TypeOK
<1>2. Attached'
  BY DEF Accept, Sent, Attached
<1>3. OneOwner'
  BY DEF Accept, Sent, OneOwner
<1>4. ParentForgets'
  BY DEF Accept, Sent, ParentForgets
<1>5. ChildForgets'
  BY DEF Accept, Sent, ChildForgets
<1>6. Accepted'
  BY DEF Accept, Sent, Accepted, TypeOK
<1>7. Proven'
  BY DEF Accept, Sent, Trustworthy, LoadedKeys, Proven, TypeOK
<1>8. GateHolds'
  BY DEF Accept, Sent, Trustworthy, LoadedKeys, GateHolds
<1> QED BY <1>1, <1>2, <1>3, <1>4, <1>5, <1>6, <1>7, <1>8

\* The parent reads a frame, which passes the gate or does not.
LEMMA ParentMessageStep ==
  ASSUME IInv, NEW c \in Children, ParentMessage(c)
  PROVE  IInv'
<1> USE HandshakeAssumption
    DEF childVars, parentVars, netVars, historyVars, IInv, Envelope, Messages, Frames
<1>1. TypeOK'
  <2> DEFINE k == conn[c]
  <2>1. k \in Conns /\ toParent[k] \in Seq(Frames) /\ toParent[k] # <<>>
    BY DEF ParentMessage, TypeOK
  <2>2. toParent' \in [Conns -> Seq(Frames)]
    <3>1. Tail(toParent[k]) \in Seq(Frames)
      BY <2>1, Rest
    <3> QED BY <3>1 DEF ParentMessage, TypeOK
  <2>3. CASE m_s2s_authed[k]
    <3>1. taken' \in [Children -> Seq(Frames)]
      <4>1. Append(taken[c], Head(toParent[k])) \in Seq(Frames)
        BY <2>1 DEF TypeOK
      <4>2. taken' = [taken EXCEPT ![c] = Append(@, Head(toParent[k]))]
        BY <2>3 DEF ParentMessage
      <4> QED BY <4>1, <4>2 DEF TypeOK
    <3> QED BY <2>2, <2>3, <3>1 DEF ParentMessage, TypeOK
  <2>4. CASE ~m_s2s_authed[k]
    <3>1. Gate(c, k, Head(toParent[k]))
      BY <2>4 DEF ParentMessage
    <3>2. m_publicKeys' \in BOOLEAN
      BY <3>1 DEF Gate
    <3>3. /\ child_ws' \in [Conns -> {"none", "open", "closing"}]
          /\ wire' \in [Conns -> {"up", "cut", "closed"}]
          /\ m_s2s_authed' \in [Conns -> BOOLEAN]
          /\ authTimer' \in [Conns -> BOOLEAN]
      <4> HIDE DEF k
      <4>1. CASE Head(toParent[k]) = Envelope /\ Verifies(c)
        BY <3>1, <4>1 DEF Gate, TypeOK
      <4>2. CASE ~(Head(toParent[k]) = Envelope /\ Verifies(c))
        BY <3>1, <4>2 DEF Gate, Terminate, TypeOK
      <4> QED BY <4>1, <4>2
    <3>4. UNCHANGED <<conn, parentWs, reconnect, toChild, posts, heard, answered, taken>>
      BY <2>4 DEF ParentMessage
    <3> QED BY <2>2, <3>2, <3>3, <3>4 DEF TypeOK
  <2> QED BY <2>3, <2>4
<1>2. Attached'
  BY DEF ParentMessage, Gate, Terminate, Verifies, Attached
<1>3. OneOwner'
  BY DEF ParentMessage, Gate, Terminate, Verifies, OneOwner
<1>4. ParentForgets'
  BY DEF ParentMessage, Gate, Terminate, Verifies, ParentForgets, TypeOK
<1>5. ChildForgets'
  BY DEF ParentMessage, Gate, Terminate, Verifies, ChildForgets, TypeOK
<1>6. Accepted'
  <2> DEFINE k == conn[c]
  <2>1. UNCHANGED <<conn, parentWs, toChild>> /\ k \in Conns
    BY DEF ParentMessage, TypeOK
  <2>2. \A j \in Conns : \/ child_ws'[j] = child_ws[j] /\ wire'[j] = wire[j]
                        \/ wire'[j] = "closed"
    <3>1. CASE m_s2s_authed[k]
      BY <3>1 DEF ParentMessage
    <3>2. CASE ~m_s2s_authed[k]
      BY <3>2 DEF ParentMessage, Gate, Terminate, TypeOK
    <3> QED BY <3>1, <3>2
  <2>3. SUFFICES ASSUME NEW d \in Children, conn[d] # None, wire'[conn[d]] = "up",
                        parentWs[d] = "open" \/ toChild[conn[d]] # <<>>
                 PROVE  child_ws'[conn[d]] # "none"
    BY <2>1 DEF Accepted
  <2>4. conn[d] \in Conns
    BY <2>3 DEF TypeOK
  <2>5. child_ws'[conn[d]] = child_ws[conn[d]] /\ wire[conn[d]] = "up"
    BY <2>2, <2>3, <2>4
  <2> QED BY <2>3, <2>5 DEF Accepted
<1>7. Proven'
  <2> DEFINE k == conn[c]
             m == Head(toParent[k])
  <2>1. k \in Conns /\ toParent[k] \in Seq(Frames) /\ toParent[k] # <<>>
    BY DEF ParentMessage, TypeOK
  <2>2. toParent'[k] = Tail(toParent[k])
    BY <2>1 DEF ParentMessage, TypeOK
  <2>3. m_s2s_authed'[k] => Trustworthy(c)
    <3>1. CASE m_s2s_authed[k]
      BY <2>1, <3>1 DEF Proven
    <3>2. CASE ~m_s2s_authed[k]
      <4>1. Gate(c, k, m)
        BY <3>2 DEF ParentMessage
      <4>2. CASE m = Envelope /\ Verifies(c)
        <5>1. c \in Signers
          BY <2>1, <4>2 DEF Proven
        <5> QED BY <4>2, <5>1 DEF Verifies, Trustworthy
      <4>3. CASE ~(m = Envelope /\ Verifies(c))
        BY <3>2, <4>1, <4>3 DEF Gate
      <4> QED BY <4>2, <4>3
    <3> QED BY <3>1, <3>2
  <2>4. SUFFICES ASSUME NEW d \in Children, conn[d] # None
                 PROVE  /\ m_s2s_authed'[conn[d]] => Trustworthy(d)
                        /\ d \notin Signers => toParent'[conn[d]] \in Seq(Messages)
    BY DEF ParentMessage, Proven, Trustworthy, LoadedKeys
  <2>5. CASE d = c
    <3>1. ASSUME c \notin Signers PROVE toParent'[k] \in Seq(Messages)
      <4>1. toParent[k] \in Seq(Messages)
        BY <2>1, <3>1 DEF Proven
      <4> QED BY <2>1, <2>2, <4>1, Rest
    <3> QED BY <2>3, <2>5, <3>1
  <2>6. CASE d # c
    <3>1. conn[d] # k
      BY <2>4, <2>6 DEF OneOwner
    <3>2. toParent'[conn[d]] = toParent[conn[d]]
      BY <3>1 DEF ParentMessage
    <3>3. m_s2s_authed'[conn[d]] = m_s2s_authed[conn[d]]
      <4>1. CASE m_s2s_authed[k]
        BY <4>1 DEF ParentMessage
      <4>2. CASE ~m_s2s_authed[k]
        <5>1. Gate(c, k, m)
          BY <4>2 DEF ParentMessage
        <5>2. m_s2s_authed' \in {m_s2s_authed, [m_s2s_authed EXCEPT ![k] = TRUE]}
          BY <5>1 DEF Gate
        <5>3. conn[d] \in Conns
          BY <2>4 DEF TypeOK
        <5>4. [m_s2s_authed EXCEPT ![k] = TRUE][conn[d]] = m_s2s_authed[conn[d]]
          BY <3>1, <5>3 DEF TypeOK
        <5> QED BY <5>2, <5>4
      <4> QED BY <4>1, <4>2
    <3> QED BY <2>4, <3>2, <3>3 DEF Proven
  <2> QED BY <2>5, <2>6
<1>8. GateHolds'
  BY DEF ParentMessage, Gate, Terminate, Verifies, Trustworthy, LoadedKeys, GateHolds,
         TypeOK, Proven
<1> QED BY <1>1, <1>2, <1>3, <1>4, <1>5, <1>6, <1>7, <1>8

\* The handshake timer of a connection.
LEMMA AuthTimeoutStep ==
  ASSUME IInv, NEW k \in Conns, AuthTimeout(k)
  PROVE  IInv'
<1> USE HandshakeAssumption
    DEF childVars, parentVars, netVars, historyVars, IInv, Envelope, Messages, Frames
<1>1. TypeOK'
  BY DEF AuthTimeout, Terminate, TypeOK
<1>2. Attached'
  BY DEF AuthTimeout, Terminate, Attached
<1>3. OneOwner'
  BY DEF AuthTimeout, Terminate, OneOwner
<1>4. ParentForgets'
  BY DEF AuthTimeout, Terminate, ParentForgets, TypeOK
<1>5. ChildForgets'
  BY DEF AuthTimeout, Terminate, ChildForgets, TypeOK
<1>6. Accepted'
  BY DEF AuthTimeout, Terminate, Accepted, TypeOK
<1>7. Proven'
  BY DEF AuthTimeout, Terminate, Trustworthy, LoadedKeys, Proven
<1>8. GateHolds'
  BY DEF AuthTimeout, Terminate, Trustworthy, LoadedKeys, GateHolds
<1> QED BY <1>1, <1>2, <1>3, <1>4, <1>5, <1>6, <1>7, <1>8

\* The parent's 'close' handler.
LEMMA ParentCloseStep ==
  ASSUME IInv, NEW k \in Conns, ParentClose(k)
  PROVE  IInv'
<1> USE HandshakeAssumption
    DEF childVars, parentVars, netVars, historyVars, IInv, Envelope, Messages, Frames
<1>1. TypeOK'
  BY DEF ParentClose, TypeOK
<1>2. Attached'
  BY DEF ParentClose, Attached
<1>3. OneOwner'
  BY DEF ParentClose, OneOwner
<1>4. ParentForgets'
  BY DEF ParentClose, ParentForgets, TypeOK
<1>5. ChildForgets'
  BY DEF ParentClose, ChildForgets
<1>6. Accepted'
  BY DEF ParentClose, Accepted
<1>7. Proven'
  <2>1. \A d \in Children : toParent'[conn[d]] \in {toParent[conn[d]], <<>>}
    BY DEF ParentClose, TypeOK
  <2>2. \A d \in Children : m_s2s_authed'[conn[d]] => m_s2s_authed[conn[d]]
    BY DEF ParentClose, TypeOK
  <2>3. UNCHANGED <<conn, toChild>> /\ <<>> \in Seq(Messages)
    BY DEF ParentClose
  <2> QED BY <2>1, <2>2, <2>3 DEF Proven, Trustworthy, LoadedKeys
<1>8. GateHolds'
  BY DEF ParentClose, Trustworthy, LoadedKeys, GateHolds
<1> QED BY <1>1, <1>2, <1>3, <1>4, <1>5, <1>6, <1>7, <1>8

\* The wire is cut under a connection.
LEMMA BreakStep ==
  ASSUME IInv, NEW k \in Conns, Break(k)
  PROVE  IInv'
<1> USE HandshakeAssumption
    DEF childVars, parentVars, netVars, historyVars, IInv, Envelope, Messages, Frames
<1>1. TypeOK'
  BY DEF Break, TypeOK
<1>2. Attached'
  BY DEF Break, Attached
<1>3. OneOwner'
  BY DEF Break, OneOwner
<1>4. ParentForgets'
  BY DEF Break, ParentForgets
<1>5. ChildForgets'
  BY DEF Break, ChildForgets
<1>6. Accepted'
  BY DEF Break, Accepted
<1>7. Proven'
  <2>1. UNCHANGED <<conn, m_s2s_authed>>
    BY DEF Break
  <2>2. PICK i \in 0..Len(toParent[k]) : toParent' = [toParent EXCEPT ![k] = SubSeq(@, 1, i)]
    BY DEF Break
  <2>3. PICK j \in 0..Len(toChild[k]) : toChild' = [toChild EXCEPT ![k] = SubSeq(@, 1, j)]
    BY DEF Break
  <2>4. SUFFICES ASSUME NEW d \in Children, conn[d] # None
                 PROVE  /\ d \notin Signers => toParent'[conn[d]] \in Seq(Messages)
                        /\ ~Trustworthy(d) => toChild'[conn[d]] \in Seq({Envelope})
    BY <2>1 DEF Proven, Trustworthy, LoadedKeys
  <2>5. CASE conn[d] # k
    BY <2>2, <2>3, <2>4, <2>5 DEF Proven, TypeOK
  <2>6. CASE conn[d] = k
    <3>1. ASSUME d \notin Signers PROVE toParent'[k] \in Seq(Messages)
      <4>1. toParent[k] \in Seq(Messages)
        BY <2>4, <2>6, <3>1 DEF Proven
      <4> QED BY <2>2, <4>1, Prefix DEF TypeOK
    <3>2. ASSUME ~Trustworthy(d) PROVE toChild'[k] \in Seq({Envelope})
      <4>1. toChild[k] \in Seq({Envelope})
        BY <2>4, <2>6, <3>2 DEF Proven
      <4> QED BY <2>3, <4>1, Prefix DEF TypeOK
    <3> QED BY <2>6, <3>1, <3>2
  <2> QED BY <2>5, <2>6
<1>8. GateHolds'
  BY DEF Break, Trustworthy, LoadedKeys, GateHolds
<1> QED BY <1>1, <1>2, <1>3, <1>4, <1>5, <1>6, <1>7, <1>8

\* The parent forwards a message to the connections it trusts.
LEMMA ParentForwardStep ==
  ASSUME IInv, NEW source \in Conns \cup {None}, ParentForward(source)
  PROVE  IInv'
<1> USE HandshakeAssumption
    DEF childVars, parentVars, netVars, historyVars, IInv, Envelope, Messages, Frames
<1>1. TypeOK'
  <2>1. posts + 1 \in Frames /\ posts' \in 0..MaxPosts
    BY DEF ParentForward, TypeOK
  <2>2. toChild' \in [Conns -> Seq(Frames)]
    BY <2>1, SentType DEF ParentForward, TypeOK
  <2> QED BY <2>1, <2>2 DEF ParentForward, TypeOK
<1>2. Attached'
  BY DEF ParentForward, Sent, ForwardTargets, Attached
<1>3. OneOwner'
  BY DEF ParentForward, Sent, ForwardTargets, OneOwner
<1>4. ParentForgets'
  BY DEF ParentForward, Sent, ForwardTargets, ParentForgets
<1>5. ChildForgets'
  BY DEF ParentForward, Sent, ForwardTargets, ChildForgets
<1>6. Accepted'
  BY DEF ParentForward, Sent, ForwardTargets, Accepted, TypeOK
<1>7. Proven'
  BY DEF ParentForward, Sent, ForwardTargets, Trustworthy, LoadedKeys, Proven, TypeOK
<1>8. GateHolds'
  BY DEF ParentForward, Sent, ForwardTargets, Trustworthy, LoadedKeys, GateHolds
<1> QED BY <1>1, <1>2, <1>3, <1>4, <1>5, <1>6, <1>7, <1>8

\* The parent process ends, and with it all its connections.
LEMMA ParentRestartStep ==
  ASSUME IInv, ParentRestart
  PROVE  IInv'
<1> USE HandshakeAssumption
    DEF childVars, parentVars, netVars, historyVars, IInv, Envelope, Messages, Frames
<1>1. TypeOK'
  <2>1. toParent' \in [Conns -> Seq(Frames)]
    BY DEF ParentRestart
  <2>2. wire' \in [Conns -> {"up", "cut", "closed"}]
    BY DEF ParentRestart, TypeOK
  <2> QED BY <2>1, <2>2 DEF ParentRestart, TypeOK
<1>2. Attached'
  BY DEF ParentRestart, Attached
<1>3. OneOwner'
  BY DEF ParentRestart, OneOwner
<1>4. ParentForgets'
  BY DEF ParentRestart, ParentForgets
<1>5. ChildForgets'
  BY DEF ParentRestart, ChildForgets
<1>6. Accepted'
  BY DEF ParentRestart, Accepted, TypeOK
<1>7. Proven'
  <2>1. \A k \in Conns : toParent'[k] = <<>> /\ ~m_s2s_authed'[k]
    BY DEF ParentRestart
  <2>2. UNCHANGED <<conn, toChild>> /\ <<>> \in Seq(Messages)
    BY DEF ParentRestart
  <2>3. \A d \in Children : conn[d] # None => conn[d] \in Conns
    BY DEF TypeOK
  <2> QED BY <2>1, <2>2, <2>3 DEF Proven, Trustworthy, LoadedKeys
<1>8. GateHolds'
  BY DEF ParentRestart, Trustworthy, LoadedKeys, GateHolds
<1> QED BY <1>1, <1>2, <1>3, <1>4, <1>5, <1>6, <1>7, <1>8

-----------------------------------------------------------------------------
(* The theorems. *)

\* Nothing is attached, trusted or on the wire when the servers start.
LEMMA InvInit == Init => IInv
<1> SUFFICES ASSUME Init PROVE IInv
  OBVIOUS
<1>1. TypeOK
  <2>1. <<>> \in Seq(Frames) /\ 0 \in 0..MaxPosts
    BY HandshakeAssumption
  <2> QED BY <2>1 DEF Init, TypeOK
<1>2. Attached /\ OneOwner /\ ParentForgets /\ ChildForgets /\ Accepted /\ Proven
  BY DEF Init, Attached, OneOwner, ParentForgets, ChildForgets, Accepted, Proven
<1>3. GateHolds
  BY DEF Init, GateHolds
<1> QED BY <1>1, <1>2, <1>3 DEF IInv

\* Nor does a stuttering step disturb it.
LEMMA InvStutter == IInv /\ UNCHANGED vars => IInv'
<1> SUFFICES ASSUME IInv, UNCHANGED vars PROVE IInv'
  OBVIOUS
<1> USE DEF vars, childVars, parentVars, netVars, historyVars
<1>1. TypeOK'
  BY DEF IInv, TypeOK
<1>2. (Attached /\ OneOwner /\ ParentForgets /\ ChildForgets)'
  BY DEF IInv, Attached, OneOwner, ParentForgets, ChildForgets
<1>3. (Accepted /\ Proven /\ GateHolds)'
  BY DEF IInv, Accepted, Proven, GateHolds, Trustworthy, LoadedKeys
<1> QED BY <1>1, <1>2, <1>3 DEF IInv

\* Every step of either end and of the network keeps the invariant.
LEMMA InvNext == IInv /\ [Next]_vars => IInv'
<1> SUFFICES ASSUME IInv, [Next]_vars PROVE IInv'
  OBVIOUS
<1>1. ASSUME NEW c \in Children, ChildStep(c) PROVE IInv'
  BY <1>1, ConnectStep, OnOpenStep, OnReceiveStep, ChildForwardStep, ChildCloseStep
     DEF ChildStep
<1>2. ASSUME NEW c \in Children, Accept(c) \/ ParentMessage(c) PROVE IInv'
  BY <1>2, AcceptStep, ParentMessageStep
<1>3. ASSUME NEW k \in Conns, AuthTimeout(k) \/ ParentClose(k) \/ Break(k) PROVE IInv'
  BY <1>3, AuthTimeoutStep, ParentCloseStep, BreakStep
<1>4. ASSUME NEW source \in Conns \cup {None}, ParentForward(source) PROVE IInv'
  BY <1>4, ParentForwardStep
<1>5. CASE ParentRestart
  BY <1>5, ParentRestartStep
<1>6. CASE UNCHANGED vars
  BY <1>6, InvStutter
<1> QED BY <1>1, <1>2, <1>3, <1>4, <1>5, <1>6 DEF Next

\* The inductive invariant of the handshake.
THEOREM Invariant == Spec => []IInv
<1>1. Init => IInv
  BY InvInit
<1>2. IInv /\ [Next]_vars => IInv'
  BY InvNext
<1> QED BY <1>1, <1>2, PTL DEF Spec

\* The variables of the two ends, the network and the histories keep their types.
THEOREM TypeCorrect == Spec => []TypeOK
<1>1. IInv => TypeOK
  BY DEF IInv
<1> QED BY <1>1, Invariant, PTL

\* Nobody gets a message past the gate of js_parent_comm_server.js, in either
\* direction, without a key of the configuration.
THEOREM GateIsKept == Spec => []GateHolds
<1>1. IInv => GateHolds
  BY DEF IInv
<1> QED BY <1>1, Invariant, PTL
-----------------------------------------------------------------------------
(* The promise of the link.  What it needs beyond IInv: on the connection of  *)
(* a child the challenge is the first frame down and comes once, the answer   *)
(* is one frame up, and until it was accepted there is nothing for the child. *)

Asked(stream) == stream # <<>> /\ Head(stream) = Envelope

\* How far the handshake is on connection k, from what its streams hold.
Handshake(c, k) ==
  /\ DataOf(toChild[k]) \in Seq(Messages)
  /\ \A i, j \in Answers(toParent[k]) : i = j
  /\ parentWs[c] = "connecting" \/ Asked(toChild[k]) => ~answered[c]
  /\ ~answered[c] \/ m_s2s_authed[k] => toParent[k] \in Seq(Messages)
  /\ m_s2s_authed[k] => answered[c]
  /\ wire[k] = "up" /\ ~m_s2s_authed[k] =>
       /\ DataOf(toChild[k]) = <<>>
       /\ answered[c] => Answers(toParent[k]) # {}

InStep(c) == conn[c] # None => Handshake(c, conn[c])

LinkInv == IInv /\ \A c \in Children : InStep(c)

\* A step of one direction of a link, from the values before and after it.
LinkStep(up, up2, q, q2, d, d2) ==
  \/ ~up /\ up2 /\ q = <<>> /\ q2 = <<>> /\ d2 = d
  \/ up /\ up2 /\ (\E m \in Messages : q2 = Append(q, m)) /\ d2 = d
  \/ (up2 <=> up) /\ q # <<>> /\ q2 = Tail(q) /\ d2 = Append(d, Head(q))
  \/ ~up2 /\ (\E n \in 0..Len(q) : q2 = SubSeq(q, 1, n)) /\ d2 = d
  \/ (up2 <=> up) /\ q2 = q /\ d2 = d

UpStep(c) ==
  LinkStep(UpLinked(c), UpLinked(c)', Untaken(c), Untaken(c)', taken[c], taken'[c])

DownStep(c) ==
  LinkStep(DownLinked(c), DownLinked(c)', Unheard(c), Unheard(c)', heard[c], heard'[c])

Kept(c) == InStep(c)' /\ UpStep(c) /\ DownStep(c)

-----------------------------------------------------------------------------
(* What a stream holds for its reader, as it is written, read and cut. *)

\* What is held for a reader is part of the stream.
LEMMA HeldType ==
  ASSUME NEW s \in Seq(Frames)
  PROVE  DataOf(s) \in Seq(Frames) /\ AfterAnswer(s) \in Seq(Frames)
<1>1. DataOf(s) \in Seq(Frames)
  BY Rest DEF DataOf
<1>2. CASE Answers(s) = {}
  BY <1>1, <1>2 DEF AfterAnswer
<1>3. CASE Answers(s) # {}
  <2> DEFINE e == CHOOSE i \in Answers(s) : TRUE
  <2>1. e \in 1..Len(s)
    BY <1>3 DEF Answers
  <2>2. AfterAnswer(s) = SubSeq(s, e + 1, Len(s))
    BY <1>3 DEF AfterAnswer
  <2> HIDE DEF e
  <2> QED BY <1>1, <2>1, <2>2, SubSeqProperties
<1> QED BY <1>2, <1>3

\* Messages are what is left when there is no challenge.
LEMMA DataPlain ==
  ASSUME NEW s \in Seq(Messages)
  PROVE  DataOf(s) = s /\ ~Asked(s)
<1>1. s # <<>> => Head(s) \in Messages
  BY HeadTailProperties
<1> QED BY <1>1 DEF DataOf, Asked, Messages, Envelope

\* A message put on a stream is put behind what the stream holds.
LEMMA DataAppend ==
  ASSUME NEW s \in Seq(Frames), NEW m \in Messages
  PROVE  /\ DataOf(Append(s, m)) = Append(DataOf(s), m)
         /\ Asked(Append(s, m)) => Asked(s)
<1>1. /\ Head(Append(s, m)) = IF s = <<>> THEN m ELSE Head(s)
      /\ Tail(Append(s, m)) = IF s = <<>> THEN <<>> ELSE Append(Tail(s), m)
  BY HeadTailAppend
<1>2. m \in Frames /\ m # Envelope
  BY DEF Messages, Frames, Envelope
<1>3. Append(s, m) # <<>>
  BY <1>2, AppendProperties
<1> QED BY <1>1, <1>2, <1>3 DEF DataOf, Asked

\* The challenge is read first, and leaves what the stream holds; then ...
LEMMA DataAsked ==
  ASSUME NEW s \in Seq(Frames), DataOf(s) \in Seq(Messages), Asked(s)
  PROVE  DataOf(Tail(s)) = DataOf(s) /\ ~Asked(Tail(s))
<1>1. Tail(s) = DataOf(s)
  BY DEF DataOf, Asked
<1> QED BY <1>1, DataPlain

\* ... what is read is the first message the stream holds.
LEMMA DataRead ==
  ASSUME NEW s \in Seq(Frames), DataOf(s) \in Seq(Messages), s # <<>>, ~Asked(s)
  PROVE  /\ DataOf(s) = s
         /\ DataOf(Tail(s)) = Tail(s)
         /\ Tail(s) \in Seq(Messages)
         /\ ~Asked(Tail(s))
<1>1. DataOf(s) = s
  BY DEF DataOf, Asked
<1>2. Tail(s) \in Seq(Messages)
  BY <1>1, Rest
<1> QED BY <1>1, <1>2, DataPlain

\* When a stream is cut, so is what it holds.
LEMMA DataCut ==
  ASSUME NEW s \in Seq(Frames), NEW i \in 0..Len(s)
  PROVE  /\ \E n \in 0..Len(DataOf(s)) :
              DataOf(SubSeq(s, 1, i)) = SubSeq(DataOf(s), 1, n)
         /\ Asked(SubSeq(s, 1, i)) => Asked(s)
<1>1. CASE i = 0
  <2>1. SubSeq(s, 1, i) = <<>> /\ SubSeq(DataOf(s), 1, 0) = <<>>
    BY <1>1, SubSeqEmpty
  <2>2. Len(DataOf(s)) \in Nat
    BY HeadTailProperties DEF DataOf
  <2> QED BY <2>1, <2>2 DEF DataOf, Asked
<1>2. CASE i > 0
  <2>1. i \in 1..Len(s) /\ s # <<>> /\ Len(s) \in Nat
    BY <1>2
  <2>2. Head(SubSeq(s, 1, i)) = s[1] /\ Tail(SubSeq(s, 1, i)) = SubSeq(s, 2, i)
    BY <2>1, HeadTailOfSubSeq
  <2>3. SubSeq(s, 1, i) # <<>>
    BY <2>1, SubSeqProperties
  <2>4. CASE s[1] = Envelope
    <3>1. DataOf(SubSeq(s, 1, i)) = SubSeq(s, 2, i) /\ Asked(s)
      BY <2>1, <2>2, <2>3, <2>4 DEF DataOf, Asked
    <3>2. DataOf(s) = Tail(s) /\ Tail(s) \in Seq(Frames) /\ Len(Tail(s)) = Len(s) - 1
          /\ \A j \in 1..Len(Tail(s)) : Tail(s)[j] = s[j + 1]
      BY <2>1, <2>4, HeadTailProperties DEF DataOf
    <3>3. SubSeq(s, 2, i) = SubSeq(Tail(s), 1, i - 1)
      <4>1. /\ SubSeq(s, 2, i) \in Seq(Frames) /\ Len(SubSeq(s, 2, i)) = i - 1
            /\ \A j \in 1..(i - 1) : SubSeq(s, 2, i)[j] = s[j + 1]
        BY <2>1, SubSeqProperties
      <4>2. /\ SubSeq(Tail(s), 1, i - 1) \in Seq(Frames)
            /\ Len(SubSeq(Tail(s), 1, i - 1)) = i - 1
            /\ \A j \in 1..(i - 1) : SubSeq(Tail(s), 1, i - 1)[j] = Tail(s)[j]
        BY <2>1, <3>2, SubSeqProperties
      <4> QED BY <2>1, <3>2, <4>1, <4>2, SeqEqual
    <3> QED BY <2>1, <3>1, <3>2, <3>3
  <2>5. CASE s[1] # Envelope
    <3>1. DataOf(SubSeq(s, 1, i)) = SubSeq(s, 1, i) /\ ~Asked(SubSeq(s, 1, i))
      BY <2>2, <2>3, <2>5 DEF DataOf, Asked
    <3>2. DataOf(s) = s
      BY <2>1, <2>5 DEF DataOf
    <3> QED BY <3>1, <3>2
  <2> QED BY <2>4, <2>5
<1> QED BY <1>1, <1>2

\* Without an answer nothing counts.
LEMMA NoAnswer ==
  ASSUME NEW s \in Seq(Messages)
  PROVE  Answers(s) = {} /\ AfterAnswer(s) = <<>>
<1>1. \A i \in 1..Len(s) : s[i] \in Messages
  BY ElementOfSeq
<1> QED BY <1>1 DEF Answers, AfterAnswer, Messages, Envelope

\* Behind the one answer everything counts.
LEMMA OneAnswer ==
  ASSUME NEW s \in Seq(Frames), \A i, j \in Answers(s) : i = j, NEW e \in Answers(s)
  PROVE  AfterAnswer(s) = SubSeq(s, e + 1, Len(s))
BY DEF AfterAnswer

\* What is sent behind the answer counts.
LEMMA AnswerAppend ==
  ASSUME NEW s \in Seq(Frames), \A i, j \in Answers(s) : i = j, Answers(s) # {},
         NEW m \in Messages
  PROVE  /\ AfterAnswer(Append(s, m)) = Append(AfterAnswer(s), m)
         /\ Answers(Append(s, m)) = Answers(s)
<1> DEFINE t == Append(s, m)
<1>1. /\ t \in Seq(Frames) /\ Len(t) = Len(s) + 1 /\ Len(s) \in Nat
      /\ \A i \in 1..Len(s) : t[i] = s[i]
      /\ t[Len(s) + 1] = m /\ m \in Frames /\ m # Envelope
  BY DEF Messages, Frames, Envelope
<1> HIDE DEF t
<1>2. Answers(t) = Answers(s)
  BY <1>1 DEF Answers
<1>3. PICK e \in Answers(s) : TRUE
  OBVIOUS
<1>4. e \in 1..Len(s)
  BY DEF Answers
<1>5. AfterAnswer(s) = SubSeq(s, e + 1, Len(s))
  BY OneAnswer
<1>6. AfterAnswer(t) = SubSeq(t, e + 1, Len(s) + 1)
  BY <1>1, <1>2, OneAnswer
<1>7. SubSeq(t, e + 1, Len(s) + 1) = Append(SubSeq(s, e + 1, Len(s)), m)
  <2> DEFINE a == SubSeq(s, e + 1, Len(s))
             b == SubSeq(t, e + 1, Len(s) + 1)
  <2>1. /\ a \in Seq(Frames) /\ Len(a) = Len(s) - e
        /\ \A i \in 1..(Len(s) - e) : a[i] = s[e + i]
    BY <1>1, <1>4, SubSeqProperties
  <2>2. /\ b \in Seq(Frames) /\ Len(b) = Len(s) - e + 1
        /\ \A i \in 1..(Len(s) - e + 1) : b[i] = t[e + i]
    BY <1>1, <1>4, SubSeqProperties
  <2> HIDE DEF a, b
  <2>3. /\ Append(a, m) \in Seq(Frames) /\ Len(Append(a, m)) = Len(a) + 1
        /\ \A i \in 1..Len(a) : Append(a, m)[i] = a[i]
        /\ Append(a, m)[Len(a) + 1] = m
    BY <1>1, <2>1
  <2>4. ASSUME NEW i \in 1..Len(b) PROVE b[i] = Append(a, m)[i]
    <3>1. CASE i = Len(s) - e + 1
      <4>1. b[i] = t[Len(s) + 1]
        BY <1>1, <1>4, <2>2, <3>1
      <4> QED BY <1>1, <2>1, <2>3, <3>1, <4>1
    <3>2. CASE i # Len(s) - e + 1
      <4>1. i \in 1..(Len(s) - e) /\ e + i \in 1..Len(s)
        <5>1. i \in 1..(Len(s) - e + 1) /\ e \in Nat /\ Len(s) \in Nat /\ e >= 1
          BY <1>1, <1>4, <2>2
        <5> QED BY <3>2, <5>1
      <4> QED BY <1>1, <2>1, <2>2, <2>3, <4>1
    <3> QED BY <3>1, <3>2
  <2>5. Len(b) = Len(Append(a, m))
    BY <2>1, <2>2, <2>3
  <2>6. b = Append(a, m)
    BY <2>2, <2>3, <2>4, <2>5, SeqEqual
  <2> QED BY <2>6 DEF a, b
<1> QED BY <1>2, <1>5, <1>6, <1>7 DEF t

\* When the answer is sent, nothing is behind it yet.
LEMMA AnswerSent ==
  ASSUME NEW s \in Seq(Messages)
  PROVE  /\ AfterAnswer(Append(s, Envelope)) = <<>>
         /\ \A i, j \in Answers(Append(s, Envelope)) : i = j
         /\ Answers(Append(s, Envelope)) # {}
<1> DEFINE t == Append(s, Envelope)
<1>1. /\ Len(t) = Len(s) + 1 /\ Len(s) \in Nat
      /\ \A i \in 1..Len(s) : t[i] \in Messages
      /\ t[Len(s) + 1] = Envelope
  OBVIOUS
<1>2. t \in Seq(Frames)
  <2>1. s \in Seq(Frames) /\ Envelope \in Frames
    BY HandshakeAssumption, SeqMonotonic DEF Messages, Frames, Envelope
  <2> QED BY <2>1
<1> HIDE DEF t
<1>3. Answers(t) = {Len(s) + 1}
  BY <1>1 DEF Answers, Messages, Envelope
<1>4. AfterAnswer(t) = SubSeq(t, Len(s) + 1 + 1, Len(t))
  BY <1>2, <1>3, OneAnswer
<1>5. AfterAnswer(t) = <<>>
  BY <1>1, <1>4, SubSeqEmpty
<1> QED BY <1>3, <1>5 DEF t

\* Up to the answer nothing is read that counts; the answer leaves what does.
LEMMA AnswerRead ==
  ASSUME NEW s \in Seq(Frames), \A i, j \in Answers(s) : i = j, s # <<>>
  PROVE  /\ Head(s) = Envelope => AfterAnswer(s) = Tail(s) /\ Tail(s) \in Seq(Messages)
         /\ Head(s) # Envelope => AfterAnswer(Tail(s)) = AfterAnswer(s)
         /\ \A i, j \in Answers(Tail(s)) : i = j
<1> DEFINE t == Tail(s)
<1>1. /\ t \in Seq(Frames) /\ Len(s) \in Nat /\ Len(s) >= 1 /\ Len(t) = Len(s) - 1
      /\ Head(s) = s[1]
      /\ \A i \in 1..Len(t) : t[i] = s[i + 1]
  BY HeadTailProperties
<1>2. t = SubSeq(s, 2, Len(s))
  BY TailIsSubSeq
<1> HIDE DEF t
<1>3. \A i \in Answers(t) : i \in 1..Len(t) /\ i + 1 \in Answers(s)
  BY <1>1 DEF Answers
<1>4. \A i, j \in Answers(t) : i = j
  BY <1>1, <1>3
<1>5. ASSUME Head(s) = Envelope PROVE AfterAnswer(s) = t /\ t \in Seq(Messages)
  <2>1. 1 \in Answers(s)
    BY <1>1, <1>5 DEF Answers
  <2>2. AfterAnswer(s) = t
    <3>1. AfterAnswer(s) = SubSeq(s, 1 + 1, Len(s))
      BY <2>1, OneAnswer
    <3> QED BY <1>2, <3>1
  <2>3. ASSUME NEW i \in 1..Len(t) PROVE t[i] \in Messages
    <3>1. i \notin Answers(t)
      BY <1>1, <1>3, <2>1
    <3>2. t[i] \in Frames /\ t[i] # Envelope
      BY <1>1, <2>3, <3>1, ElementOfSeq DEF Answers
    <3> QED BY <3>2, HandshakeAssumption DEF Frames, Messages, Envelope
  <2>4. t \in Seq(Messages)
    <3>1. t = [i \in 1..Len(t) |-> t[i]] /\ Len(t) \in Nat
      BY <1>1, LenProperties
    <3> QED BY <2>3, <3>1
  <2> QED BY <2>2, <2>4
<1>6. ASSUME Head(s) # Envelope PROVE AfterAnswer(t) = AfterAnswer(s)
  <2>1. \A i \in Answers(s) : i \in 2..Len(s) /\ i - 1 \in Answers(t)
    BY <1>1, <1>6 DEF Answers
  <2>2. CASE Answers(s) = {}
    BY <1>3, <2>2 DEF AfterAnswer
  <2>3. CASE Answers(s) # {}
    <3>1. PICK e \in Answers(s) : TRUE
      BY <2>3
    <3>2. AfterAnswer(s) = SubSeq(s, e + 1, Len(s))
      BY OneAnswer
    <3>3. AfterAnswer(t) = SubSeq(t, e - 1 + 1, Len(t))
      BY <1>1, <1>4, <2>1, OneAnswer
    <3> DEFINE a == SubSeq(s, e + 1, Len(s))
               b == SubSeq(t, e - 1 + 1, Len(t))
    <3>4. /\ a \in Seq(Frames) /\ Len(a) = Len(s) - e
          /\ \A i \in 1..(Len(s) - e) : a[i] = s[e + i]
      BY <1>1, <2>1, SubSeqProperties
    <3>5. /\ b \in Seq(Frames) /\ Len(b) = Len(s) - e
          /\ \A i \in 1..(Len(s) - e) : b[i] = t[e - 1 + i]
      BY <1>1, <2>1, SubSeqProperties
    <3> HIDE DEF a, b
    <3>6. ASSUME NEW i \in 1..Len(a) PROVE a[i] = b[i]
      <4>1. e \in 2..Len(s) /\ i \in 1..(Len(s) - e) /\ i \in Nat /\ e \in Nat
        BY <1>1, <2>1, <3>4
      <4>2. e - 1 + i \in 1..Len(t) /\ e - 1 + i + 1 = e + i
        BY <1>1, <4>1
      <4>3. t[e - 1 + i] = s[e + i]
        BY <1>1, <4>2
      <4> QED BY <3>4, <3>5, <4>1, <4>3
    <3>7. a = b
      BY <3>4, <3>5, <3>6, SeqEqual
    <3> QED BY <3>2, <3>3, <3>7 DEF a, b
  <2> QED BY <2>2, <2>3
<1> QED BY <1>4, <1>5, <1>6 DEF t

\* When a stream is cut, so is what counts of it.
LEMMA AnswerCut ==
  ASSUME NEW s \in Seq(Frames), \A i, j \in Answers(s) : i = j, NEW n \in 0..Len(s)
  PROVE  /\ \E i \in 0..Len(AfterAnswer(s)) :
              AfterAnswer(SubSeq(s, 1, n)) = SubSeq(AfterAnswer(s), 1, i)
         /\ \A i, j \in Answers(SubSeq(s, 1, n)) : i = j
<1> DEFINE t == SubSeq(s, 1, n)
<1>1. /\ t \in Seq(Frames) /\ Len(s) \in Nat /\ Len(t) = n
      /\ \A i \in 1..n : t[i] = s[i]
  BY SubSeqProperties
<1> HIDE DEF t
<1>2. Answers(t) = Answers(s) \cap (1..n)
  BY <1>1 DEF Answers
<1>3. AfterAnswer(s) \in Seq(Frames)
  BY HeldType
<1>4. CASE Answers(t) = {}
  <2>1. AfterAnswer(t) = <<>>
    BY <1>4 DEF AfterAnswer
  <2>2. SubSeq(AfterAnswer(s), 1, 0) = <<>>
    BY SubSeqEmpty
  <2>3. Len(AfterAnswer(s)) \in Nat
    BY <1>3
  <2>4. 0 \in 0..Len(AfterAnswer(s)) /\ AfterAnswer(t) = SubSeq(AfterAnswer(s), 1, 0)
    BY <2>1, <2>2, <2>3
  <2>5. \A i, j \in Answers(t) : i = j
    BY <1>4
  <2> QED BY <2>4, <2>5 DEF t
<1>5. CASE Answers(t) # {}
  <2>1. PICK e \in Answers(t) : TRUE
    BY <1>5
  <2>2. e \in Answers(s) /\ e \in 1..n /\ \A i, j \in Answers(t) : i = j
    BY <1>2
  <2>3. AfterAnswer(s) = SubSeq(s, e + 1, Len(s))
    BY <2>2, OneAnswer
  <2>4. AfterAnswer(t) = SubSeq(t, e + 1, n)
    BY <1>1, <2>2, OneAnswer
  <2> DEFINE a == AfterAnswer(s)
             b == SubSeq(t, e + 1, n)
             c == SubSeq(a, 1, n - e)
  <2>5. /\ Len(a) = Len(s) - e
        /\ \A i \in 1..(Len(s) - e) : a[i] = s[e + i]
    BY <1>1, <2>2, <2>3, SubSeqProperties
  <2>6. /\ b \in Seq(Frames) /\ Len(b) = n - e
        /\ \A i \in 1..(n - e) : b[i] = t[e + i]
    BY <1>1, <2>2, SubSeqProperties
  <2> HIDE DEF a
  <2>7. /\ c \in Seq(Frames) /\ Len(c) = n - e
        /\ \A i \in 1..(n - e) : c[i] = a[i]
    <3>1. \A i \in 1..(n - e) : a[i] \in Frames
      BY <1>1, <1>3, <2>2, <2>5, ElementOfSeq DEF a
    <3> QED BY <1>1, <2>2, <3>1, SubSeqProperties
  <2> HIDE DEF b, c
  <2>8. ASSUME NEW i \in 1..Len(b) PROVE b[i] = c[i]
    <3>1. i \in 1..(n - e) /\ e \in Nat /\ e \in 1..n /\ n \in Nat
      BY <1>1, <2>2, <2>6, <2>8
    <3>2. e + i \in 1..n /\ i \in 1..(Len(s) - e)
      BY <1>1, <3>1
    <3> QED BY <1>1, <2>5, <2>6, <2>7, <3>1, <3>2
  <2>9. b = c
    BY <2>6, <2>7, <2>8, SeqEqual
  <2>10. n - e \in 0..Len(a)
    BY <1>1, <2>2, <2>5
  <2> QED BY <2>2, <2>4, <2>9, <2>10 DEF a, b, c, t
<1> QED BY <1>4, <1>5

-----------------------------------------------------------------------------
(* What a step does to a child's link, one lemma per action. *)

\* What is on its way to a reader is a sequence of frames.
LEMMA QueueType ==
  ASSUME TypeOK, NEW c \in Children
  PROVE  Untaken(c) \in Seq(Frames) /\ Unheard(c) \in Seq(Frames)
<1>1. CASE conn[c] = None
  BY <1>1 DEF Untaken, Unheard
<1>2. CASE conn[c] # None
  <2>1. toParent[conn[c]] \in Seq(Frames) /\ toChild[conn[c]] \in Seq(Frames)
    BY <1>2 DEF TypeOK
  <2> QED BY <1>2, <2>1, HeldType DEF Untaken, Unheard
<1> QED BY <1>1, <1>2

\* All of a queue and none of it are prefixes: what a failure may leave.
LEMMA Lost ==
  ASSUME NEW q \in Seq(Frames)
  PROVE  /\ \E n \in 0..Len(q) : q = SubSeq(q, 1, n)
         /\ \E n \in 0..Len(q) : <<>> = SubSeq(q, 1, n)
<1>1. SubSeq(q, 1, Len(q)) = q /\ Len(q) \in Nat
  BY SubSeqFull
<1>2. SubSeq(q, 1, 0) = <<>>
  BY SubSeqEmpty
<1>3. Len(q) \in 0..Len(q) /\ 0 \in 0..Len(q)
  BY <1>1
<1> QED BY <1>1, <1>2, <1>3

\* A step that leaves a child and its connection as they are.
Untouched(c) ==
  /\ conn'[c] = conn[c]
  /\ parentWs'[c] = parentWs[c]
  /\ answered'[c] = answered[c]
  /\ taken'[c] = taken[c]
  /\ heard'[c] = heard[c]
  /\ conn[c] # None =>
       /\ child_ws'[conn[c]] = child_ws[conn[c]]
       /\ m_s2s_authed'[conn[c]] = m_s2s_authed[conn[c]]
       /\ wire'[conn[c]] = wire[conn[c]]
       /\ toParent'[conn[c]] = toParent[conn[c]]
       /\ toChild'[conn[c]] = toChild[conn[c]]

\* Such a step changes nothing about the child's link.
LEMMA UntouchedKept ==
  ASSUME LinkInv, NEW c \in Children, Untouched(c)
  PROVE  Kept(c)
<1>1. InStep(c)'
  <2>1. InStep(c)
    BY DEF LinkInv
  <2> QED BY <2>1 DEF Untouched, InStep, Handshake
<1>2. UpLinked(c)' <=> UpLinked(c)
  BY DEF Untouched, UpLinked, LinkInv, IInv, Attached
<1>3. DownLinked(c)' <=> DownLinked(c)
  BY DEF Untouched, DownLinked, Linked
<1>4. Untaken(c)' = Untaken(c) /\ Unheard(c)' = Unheard(c)
  BY DEF Untouched, Untaken, Unheard
<1>5. taken'[c] = taken[c] /\ heard'[c] = heard[c]
  BY DEF Untouched
<1>6. UpStep(c)
  BY <1>2, <1>4, <1>5 DEF UpStep, LinkStep
<1>7. DownStep(c)
  BY <1>3, <1>4, <1>5 DEF DownStep, LinkStep
<1> QED BY <1>1, <1>6, <1>7 DEF Kept

\* connectToParent: both directions start empty.
LEMMA ConnectKeeps ==
  ASSUME LinkInv, NEW c \in Children, Connect(c), NEW d \in Children
  PROVE  Kept(d)
<1> USE DEF LinkInv, IInv
<1> DEFINE k == CHOOSE k \in FreeConns : TRUE
<1>1. k \in FreeConns
  BY DEF Connect
<1>2. k \in Conns /\ k # None /\ toChild[k] = <<>> /\ toParent[k] = <<>> /\ ~m_s2s_authed[k]
      /\ child_ws[k] = "none"
  BY <1>1, HandshakeAssumption DEF FreeConns, ChildForgets, ParentForgets
<1>3. conn' = [e \in Children |-> IF e = c THEN k ELSE IF conn[e] = k THEN None
                                 ELSE conn[e]]
  BY DEF Connect
<1>4. /\ UNCHANGED <<child_ws, m_s2s_authed, toParent, toChild, taken, heard>>
      /\ wire' = [wire EXCEPT ![k] = "up"]
      /\ parentWs' = [parentWs EXCEPT ![c] = "connecting"]
      /\ answered' = [answered EXCEPT ![c] = FALSE]
  BY DEF Connect, parentVars
<1>5. parentWs[c] = "null" /\ (conn[c] # None => toParent[conn[c]] = <<>>)
  BY DEF Connect, Attached
<1>6. \A e \in Children : conn[e] = k => parentWs[e] = "null"
  BY <1>1 DEF FreeConns
<1> HIDE DEF k
<1>7. /\ <<>> \in Seq(Messages) /\ Answers(<<>>) = {}
      /\ DataOf(<<>>) = <<>> /\ AfterAnswer(<<>>) = <<>> /\ ~Asked(<<>>)
  <2>1. <<>> \in Seq(Messages)
    OBVIOUS
  <2> QED BY <2>1, DataPlain, NoAnswer
<1>8. CASE d = c
  <2>1. /\ conn'[d] = k /\ parentWs'[d] = "connecting" /\ ~answered'[d]
    BY <1>3, <1>4, <1>8 DEF TypeOK
  <2>2. InStep(d)'
    BY <1>2, <1>4, <1>7, <2>1 DEF InStep, Handshake
  <2>3. ~UpLinked(d) /\ ~UpLinked(d)'
    BY <1>5, <1>8, <2>1 DEF UpLinked
  <2>4. Untaken(d) = <<>> /\ Untaken(d)' = <<>>
    BY <1>2, <1>4, <1>5, <1>7, <1>8, <2>1 DEF Untaken
  <2>5. ~DownLinked(d) /\ Unheard(d) = <<>>
    <3>1. CASE conn[d] = None
      BY <3>1 DEF DownLinked, Unheard
    <3>2. CASE conn[d] # None
      <4>1. wire[conn[d]] # "up" /\ toChild[conn[d]] = <<>>
        <5>1. \A e \in Children : conn[e] = conn[d] => parentWs[e] = "null"
          BY <1>5, <1>8, <3>2 DEF OneOwner
        <5>2. conn[d] \in Conns
          BY <3>2 DEF TypeOK
        <5> QED BY <5>1, <5>2 DEF ChildForgets
      <4> QED BY <1>7, <3>2, <4>1 DEF DownLinked, Linked, Unheard
    <3> QED BY <3>1, <3>2
  <2>6. ~DownLinked(d)' /\ Unheard(d)' = <<>>
    BY <1>2, <1>4, <1>7, <2>1 DEF DownLinked, Linked, Unheard
  <2> QED BY <1>4, <2>2, <2>3, <2>4, <2>5, <2>6 DEF Kept, UpStep, DownStep, LinkStep
<1>9. CASE d # c /\ conn[d] = k
  <2>1. conn'[d] = None /\ parentWs[d] = "null" /\ parentWs'[d] = "null"
    BY <1>3, <1>4, <1>6, <1>9 DEF TypeOK
  <2>2. InStep(d)'
    BY <2>1 DEF InStep
  <2>3. ~UpLinked(d) /\ ~UpLinked(d)' /\ Untaken(d) = <<>> /\ Untaken(d)' = <<>>
    BY <1>2, <1>7, <1>9, <2>1 DEF UpLinked, Untaken
  <2>4. ~DownLinked(d) /\ ~DownLinked(d)' /\ Unheard(d) = <<>> /\ Unheard(d)' = <<>>
    BY <1>2, <1>7, <1>9, <2>1 DEF DownLinked, Linked, Unheard
  <2> QED BY <1>4, <2>2, <2>3, <2>4 DEF Kept, UpStep, DownStep, LinkStep
<1>10. CASE d # c /\ conn[d] # k
  <2>1. Untouched(d)
    BY <1>3, <1>4, <1>10 DEF Untouched, TypeOK
  <2> QED BY <2>1, UntouchedKept
<1> QED BY <1>8, <1>9, <1>10

\* The child's socket opens: it has not answered yet.
LEMMA OnOpenKeeps ==
  ASSUME LinkInv, NEW c \in Children, OnOpen(c), NEW d \in Children
  PROVE  Kept(d)
<1> USE DEF LinkInv, IInv, netVars, historyVars, parentVars
<1>1. CASE d # c
  BY <1>1, UntouchedKept DEF OnOpen, Untouched, TypeOK
<1>2. CASE d = c
  <2>1. /\ parentWs[d] = "connecting" /\ parentWs'[d] = "open"
        /\ UNCHANGED <<conn, child_ws, m_s2s_authed, wire, toParent, toChild,
                       taken, heard, answered>>
    BY <1>2 DEF OnOpen, TypeOK
  <2>2. ~answered[d] /\ InStep(d)
    BY <2>1 DEF InStep, Handshake, Attached
  <2>3. InStep(d)'
    BY <2>1, <2>2 DEF InStep, Handshake
  <2>4. ~UpLinked(d) /\ ~UpLinked(d)' /\ Untaken(d)' = Untaken(d)
    BY <2>1, <2>2 DEF UpLinked, Untaken
  <2>5. (DownLinked(d)' <=> DownLinked(d)) /\ Unheard(d)' = Unheard(d)
    BY <2>1 DEF DownLinked, Linked, Unheard
  <2> QED BY <2>1, <2>3, <2>4, <2>5 DEF Kept, UpStep, DownStep, LinkStep
<1> QED BY <1>1, <1>2

\* The child reads the challenge, and its direction opens; or it hears a
\* message.
LEMMA OnReceiveKeeps ==
  ASSUME LinkInv, NEW c \in Children, OnReceive(c), NEW d \in Children
  PROVE  Kept(d)
<1> USE DEF LinkInv, IInv, childVars, parentVars
<1> DEFINE k == conn[c]
           t == toChild[k]
<1>1. /\ k \in Conns /\ k # None /\ parentWs[c] = "open"
      /\ t \in Seq(Frames) /\ toParent[k] \in Seq(Frames) /\ t # <<>>
  BY DEF OnReceive, TypeOK, Attached
<1>2. /\ UNCHANGED <<conn, parentWs, child_ws, m_s2s_authed, wire, taken>>
      /\ toChild' = [toChild EXCEPT ![k] = Tail(t)]
  BY DEF OnReceive
<1>3. \/ Head(t) = Envelope /\ OnChallenge(c)
      \/ Head(t) # Envelope /\ OnRelayed(c, Head(t))
  BY DEF OnReceive
<1>4. Handshake(c, k)
  BY <1>1 DEF InStep
<1> HIDE DEF k, t
<1>5. CASE d # c
  <2>1. heard'[d] = heard[d] /\ answered'[d] = answered[d]
    BY <1>3, <1>5 DEF OnChallenge, OnRelayed, TypeOK
  <2>2. conn[d] # None =>
          toParent'[conn[d]] = toParent[conn[d]] /\ toChild'[conn[d]] = toChild[conn[d]]
    BY <1>1, <1>2, <1>3, <1>5 DEF OnChallenge, OnRelayed, Sent, OneOwner, TypeOK, k
  <2> QED BY <1>2, <2>1, <2>2, UntouchedKept DEF Untouched
<1>6. CASE d = c /\ Head(t) = Envelope
  <2>1. OnChallenge(c) /\ Asked(t) /\ UNCHANGED heard
    BY <1>1, <1>3, <1>6 DEF Asked, OnChallenge
  <2>2. /\ ~answered[c] /\ ~m_s2s_authed[k] /\ toParent[k] \in Seq(Messages)
        /\ DataOf(t) \in Seq(Messages)
    BY <1>4, <2>1 DEF Handshake, t
  <2>3. toChild'[k] = Tail(t) /\ DataOf(Tail(t)) = DataOf(t) /\ ~Asked(Tail(t))
    BY <1>1, <1>2, <2>1, <2>2, DataAsked DEF TypeOK
  <2>4. (DownLinked(c)' <=> DownLinked(c)) /\ Unheard(c)' = Unheard(c)
    BY <1>1, <1>2, <2>3 DEF DownLinked, Linked, Unheard, k, t
  <2>5. Untaken(c) = <<>> /\ ~UpLinked(c) /\ Answers(toParent[k]) = {}
    BY <1>1, <2>2, NoAnswer DEF Untaken, UpLinked, k
  <2>6. CASE c \in Signers
    <3>1. /\ answered'[c]
          /\ toParent'[k] = IF wire[k] = "up" THEN Append(toParent[k], Envelope)
                                             ELSE toParent[k]
      BY <1>1, <2>1, <2>6 DEF OnChallenge, Sent, TypeOK, k
    <3>2. AfterAnswer(toParent'[k]) = <<>>
          /\ (\A i, j \in Answers(toParent'[k]) : i = j)
          /\ (wire[k] = "up" => Answers(toParent'[k]) # {})
      BY <2>2, <3>1, AnswerSent, NoAnswer
    <3>3. Untaken(c)' = <<>> /\ (UpLinked(c)' <=> wire[k] = "up")
      BY <1>1, <1>2, <2>2, <3>1, <3>2 DEF Untaken, UpLinked, k
    <3>4. InStep(c)'
      BY <1>2, <1>1, <1>4, <2>2, <2>3, <3>1, <3>2 DEF InStep, Handshake, k, t
    <3>5. UpStep(c)
      BY <1>2, <2>5, <3>3 DEF UpStep, LinkStep
    <3>6. DownStep(c)
      BY <2>1, <2>4 DEF DownStep, LinkStep
    <3> QED BY <1>6, <3>4, <3>5, <3>6 DEF Kept
  <2>7. CASE c \notin Signers
    <3>1. UNCHANGED <<answered, toParent>>
      BY <2>1, <2>7 DEF OnChallenge
    <3>2. InStep(c)'
      BY <1>2, <1>1, <1>4, <2>2, <2>3, <3>1 DEF InStep, Handshake, k, t
    <3>3. Untaken(c)' = Untaken(c) /\ (UpLinked(c)' <=> UpLinked(c))
      BY <1>2, <3>1 DEF Untaken, UpLinked
    <3>4. UpStep(c)
      BY <1>2, <3>3 DEF UpStep, LinkStep
    <3>5. DownStep(c)
      BY <2>1, <2>4 DEF DownStep, LinkStep
    <3> QED BY <1>6, <3>2, <3>4, <3>5 DEF Kept
  <2> QED BY <2>6, <2>7
<1>7. CASE d = c /\ Head(t) # Envelope
  <2>1. OnRelayed(c, Head(t)) /\ UNCHANGED <<toParent, answered>>
        /\ heard'[c] = Append(heard[c], Head(t))
    BY <1>3, <1>7 DEF OnRelayed, TypeOK
  <2>2. ~Asked(t) /\ DataOf(t) \in Seq(Messages)
    BY <1>4, <1>7 DEF Asked, Handshake, t
  <2>3. /\ toChild'[k] = Tail(t) /\ DataOf(t) = t /\ DataOf(Tail(t)) = Tail(t)
        /\ Tail(t) \in Seq(Messages) /\ ~Asked(Tail(t))
    BY <1>1, <1>2, <2>2, DataRead DEF TypeOK
  <2>4. Unheard(c) = t /\ Unheard(c)' = Tail(t) /\ (DownLinked(c)' <=> DownLinked(c))
    BY <1>1, <1>2, <2>3 DEF DownLinked, Linked, Unheard, k, t
  <2>5. Untaken(c)' = Untaken(c) /\ (UpLinked(c)' <=> UpLinked(c))
    BY <1>2, <2>1 DEF Untaken, UpLinked
  <2>6. InStep(c)'
    BY <1>1, <1>2, <1>4, <2>1, <2>3 DEF InStep, Handshake, k, t
  <2>7. UpStep(c)
    BY <1>2, <2>5 DEF UpStep, LinkStep
  <2>8. DownStep(c)
    BY <1>1, <2>1, <2>4 DEF DownStep, LinkStep
  <2> QED BY <1>7, <2>6, <2>7, <2>8 DEF Kept
<1> QED BY <1>5, <1>6, <1>7

\* The child forwards a message: it counts if the child has answered.
LEMMA ChildForwardKeeps ==
  ASSUME LinkInv, NEW c \in Children, ChildForward(c), NEW d \in Children
  PROVE  Kept(d)
<1> USE DEF LinkInv, IInv, childVars, parentVars
<1> DEFINE k == conn[c]
           s == toParent[k]
           m == posts + 1
<1>1. /\ k \in Conns /\ k # None /\ parentWs[c] = "open" /\ s \in Seq(Frames)
      /\ m \in Messages
  BY HandshakeAssumption DEF ChildForward, TypeOK, Attached, Messages
<1>2. /\ UNCHANGED <<conn, parentWs, child_ws, m_s2s_authed, wire, toChild,
                     taken, heard, answered>>
      /\ toParent' = Sent(toParent, {k}, m)
  BY DEF ChildForward
<1>3. Handshake(c, k)
  BY <1>1 DEF InStep
<1> HIDE DEF k, s, m
<1>4. CASE d # c
  <2>1. conn[d] # None => toParent'[conn[d]] = toParent[conn[d]]
    BY <1>1, <1>2, <1>4 DEF Sent, OneOwner, TypeOK, k
  <2> QED BY <1>2, <2>1, UntouchedKept DEF Untouched
<1>5. CASE d = c /\ wire[k] # "up"
  <2>1. toParent'[k] = toParent[k]
    BY <1>1, <1>2, <1>5 DEF Sent, TypeOK
  <2> QED BY <1>2, <1>5, <2>1, UntouchedKept DEF Untouched, k
<1>6. CASE d = c /\ wire[k] = "up"
  <2>1. toParent'[k] = Append(s, m)
    BY <1>1, <1>2, <1>6 DEF Sent, TypeOK, s
  <2>2. DownStep(c)
    BY <1>2 DEF DownStep, DownLinked, Linked, Unheard, LinkStep
  <2>3. CASE ~answered[c]
    <3>1. s \in Seq(Messages) /\ ~m_s2s_authed[k]
      BY <1>3, <2>3 DEF Handshake, s
    <3>2. Append(s, m) \in Seq(Messages)
      BY <1>1, <3>1
    <3>3. /\ AfterAnswer(s) = <<>> /\ AfterAnswer(Append(s, m)) = <<>>
          /\ Answers(Append(s, m)) = {}
      BY <3>1, <3>2, NoAnswer
    <3>4. InStep(c)'
      BY <1>1, <1>2, <1>3, <2>1, <2>3, <3>1, <3>2, <3>3 DEF InStep, Handshake, k, s
    <3>5. UpStep(c)
      BY <1>1, <1>2, <2>1, <2>3, <3>1, <3>3
         DEF UpStep, UpLinked, Untaken, LinkStep, k, s
    <3> QED BY <1>6, <2>2, <3>4, <3>5 DEF Kept
  <2>4. CASE answered[c]
    <3>1. UpLinked(c) /\ UpLinked(c)'
      BY <1>1, <1>2, <1>6, <2>4 DEF UpLinked, k
    <3>2. CASE m_s2s_authed[k]
      <4>1. s \in Seq(Messages)
        BY <1>3, <3>2 DEF Handshake, s
      <4>2. Append(s, m) \in Seq(Messages)
        BY <1>1, <4>1
      <4>3. Answers(Append(s, m)) = {}
        BY <4>2, NoAnswer
      <4>4. InStep(c)'
        BY <1>1, <1>2, <1>3, <2>1, <2>4, <3>2, <4>2, <4>3 DEF InStep, Handshake, k
      <4>5. Untaken(c) = s /\ Untaken(c)' = Append(s, m)
        BY <1>1, <1>2, <2>1, <3>2 DEF Untaken, k, s
      <4>6. UpStep(c)
        BY <1>1, <1>2, <3>1, <4>5 DEF UpStep, LinkStep
      <4> QED BY <1>6, <2>2, <4>4, <4>6 DEF Kept
    <3>3. CASE ~m_s2s_authed[k]
      <4>1. (\A i, j \in Answers(s) : i = j) /\ Answers(s) # {}
        BY <1>3, <1>6, <2>4, <3>3 DEF Handshake, s
      <4>2. /\ AfterAnswer(Append(s, m)) = Append(AfterAnswer(s), m)
            /\ Answers(Append(s, m)) = Answers(s)
        BY <1>1, <4>1, AnswerAppend
      <4>3. InStep(c)'
        BY <1>1, <1>2, <1>3, <2>1, <2>4, <3>3, <4>1, <4>2 DEF InStep, Handshake, k
      <4>4. Untaken(c) = AfterAnswer(s) /\ Untaken(c)' = Append(AfterAnswer(s), m)
        BY <1>1, <1>2, <2>1, <3>3, <4>2 DEF Untaken, k, s
      <4>5. UpStep(c)
        BY <1>1, <1>2, <3>1, <4>4 DEF UpStep, LinkStep
      <4> QED BY <1>6, <2>2, <4>3, <4>5 DEF Kept
    <3> QED BY <3>2, <3>3
  <2> QED BY <2>3, <2>4
<1> QED BY <1>4, <1>5, <1>6

\* The child's 'close' handler: what it has not heard is lost.
LEMMA ChildCloseKeeps ==
  ASSUME LinkInv, NEW c \in Children, ChildClose(c), NEW d \in Children
  PROVE  Kept(d)
<1> USE DEF LinkInv, IInv, parentVars, historyVars
<1> DEFINE k == conn[c]
<1>1. k \in Conns /\ k # None /\ wire[k] # "up"
  BY DEF ChildClose, TypeOK, Attached
<1>2. /\ UNCHANGED <<conn, child_ws, m_s2s_authed, wire, toParent, taken, heard, answered>>
      /\ parentWs' = [parentWs EXCEPT ![c] = "null"]
      /\ toChild' = [toChild EXCEPT ![k] = <<>>]
  BY DEF ChildClose
<1>3. Handshake(c, k)
  BY <1>1 DEF InStep
<1> HIDE DEF k
<1>4. CASE d # c
  <2>1. conn[d] # None => toChild'[conn[d]] = toChild[conn[d]]
    BY <1>1, <1>2, <1>4 DEF OneOwner, TypeOK, k
  <2> QED BY <1>2, <1>4, <2>1, UntouchedKept DEF Untouched, TypeOK
<1>5. CASE d = c
  <2>1. parentWs'[c] = "null" /\ toChild'[k] = <<>>
    BY <1>1, <1>2 DEF TypeOK
  <2>2. <<>> \in Seq(Messages)
    OBVIOUS
  <2>3. DataOf(<<>>) = <<>> /\ ~Asked(<<>>)
    BY <2>2, DataPlain
  <2>4. InStep(c)'
    BY <1>1, <1>2, <1>3, <2>1, <2>2, <2>3 DEF InStep, Handshake, k
  <2>5. UpStep(c)
    BY <1>1, <1>2, <2>1 DEF UpStep, UpLinked, Untaken, LinkStep, k
  <2>6. Unheard(c)' = <<>> /\ ~DownLinked(c)'
    BY <1>1, <1>2, <2>1, <2>3 DEF Unheard, DownLinked, Linked, k
  <2>7. DownStep(c)
    BY <1>2, <2>6, QueueType, Lost DEF DownStep, LinkStep
  <2> QED BY <1>5, <2>4, <2>5, <2>7 DEF Kept
<1> QED BY <1>4, <1>5

\* The parent accepts a connection: the challenge is the first frame on it.
LEMMA AcceptKeeps ==
  ASSUME LinkInv, NEW c \in Children, Accept(c), NEW d \in Children
  PROVE  Kept(d)
<1> USE DEF LinkInv, IInv, childVars, historyVars
<1> DEFINE k == conn[c]
<1>1. /\ k \in Conns /\ k # None /\ parentWs[c] = "connecting" /\ wire[k] = "up"
      /\ child_ws[k] = "none" /\ ~m_s2s_authed[k]
  BY DEF Accept, TypeOK, Attached, ParentForgets
<1>2. /\ UNCHANGED <<conn, parentWs, wire, toParent, taken, heard, answered>>
      /\ child_ws' = [child_ws EXCEPT ![k] = "open"]
      /\ m_s2s_authed' = [m_s2s_authed EXCEPT ![k] = FALSE]
      /\ toChild' = Sent(toChild, {k}, Envelope)
  BY DEF Accept
<1>3. toChild[k] = <<>>
  BY <1>1 DEF Accepted
<1>4. Handshake(c, k)
  BY <1>1 DEF InStep
<1> HIDE DEF k
<1>5. CASE d # c
  <2>1. conn[d] # None =>
          /\ toChild'[conn[d]] = toChild[conn[d]]
          /\ child_ws'[conn[d]] = child_ws[conn[d]]
          /\ m_s2s_authed'[conn[d]] = m_s2s_authed[conn[d]]
    BY <1>1, <1>2, <1>5 DEF OneOwner, TypeOK, Sent, k
  <2> QED BY <1>2, <2>1, UntouchedKept DEF Untouched
<1>6. CASE d = c
  <2>1. toChild'[k] = <<Envelope>> /\ ~m_s2s_authed'[k]
    BY <1>1, <1>2, <1>3 DEF Sent, TypeOK
  <2>2. <<>> \in Seq(Messages) /\ Tail(<<Envelope>>) = <<>>
        /\ Head(<<Envelope>>) = Envelope /\ <<Envelope>> # <<>>
    OBVIOUS
  <2>3. DataOf(<<>>) = <<>> /\ DataOf(<<Envelope>>) = <<>>
    BY <2>2 DEF DataOf
  <2>4. InStep(c)'
    BY <1>1, <1>2, <1>3, <1>4, <2>1, <2>2, <2>3 DEF InStep, Handshake, k
  <2>5. UpStep(c)
    BY <1>1, <1>2, <2>1 DEF UpStep, UpLinked, Untaken, LinkStep, k
  <2>6. DownStep(c)
    BY <1>1, <1>2, <1>3, <2>1, <2>3
       DEF DownStep, DownLinked, Linked, Unheard, LinkStep, k
  <2> QED BY <1>6, <2>4, <2>5, <2>6 DEF Kept
<1> QED BY <1>5, <1>6

\* The parent reads a frame: it passes the gate, or takes it, or ends the link.
LEMMA ParentMessageKeeps ==
  ASSUME LinkInv, NEW c \in Children, ParentMessage(c), NEW d \in Children
  PROVE  Kept(d)
<1> USE DEF LinkInv, IInv, childVars, parentVars
<1> DEFINE k == conn[c]
           s == toParent[k]
<1>1. /\ k \in Conns /\ k # None /\ s \in Seq(Frames) /\ s # <<>>
  BY DEF ParentMessage, TypeOK
<1>2. /\ UNCHANGED <<conn, parentWs, toChild, heard, answered>>
      /\ toParent' = [toParent EXCEPT ![k] = Tail(s)]
  BY DEF ParentMessage
<1>3. \/ ~m_s2s_authed[k] /\ Gate(c, k, Head(s)) /\ UNCHANGED taken
      \/ /\ m_s2s_authed[k]
         /\ taken' = [taken EXCEPT ![c] = Append(@, Head(s))]
         /\ UNCHANGED <<child_ws, m_s2s_authed, wire>>
  BY DEF ParentMessage
<1>4. Handshake(c, k)
  BY <1>1 DEF InStep
<1>5. ~answered[c] => s \in Seq(Messages)
  BY <1>4 DEF Handshake
<1>6. \A i, j \in Answers(s) : i = j
  BY <1>4 DEF Handshake
<1> HIDE DEF k, s
<1>7. toParent'[k] = Tail(s)
  BY <1>1, <1>2 DEF TypeOK
<1>8. CASE d # c
  <2>1. taken'[d] = taken[d]
    BY <1>3, <1>8 DEF TypeOK
  <2>2. ASSUME conn[d] # None
        PROVE  /\ toParent'[conn[d]] = toParent[conn[d]]
               /\ child_ws'[conn[d]] = child_ws[conn[d]]
               /\ m_s2s_authed'[conn[d]] = m_s2s_authed[conn[d]]
               /\ wire'[conn[d]] = wire[conn[d]]
    <3>1. conn[d] # k /\ conn[d] \in Conns
      BY <1>1, <1>8, <2>2 DEF OneOwner, TypeOK, k
    <3>2. toParent'[conn[d]] = toParent[conn[d]]
      BY <1>2, <3>1 DEF TypeOK
    <3> QED BY <1>3, <3>1, <3>2 DEF Gate, Terminate, TypeOK
  <2> QED BY <1>2, <2>1, <2>2, UntouchedKept DEF Untouched
<1>9. CASE d = c /\ m_s2s_authed[k]
  <2>1. /\ taken'[c] = Append(taken[c], Head(s))
        /\ UNCHANGED <<child_ws, m_s2s_authed, wire>>
    BY <1>3, <1>9 DEF TypeOK
  <2>2. s \in Seq(Messages)
    BY <1>4, <1>9 DEF Handshake, s
  <2>3. Tail(s) \in Seq(Messages)
    BY <1>1, <2>2, Rest
  <2>4. Answers(Tail(s)) = {}
    BY <2>3, NoAnswer
  <2>5. InStep(c)'
    BY <1>1, <1>2, <1>4, <1>7, <1>9, <2>1, <2>3, <2>4 DEF InStep, Handshake, k
  <2>6. Untaken(c) = s /\ Untaken(c)' = Tail(s) /\ (UpLinked(c)' <=> UpLinked(c))
    BY <1>1, <1>2, <1>7, <1>9, <2>1 DEF Untaken, UpLinked, k, s
  <2>7. UpStep(c)
    BY <1>1, <2>1, <2>6 DEF UpStep, LinkStep
  <2>8. DownStep(c)
    BY <1>2, <2>1 DEF DownStep, DownLinked, Linked, Unheard, LinkStep
  <2> QED BY <1>9, <2>5, <2>7, <2>8 DEF Kept
<1>10. CASE d = c /\ ~m_s2s_authed[k]
  <2>1. Gate(c, k, Head(s)) /\ taken'[c] = taken[c]
    BY <1>3, <1>10
  <2>2. /\ Head(s) = Envelope => AfterAnswer(s) = Tail(s) /\ Tail(s) \in Seq(Messages)
        /\ Head(s) # Envelope => AfterAnswer(Tail(s)) = AfterAnswer(s)
        /\ \A i, j \in Answers(Tail(s)) : i = j
    BY <1>1, <1>6, AnswerRead
  <2>3. Untaken(c) = AfterAnswer(s) /\ ~DownLinked(c)
    BY <1>1, <1>10 DEF Untaken, DownLinked, Linked, k, s
  <2>4. Tail(s) \in Seq(Frames) /\ (~answered[c] => Tail(s) \in Seq(Messages))
    BY <1>1, <1>5, Rest
  <2>5. CASE Head(s) = Envelope /\ Verifies(c)
    <3>1. /\ m_s2s_authed' = [m_s2s_authed EXCEPT ![k] = TRUE]
          /\ UNCHANGED <<child_ws, wire>>
      BY <2>1, <2>5 DEF Gate
    <3>2. m_s2s_authed'[k]
      BY <1>1, <3>1 DEF TypeOK
    <3>3. answered[c]
      <4>1. Head(s) \notin Messages
        BY <2>5 DEF Messages, Envelope
      <4> QED BY <1>1, <1>5, <4>1, HeadTailProperties
    <3>4. Answers(Tail(s)) = {}
      BY <2>2, <2>5, NoAnswer
    <3>5. InStep(c)'
      BY <1>1, <1>2, <1>4, <1>7, <2>2, <2>5, <3>1, <3>2, <3>3, <3>4
         DEF InStep, Handshake, k
    <3>6. Untaken(c)' = Untaken(c) /\ (UpLinked(c)' <=> UpLinked(c))
      BY <1>1, <1>2, <1>7, <2>2, <2>3, <2>5, <3>1, <3>2 DEF Untaken, UpLinked, k
    <3>7. UpStep(c)
      BY <2>1, <3>6 DEF UpStep, LinkStep
    <3>8. Unheard(c)' = Unheard(c) /\ heard'[c] = heard[c]
      BY <1>2 DEF Unheard
    <3>9. wire[k] = "up" => Unheard(c) = <<>>
      BY <1>1, <1>4, <1>10 DEF Handshake, Unheard, k
    <3>10. wire[k] # "up" => ~DownLinked(c)'
      BY <1>2, <3>1 DEF DownLinked, Linked, k
    <3>11. DownStep(c)
      BY <2>3, <3>8, <3>9, <3>10 DEF DownStep, LinkStep
    <3> QED BY <1>10, <3>5, <3>7, <3>11 DEF Kept
  <2>6. CASE ~(Head(s) = Envelope /\ Verifies(c))
    <3>1. Terminate(k) /\ UNCHANGED m_s2s_authed
      BY <2>1, <2>6 DEF Gate
    <3>2. wire'[k] = "closed" /\ ~m_s2s_authed'[k]
      BY <1>1, <1>10, <3>1 DEF Terminate, TypeOK
    <3>3. InStep(c)'
      BY <1>1, <1>2, <1>4, <1>7, <2>2, <2>4, <3>2 DEF InStep, Handshake, k
    <3>4. ~UpLinked(c)' /\ ~DownLinked(c)' /\ Unheard(c)' = Unheard(c)
      BY <1>1, <1>2, <3>2 DEF UpLinked, DownLinked, Linked, Unheard, k
    <3>5. Untaken(c)' = AfterAnswer(Tail(s))
      BY <1>1, <1>2, <1>7, <3>2 DEF Untaken, k
    <3>6. Untaken(c)' \in {Untaken(c), <<>>}
      <4>1. CASE Head(s) = Envelope
        BY <2>2, <3>5, <4>1, NoAnswer
      <4>2. CASE Head(s) # Envelope
        BY <2>2, <2>3, <3>5, <4>2
      <4> QED BY <4>1, <4>2
    <3>7. UpStep(c)
      BY <2>1, <3>4, <3>6, QueueType, Lost DEF UpStep, LinkStep
    <3>8. DownStep(c)
      BY <1>2, <2>3, <3>4 DEF DownStep, LinkStep
    <3> QED BY <1>10, <3>3, <3>7, <3>8 DEF Kept
  <2> QED BY <2>5, <2>6
<1> QED BY <1>8, <1>9, <1>10

\* The connection of a child is torn down, and what has arrived stays.
LEMMA TornDown ==
  ASSUME LinkInv, NEW c \in Children, conn[c] # None,
         UNCHANGED <<conn, parentWs, m_s2s_authed, toParent, toChild, taken,
                     heard, answered>>,
         wire'[conn[c]] = "closed"
  PROVE  Kept(c)
<1>1. InStep(c)'
  <2>1. InStep(c)
    BY DEF LinkInv
  <2> QED BY <2>1 DEF InStep, Handshake
<1>2. ~UpLinked(c)' /\ ~DownLinked(c)' /\ Untaken(c)' = Untaken(c)
      /\ Unheard(c)' = Unheard(c)
  BY DEF UpLinked, DownLinked, Linked, Untaken, Unheard
<1>3. UpStep(c)
  BY <1>2, QueueType, Lost DEF UpStep, LinkStep, LinkInv, IInv
<1>4. DownStep(c)
  BY <1>2, QueueType, Lost DEF DownStep, LinkStep, LinkInv, IInv
<1> QED BY <1>1, <1>3, <1>4 DEF Kept

\* The handshake timer of a connection.
LEMMA AuthTimeoutKeeps ==
  ASSUME LinkInv, NEW k \in Conns, AuthTimeout(k), NEW d \in Children
  PROVE  Kept(d)
<1> USE DEF LinkInv, IInv, childVars, historyVars
<1>1. /\ UNCHANGED <<conn, parentWs, m_s2s_authed, toParent, toChild, taken,
                     heard, answered>>
      /\ IF m_s2s_authed[k] THEN UNCHANGED <<child_ws, wire>> ELSE Terminate(k)
  BY DEF AuthTimeout
<1>2. CASE m_s2s_authed[k] \/ conn[d] # k
  <2>1. Untouched(d)
    BY <1>1, <1>2 DEF Untouched, Terminate, TypeOK
  <2> QED BY <2>1, UntouchedKept
<1>3. CASE ~m_s2s_authed[k] /\ conn[d] = k
  <2>1. wire'[k] = "closed" /\ conn[d] # None
    BY <1>1, <1>3, HandshakeAssumption DEF Terminate, TypeOK
  <2> QED BY <1>1, <1>3, <2>1, TornDown
<1> QED BY <1>2, <1>3

\* The parent's 'close' handler: what it has not taken is lost.
LEMMA ParentCloseKeeps ==
  ASSUME LinkInv, NEW k \in Conns, ParentClose(k), NEW d \in Children
  PROVE  Kept(d)
<1> USE DEF LinkInv, IInv, childVars, historyVars
<1>1. /\ UNCHANGED <<conn, parentWs, wire, toChild, taken, heard, answered>>
      /\ wire[k] # "up"
      /\ child_ws' = [child_ws EXCEPT ![k] = "none"]
      /\ m_s2s_authed' = [m_s2s_authed EXCEPT ![k] = FALSE]
      /\ toParent' = [toParent EXCEPT ![k] = <<>>]
  BY DEF ParentClose
<1>2. CASE conn[d] # k
  BY <1>1, <1>2, UntouchedKept DEF Untouched, TypeOK
<1>3. CASE conn[d] = k
  <2>1. ~m_s2s_authed'[k] /\ toParent'[k] = <<>> /\ k # None
    BY <1>1, HandshakeAssumption DEF TypeOK
  <2>2. <<>> \in Seq(Messages)
    OBVIOUS
  <2>3. AfterAnswer(<<>>) = <<>> /\ Answers(<<>>) = {}
    BY <2>2, NoAnswer
  <2>4. Handshake(d, k)
    BY <1>3, <2>1 DEF InStep
  <2>5. InStep(d)'
    BY <1>1, <1>3, <2>1, <2>2, <2>3, <2>4 DEF InStep, Handshake
  <2>6. ~UpLinked(d)' /\ Untaken(d)' = <<>>
    BY <1>1, <1>3, <2>1, <2>3 DEF UpLinked, Untaken
  <2>7. UpStep(d)
    BY <1>1, <2>6, QueueType, Lost DEF UpStep, LinkStep
  <2>8. DownStep(d)
    BY <1>1, <1>3, <2>1 DEF DownStep, DownLinked, Linked, Unheard, LinkStep
  <2> QED BY <2>5, <2>7, <2>8 DEF Kept
<1> QED BY <1>2, <1>3

\* The parent forwards a message to the sockets that passed the gate: those
\* that are linked get it in their queue.
LEMMA ParentForwardKeeps ==
  ASSUME LinkInv, NEW source \in Conns \cup {None}, ParentForward(source),
         NEW d \in Children
  PROVE  Kept(d)
<1> USE DEF LinkInv, IInv, childVars, parentVars
<1> DEFINE k == conn[d]
           t == toChild[k]
           m == posts + 1
           ks == ForwardTargets(source)
<1>1. /\ UNCHANGED <<conn, parentWs, child_ws, m_s2s_authed, wire, toParent, taken,
                     heard, answered>>
      /\ toChild' = Sent(toChild, ks, m)
      /\ m \in Messages
  BY HandshakeAssumption DEF ParentForward, TypeOK, Messages
<1>2. ks \subseteq {j \in Conns : child_ws[j] = "open" /\ m_s2s_authed[j]}
  BY DEF ForwardTargets
<1> HIDE DEF k, t, m, ks
<1>3. CASE k \notin ks \/ wire[k] # "up" \/ k = None
  <2>1. k # None => toChild'[k] = toChild[k]
    BY <1>1, <1>3 DEF Sent, TypeOK, k
  <2> QED BY <1>1, <2>1, UntouchedKept DEF Untouched, k
<1>4. CASE k \in ks /\ wire[k] = "up" /\ k # None
  <2>1. /\ k \in Conns /\ t \in Seq(Frames) /\ Linked(k)
        /\ toChild'[k] = Append(t, m)
    BY <1>1, <1>2, <1>4 DEF Sent, TypeOK, Linked, k, t
  <2>2. /\ DataOf(Append(t, m)) = Append(DataOf(t), m)
        /\ Asked(Append(t, m)) => Asked(t)
    BY <1>1, <2>1, DataAppend
  <2>3. Handshake(d, k)
    BY <1>4 DEF InStep, k
  <2>4. Append(DataOf(t), m) \in Seq(Messages)
    <3>1. DataOf(t) \in Seq(Messages)
      BY <2>3 DEF Handshake, t
    <3> QED BY <1>1, <3>1
  <2>5. InStep(d)'
    BY <1>1, <1>4, <2>1, <2>2, <2>3, <2>4 DEF InStep, Handshake, Linked, k, t
  <2>6. DownLinked(d) /\ DownLinked(d)' /\ Unheard(d) = DataOf(t)
        /\ Unheard(d)' = Append(DataOf(t), m)
    BY <1>1, <1>4, <2>1, <2>2 DEF DownLinked, Linked, Unheard, k, t
  <2>7. DownStep(d)
    BY <1>1, <2>6 DEF DownStep, LinkStep
  <2>8. UpStep(d)
    BY <1>1 DEF UpStep, UpLinked, Untaken, LinkStep
  <2> QED BY <2>5, <2>7, <2>8 DEF Kept
<1> QED BY <1>3, <1>4

\* The parent process ends: both directions of every link fail.
LEMMA ParentRestartKeeps ==
  ASSUME LinkInv, ParentRestart, NEW d \in Children
  PROVE  Kept(d)
<1> USE DEF LinkInv, IInv, childVars, historyVars
<1> DEFINE k == conn[d]
<1>1. /\ UNCHANGED <<conn, parentWs, toChild, taken, heard, answered>>
      /\ child_ws' = [j \in Conns |-> "none"]
      /\ m_s2s_authed' = [j \in Conns |-> FALSE]
      /\ toParent' = [j \in Conns |-> <<>>]
      /\ wire' = [j \in Conns |-> IF child_ws[j] = "none" THEN wire[j] ELSE "closed"]
  BY DEF ParentRestart
<1> HIDE DEF k
<1>2. CASE k = None
  BY <1>1, <1>2, UntouchedKept DEF Untouched, k
<1>3. CASE k # None
  <2>1. /\ k \in Conns /\ ~m_s2s_authed'[k] /\ toParent'[k] = <<>>
        /\ child_ws'[k] = "none"
        /\ wire'[k] = "up" => child_ws[k] = "none" /\ wire[k] = "up"
    BY <1>1, <1>3 DEF TypeOK, k
  <2>2. <<>> \in Seq(Messages)
    OBVIOUS
  <2>3. AfterAnswer(<<>>) = <<>> /\ Answers(<<>>) = {}
    BY <2>2, NoAnswer
  <2>4. Handshake(d, k)
    BY <1>3 DEF InStep, k
  <2>5. ASSUME child_ws[k] = "none"
        PROVE  ~m_s2s_authed[k] /\ toParent[k] = <<>>
    BY <2>1, <2>5 DEF ParentForgets
  <2>6. InStep(d)'
    BY <1>1, <1>3, <2>1, <2>2, <2>3, <2>4, <2>5 DEF InStep, Handshake, k
  <2>7. ~UpLinked(d)'
    <3>1. CASE wire'[k] # "up"
      BY <1>1, <3>1 DEF UpLinked, k
    <3>2. CASE wire'[k] = "up"
      <4>1. parentWs[d] # "open"
        BY <1>3, <2>1, <3>2 DEF Accepted, k
      <4> QED BY <1>1, <4>1 DEF UpLinked
    <3> QED BY <3>1, <3>2
  <2>8. Untaken(d)' = <<>> /\ Unheard(d)' = Unheard(d) /\ ~DownLinked(d)'
    BY <1>1, <1>3, <2>1, <2>3 DEF Untaken, Unheard, DownLinked, Linked, k
  <2>9. UpStep(d)
    BY <1>1, <2>7, <2>8, QueueType, Lost DEF UpStep, LinkStep
  <2>10. DownStep(d)
    BY <1>1, <2>8, QueueType, Lost DEF DownStep, LinkStep
  <2> QED BY <2>6, <2>9, <2>10 DEF Kept
<1> QED BY <1>2, <1>3

\* The wire is cut: both directions fail, and lose the last of what they hold.
LEMMA BreakKeeps ==
  ASSUME LinkInv, NEW k \in Conns, Break(k), NEW d \in Children
  PROVE  Kept(d)
<1> USE DEF LinkInv, IInv, childVars, parentVars, historyVars
<1>1. /\ UNCHANGED <<conn, parentWs, child_ws, m_s2s_authed, taken, heard, answered>>
      /\ wire[k] = "up"
      /\ wire' = [wire EXCEPT ![k] = "cut"]
  BY DEF Break
<1>2. PICK i \in 0..Len(toParent[k]) :
         toParent' = [toParent EXCEPT ![k] = SubSeq(@, 1, i)]
  BY DEF Break
<1>3. PICK j \in 0..Len(toChild[k]) :
         toChild' = [toChild EXCEPT ![k] = SubSeq(@, 1, j)]
  BY DEF Break
<1>4. CASE conn[d] # k
  BY <1>1, <1>2, <1>3, <1>4, UntouchedKept DEF Untouched, TypeOK
<1>5. CASE conn[d] = k
  <2> DEFINE s == toParent[k]
             t == toChild[k]
  <2>1. /\ k # None /\ wire'[k] = "cut" /\ s \in Seq(Frames) /\ t \in Seq(Frames)
        /\ toParent'[k] = SubSeq(s, 1, i) /\ toChild'[k] = SubSeq(t, 1, j)
    BY <1>1, <1>2, <1>3, HandshakeAssumption DEF TypeOK
  <2>2. Handshake(d, k)
    BY <1>5, <2>1 DEF InStep
  <2>3. /\ DataOf(t) \in Seq(Messages) /\ \A x, y \in Answers(s) : x = y
        /\ ~answered[d] \/ m_s2s_authed[k] => s \in Seq(Messages)
    BY <2>2 DEF Handshake
  <2> HIDE DEF s, t
  <2>4. PICK n \in 0..Len(DataOf(t)) : DataOf(SubSeq(t, 1, j)) = SubSeq(DataOf(t), 1, n)
    BY <1>3, <2>1, DataCut DEF t
  <2>5. Asked(SubSeq(t, 1, j)) => Asked(t)
    BY <1>3, <2>1, DataCut DEF t
  <2>6. SubSeq(DataOf(t), 1, n) \in Seq(Messages)
    BY <2>3, <2>4, Prefix
  <2>7. /\ \E x \in 0..Len(AfterAnswer(s)) :
             AfterAnswer(SubSeq(s, 1, i)) = SubSeq(AfterAnswer(s), 1, x)
        /\ \A x, y \in Answers(SubSeq(s, 1, i)) : x = y
    BY <1>2, <2>1, <2>3, AnswerCut DEF s
  <2>8. ~answered[d] \/ m_s2s_authed[k] => SubSeq(s, 1, i) \in Seq(Messages)
    BY <1>2, <2>3, Prefix DEF s
  <2>9. InStep(d)'
    BY <1>1, <1>5, <2>1, <2>2, <2>4, <2>5, <2>6, <2>7, <2>8 DEF InStep, Handshake, t
  <2>10. ~UpLinked(d)' /\ ~DownLinked(d)'
    BY <1>1, <1>5, <2>1 DEF UpLinked, DownLinked, Linked
  <2>11. Unheard(d) = DataOf(t) /\ Unheard(d)' = SubSeq(DataOf(t), 1, n)
    BY <1>1, <1>5, <2>1, <2>4 DEF Unheard, t
  <2>12. DownStep(d)
    BY <1>1, <2>10, <2>11 DEF DownStep, LinkStep
  <2>13. CASE m_s2s_authed[k]
    <3>1. Untaken(d) = s /\ Untaken(d)' = SubSeq(s, 1, i)
      BY <1>1, <1>5, <2>1, <2>13 DEF Untaken, s
    <3>2. UpStep(d)
      BY <1>1, <1>2, <2>10, <3>1 DEF UpStep, LinkStep, s
    <3> QED BY <2>9, <2>12, <3>2 DEF Kept
  <2>14. CASE ~m_s2s_authed[k]
    <3>1. Untaken(d) = AfterAnswer(s) /\ Untaken(d)' = AfterAnswer(SubSeq(s, 1, i))
      BY <1>1, <1>5, <2>1, <2>14 DEF Untaken, s
    <3>2. UpStep(d)
      BY <1>1, <2>7, <2>10, <3>1 DEF UpStep, LinkStep
    <3> QED BY <2>9, <2>12, <3>2 DEF Kept
  <2> QED BY <2>13, <2>14
<1> QED BY <1>4, <1>5

-----------------------------------------------------------------------------
(* The refinement. *)

\* No child has a connection when the servers start.
LEMMA LinkInvInit == Init => LinkInv
BY InvInit DEF Init, LinkInv, InStep

\* Every step of the system is a step of every direction of every link.
LEMMA EveryLinkKept ==
  ASSUME LinkInv, [Next]_vars, NEW d \in Children
  PROVE  Kept(d)
<1>1. ASSUME NEW c \in Children, ChildStep(c) PROVE Kept(d)
  BY <1>1, ConnectKeeps, OnOpenKeeps, OnReceiveKeeps, ChildForwardKeeps,
     ChildCloseKeeps DEF ChildStep
<1>2. ASSUME NEW c \in Children, Accept(c) \/ ParentMessage(c) PROVE Kept(d)
  BY <1>2, AcceptKeeps, ParentMessageKeeps
<1>3. ASSUME NEW k \in Conns, AuthTimeout(k) \/ ParentClose(k) \/ Break(k)
      PROVE  Kept(d)
  BY <1>3, AuthTimeoutKeeps, ParentCloseKeeps, BreakKeeps
<1>4. ASSUME NEW source \in Conns \cup {None}, ParentForward(source) PROVE Kept(d)
  BY <1>4, ParentForwardKeeps
<1>5. CASE ParentRestart
  BY <1>5, ParentRestartKeeps
<1>6. CASE UNCHANGED vars
  BY <1>6, UntouchedKept
     DEF vars, childVars, parentVars, netVars, historyVars, Untouched
<1> QED BY <1>1, <1>2, <1>3, <1>4, <1>5, <1>6 DEF Next

\* What the handshake says of the streams is kept by every step.
LEMMA LinkInvNext == LinkInv /\ [Next]_vars => LinkInv'
<1> SUFFICES ASSUME LinkInv, [Next]_vars PROVE LinkInv'
  OBVIOUS
<1>1. IInv'
  BY InvNext DEF LinkInv
<1>2. \A d \in Children : InStep(d)'
  BY EveryLinkKept DEF Kept
<1> QED BY <1>1, <1>2 DEF LinkInv

\* What S2SLink sees of the direction to the parent ...
LEMMA UpWay ==
  ASSUME NEW l \in Way, l[2] = "up"
  PROVE  /\ linked[l] \in BOOLEAN /\ linked'[l] \in BOOLEAN
         /\ linked[l] <=> UpLinked(l[1])
         /\ linked'[l] <=> UpLinked(l[1])'
         /\ queue[l] = Untaken(l[1]) /\ queue'[l] = Untaken(l[1])'
         /\ delivered[l] = taken[l[1]] /\ delivered'[l] = taken'[l[1]]
BY DEF linked, queue, delivered, UpLinked, Untaken

\* ... and of the direction to the child.
LEMMA DownWay ==
  ASSUME NEW l \in Way, l[2] = "down"
  PROVE  /\ linked[l] \in BOOLEAN /\ linked'[l] \in BOOLEAN
         /\ linked[l] <=> DownLinked(l[1])
         /\ linked'[l] <=> DownLinked(l[1])'
         /\ queue[l] = Unheard(l[1]) /\ queue'[l] = Unheard(l[1])'
         /\ delivered[l] = heard[l[1]] /\ delivered'[l] = heard'[l[1]]
BY DEF linked, queue, delivered, DownLinked, Linked, Unheard

\* No link is up, and nothing was delivered, when the servers start.
LEMMA PromiseInit == Init => L!Init
<1> SUFFICES ASSUME Init PROVE L!Init
  OBVIOUS
<1>1. \A c \in Children : ~UpLinked(c) /\ ~DownLinked(c) /\ Untaken(c) = <<>>
                         /\ Unheard(c) = <<>> /\ taken[c] = <<>> /\ heard[c] = <<>>
  BY DEF Init, UpLinked, DownLinked, Untaken, Unheard
<1>2. \A l \in Way : l[1] \in Children
  BY DEF Way
<1>3. linked = [l \in Way |-> FALSE]
  BY <1>2 DEF linked, UpLinked, DownLinked, Linked, Init
<1>4. queue = [l \in Way |-> <<>>] /\ delivered = [l \in Way |-> <<>>]
  BY <1>1, <1>2 DEF queue, delivered
<1> QED BY <1>3, <1>4 DEF L!Init

\* Every step is one that S2SLink allows, in every direction of every link.
LEMMA PromiseNext == LinkInv /\ [Next]_vars => L!Next
<1> SUFFICES ASSUME LinkInv, [Next]_vars, NEW l \in Way
             PROVE  L!Open(l) \/ L!Send(l) \/ L!Deliver(l) \/ L!Fail(l) \/ L!Stay(l)
  BY DEF L!Next
<1>1. l[1] \in Children /\ l[2] \in {"up", "down"}
  BY DEF Way
<1>2. UpStep(l[1]) /\ DownStep(l[1])
  BY <1>1, EveryLinkKept DEF Kept
<1>3. LinkStep(linked[l], linked'[l], queue[l], queue'[l], delivered[l], delivered'[l])
  <2>1. CASE l[2] = "up"
    BY <1>2, <2>1, UpWay DEF UpStep, LinkStep
  <2>2. CASE l[2] = "down"
    BY <1>2, <2>2, DownWay DEF DownStep, LinkStep
  <2> QED BY <1>1, <2>1, <2>2
<1>4. linked[l] \in BOOLEAN /\ linked'[l] \in BOOLEAN
  BY <1>1, UpWay, DownWay
<1> QED BY <1>3, <1>4 DEF LinkStep, L!Open, L!Send, L!Deliver, L!Fail, L!Stay

\* Both directions of every link keep the promise of S2SLink: what is sent over
\* a link that has passed the handshake is delivered in order and once, up to
\* the end of the link, and nothing else is delivered.
THEOREM LinkKeepsPromise == Spec => KeepsLinkPromise
<1>1. Spec => []LinkInv
  BY LinkInvInit, LinkInvNext, PTL DEF Spec
<1> QED BY <1>1, PromiseInit, PromiseNext, PTL DEF Spec, KeepsLinkPromise, L!Spec
=============================================================================
