---------------------------- MODULE S2SHandshake ----------------------------
(***************************************************************************)
(* How a child server gets its link to the parent server, and what the     *)
(* link is worth before and after: js_parent_comm_server.js challenges     *)
(* whoever connects, js_child_comm_server.js answers with its signature,   *)
(* and js_s2s_auth.js verifies it.                                         *)
(*                                                                         *)
(* One action is one callback of the parent or of a child.  What           *)
(* interleaves are the callbacks of the two ends, the 8 s timer, messages  *)
(* of parties that are forwarded in the meantime, and connections that     *)
(* break and are noticed by each end at its own time.                      *)
(***************************************************************************)
EXTENDS Naturals, Sequences, FiniteSets

CONSTANTS
  Children,   \* child servers; a child stands for its server_id too
  Conns,      \* connections; one that both ends have closed is used again
  None,
  ServerIds,  \* the ids that s2s_trusted_server_keys may name
  TrustedKeys,\* those it does name, in their order
  Readable,   \* the ones whose public key file can be read
  Signers,    \* the children that have a private key
  Genuine,    \* those whose private key belongs to the public key filed
  MaxPosts,   \* bound: how many messages are forwarded
  MaxCut      \* bound: how many connections are cut and still open at an end

ASSUME HandshakeAssumption ==
  /\ None \notin Children
  /\ None \notin Conns
  /\ Children \subseteq ServerIds
  /\ TrustedKeys \in Seq(ServerIds)
  /\ Readable \subseteq ServerIds
  /\ Signers \subseteq Children
  /\ Genuine \subseteq Children
  /\ MaxPosts \in Nat
  /\ MaxCut \in Nat

\* What is on a connection: a relayed message is a number, Envelope an auth
\* envelope -- the challenge on its way down, the response on its way up.
Envelope == 0
Frames == 0..MaxPosts
Messages == 1..MaxPosts

VARIABLES
  \* A child: its last connection, the ready state of parentWs, and whether
  \* connectToParent is going to be called.
  conn, parentWs, reconnect,
  \* The parent: the socket of each connection, which clientData holds until
  \* it is closed, with its flag and its 8 s timer; and whether the keys are cached.
  child_ws, m_s2s_authed, authTimer, m_publicKeys,
  \* The network: does what is sent arrive ("up"), has an end torn the
  \* connection down ("closed"), or is it gone without either end being told
  \* ("cut"); and what has not been read.
  wire, toParent, toChild,
  \* History: the messages so far, those that the parent took from each child
  \* and each child from the parent, and whether a child has answered on its
  \* connection.
  posts, taken, heard, answered

childVars == <<conn, parentWs, reconnect>>
parentVars == <<child_ws, m_s2s_authed, authTimer, m_publicKeys>>
netVars == <<wire, toParent, toChild>>
historyVars == <<posts, taken, heard, answered>>
vars == <<childVars, parentVars, netVars, historyVars>>

Init ==
  /\ conn = [c \in Children |-> None]
  /\ parentWs = [c \in Children |-> "null"]
  /\ reconnect = [c \in Children |-> TRUE]
  /\ child_ws = [k \in Conns |-> "none"]
  /\ m_s2s_authed = [k \in Conns |-> FALSE]
  /\ authTimer = [k \in Conns |-> FALSE]
  /\ m_publicKeys = FALSE
  /\ wire = [k \in Conns |-> "closed"]
  /\ toParent = [k \in Conns |-> <<>>]
  /\ toChild = [k \in Conns |-> <<>>]
  /\ posts = 0
  /\ taken = [c \in Children |-> <<>>]
  /\ heard = [c \in Children |-> <<>>]
  /\ answered = [c \in Children |-> FALSE]

\* What is sent into a connection that is broken vanishes.
Sent(stream, ks, m) ==
  [k \in Conns |-> IF k \in ks /\ wire[k] = "up" THEN Append(stream[k], m)
                                                 ELSE stream[k]]

-----------------------------------------------------------------------------
(* js_s2s_auth.js *)

\* fn_getPublicKeys stores the map before it fills it: if a file cannot be
\* read, it throws, and what was read before that file stays cached.
LoadedKeys ==
  {TrustedKeys[i] : i \in {j \in 1..Len(TrustedKeys) :
                             \A h \in 1..j : TrustedKeys[h] \in Readable}}

AllReadable == \A i \in 1..Len(TrustedKeys) : TrustedKeys[i] \in Readable

\* fn_verify of a signature by c; the exception of the first call counts as a
\* failure.
Mutant_Verifies(c) ==
  /\ AllReadable
  /\ c \in LoadedKeys
  /\ c \in Genuine

Verifies(c) ==
  /\ m_publicKeys \/ AllReadable
  /\ c \in LoadedKeys
  /\ c \in Genuine

-----------------------------------------------------------------------------
(* The child. *)

\* The connections that both ends have closed.
FreeConns ==
  {k \in Conns : child_ws[k] = "none"
                 /\ \A c \in Children : conn[c] = k => parentWs[c] = "null"}

\* connectToParent, at the start and 10 s after a connection has closed.  That
\* is long enough for the parent to have read what arrived on the last one.
Connect(c) ==
  /\ reconnect[c]
  /\ conn[c] # None => toParent[conn[c]] = <<>>
  /\ FreeConns # {}
  /\ LET k == CHOOSE k \in FreeConns : TRUE
     IN  /\ conn' = [d \in Children |-> IF d = c THEN k
                                        ELSE IF conn[d] = k THEN None
                                        ELSE conn[d]]
         /\ wire' = [wire EXCEPT ![k] = "up"]
  /\ parentWs' = [parentWs EXCEPT ![c] = "connecting"]
  /\ reconnect' = [reconnect EXCEPT ![c] = FALSE]
  /\ answered' = [answered EXCEPT ![c] = FALSE]
  /\ UNCHANGED <<parentVars, toParent, toChild, posts, taken, heard>>

\* The 'open' event: the reply to the upgrade comes before the challenge.
OnOpen(c) ==
  /\ parentWs[c] = "connecting"
  /\ toChild[conn[c]] # <<>>
  /\ parentWs' = [parentWs EXCEPT ![c] = "open"]
  /\ UNCHANGED <<conn, reconnect, parentVars, netVars, historyVars>>

\* onReceive of a challenge; without a private key it throws and nothing is
\* sent.
OnChallenge(c) ==
  /\ IF c \in Signers
     THEN /\ toParent' = Sent(toParent, {conn[c]}, Envelope)
          /\ answered' = [answered EXCEPT ![c] = TRUE]
     ELSE UNCHANGED <<toParent, answered>>
  /\ UNCHANGED heard

\* onReceive of anything else: fn_parseExternalMessage.
OnRelayed(c, m) ==
  /\ heard' = [heard EXCEPT ![c] = Append(@, m)]
  /\ UNCHANGED <<toParent, answered>>

OnReceive(c) ==
  /\ parentWs[c] = "open"
  /\ toChild[conn[c]] # <<>>
  /\ toChild' = [toChild EXCEPT ![conn[c]] = Tail(@)]
  /\ \/ Head(toChild[conn[c]]) = Envelope /\ OnChallenge(c)
     \/ Head(toChild[conn[c]]) # Envelope
        /\ OnRelayed(c, Head(toChild[conn[c]]))
  /\ UNCHANGED <<childVars, parentVars, wire, posts, taken>>

\* forwardMessage asks for an open socket, not for the handshake.
ChildForward(c) ==
  /\ parentWs[c] = "open"
  /\ posts < MaxPosts
  /\ posts' = posts + 1
  /\ toParent' = Sent(toParent, {conn[c]}, posts + 1)
  /\ UNCHANGED <<childVars, parentVars, wire, toChild, taken, heard, answered>>

\* The 'close' event.
Mutant_ChildClose(c) ==
  /\ parentWs[c] # "null"
  /\ wire[conn[c]] # "up"
  /\ parentWs' = [parentWs EXCEPT ![c] = "closed"]
  /\ reconnect' = [reconnect EXCEPT ![c] = TRUE]
  /\ toChild' = [toChild EXCEPT ![conn[c]] = <<>>]
  /\ UNCHANGED <<conn, parentVars, wire, toParent, historyVars>>

ChildClose(c) ==
  /\ parentWs[c] # "null"
  /\ wire[conn[c]] # "up"
  /\ parentWs' = [parentWs EXCEPT ![c] = "null"]
  /\ reconnect' = [reconnect EXCEPT ![c] = TRUE]
  /\ toChild' = [toChild EXCEPT ![conn[c]] = <<>>]
  /\ UNCHANGED <<conn, parentVars, wire, toParent, historyVars>>

-----------------------------------------------------------------------------
(* The parent. *)

\* The 'connection' event: a challenge and 8 s to answer it.
Accept(c) ==
  /\ parentWs[c] = "connecting"
  /\ wire[conn[c]] = "up"
  /\ child_ws[conn[c]] = "none"
  /\ child_ws' = [child_ws EXCEPT ![conn[c]] = "open"]
  /\ m_s2s_authed' = [m_s2s_authed EXCEPT ![conn[c]] = FALSE]
  /\ authTimer' = [authTimer EXCEPT ![conn[c]] = TRUE]
  /\ toChild' = Sent(toChild, {conn[c]}, Envelope)
  /\ UNCHANGED <<childVars, m_publicKeys, wire, toParent, historyVars>>

\* terminate() destroys the connection; its 'close' event comes later.
Terminate(k) ==
  /\ child_ws' = [child_ws EXCEPT ![k] = "closing"]
  /\ wire' = [wire EXCEPT ![k] = "closed"]

\* The handshake gate in front of the messages of connection k, for m of c.
Mutant_Gate(c, k, m) ==
  /\ m_s2s_authed' = [m_s2s_authed EXCEPT ![k] = TRUE]
  /\ authTimer' = [authTimer EXCEPT ![k] = FALSE]
  /\ UNCHANGED <<child_ws, wire, m_publicKeys>>

Gate(c, k, m) ==
  /\ m_publicKeys' = (m_publicKeys \/ m = Envelope)
  /\ \/ /\ m = Envelope /\ Verifies(c)
        /\ m_s2s_authed' = [m_s2s_authed EXCEPT ![k] = TRUE]
        /\ authTimer' = [authTimer EXCEPT ![k] = FALSE]
        /\ UNCHANGED <<child_ws, wire>>
     \/ /\ ~(m = Envelope /\ Verifies(c))
        /\ Terminate(k)
        /\ UNCHANGED <<m_s2s_authed, authTimer>>

\* The 'message' event.  What has arrived before terminate() is still read
\* after it.
ParentMessage(c) ==
  LET k == conn[c]
  IN  /\ k # None
      /\ child_ws[k] # "none"
      /\ toParent[k] # <<>>
      /\ toParent' = [toParent EXCEPT ![k] = Tail(@)]
      /\ \/ /\ ~m_s2s_authed[k]
            /\ Gate(c, k, Head(toParent[k]))
            /\ UNCHANGED taken
         \/ /\ m_s2s_authed[k]
            /\ taken' = [taken EXCEPT ![c] = Append(@, Head(toParent[k]))]
            /\ UNCHANGED <<parentVars, wire>>
      /\ UNCHANGED <<childVars, toChild, posts, heard, answered>>

\* The 8 s timer.
Mutant_AuthTimeout(k) ==
  /\ authTimer[k]
  /\ authTimer' = [authTimer EXCEPT ![k] = FALSE]
  /\ UNCHANGED <<child_ws, wire, childVars, m_s2s_authed, m_publicKeys,
                 toParent, toChild, historyVars>>

AuthTimeout(k) ==
  /\ authTimer[k]
  /\ authTimer' = [authTimer EXCEPT ![k] = FALSE]
  /\ IF m_s2s_authed[k] THEN UNCHANGED <<child_ws, wire>> ELSE Terminate(k)
  /\ UNCHANGED <<childVars, m_s2s_authed, m_publicKeys, toParent, toChild,
                 historyVars>>

\* forwardMessage: to every open, authenticated socket but the source.
Mutant_ForwardTargets(source) == {k \in Conns : child_ws[k] = "open"} \ {source}

ForwardTargets(source) ==
  {k \in Conns : child_ws[k] = "open" /\ m_s2s_authed[k]} \ {source}

ParentForward(source) ==
  /\ posts < MaxPosts
  /\ posts' = posts + 1
  /\ toChild' = Sent(toChild, ForwardTargets(source), posts + 1)
  /\ UNCHANGED <<childVars, parentVars, wire, toParent, taken, heard, answered>>

\* The 'close' event: the connection leaves clientData.
ParentClose(k) ==
  /\ child_ws[k] # "none"
  /\ wire[k] # "up"
  /\ child_ws' = [child_ws EXCEPT ![k] = "none"]
  /\ m_s2s_authed' = [m_s2s_authed EXCEPT ![k] = FALSE]
  /\ authTimer' = [authTimer EXCEPT ![k] = FALSE]
  /\ toParent' = [toParent EXCEPT ![k] = <<>>]
  /\ UNCHANGED <<childVars, m_publicKeys, wire, toChild, historyVars>>

\* The parent's process ends and is started again: its sockets are closed.
ParentRestart ==
  /\ child_ws' = [k \in Conns |-> "none"]
  /\ m_s2s_authed' = [k \in Conns |-> FALSE]
  /\ authTimer' = [k \in Conns |-> FALSE]
  /\ m_publicKeys' = FALSE
  /\ wire' = [k \in Conns |-> IF child_ws[k] = "none" THEN wire[k] ELSE "closed"]
  /\ toParent' = [k \in Conns |-> <<>>]
  /\ UNCHANGED <<childVars, toChild, historyVars>>

\* The connection is cut, and with it what is still on its way.  Each end
\* notices it at its own time, or never.
Break(k) ==
  /\ wire[k] = "up"
  /\ Cardinality({j \in Conns : wire[j] = "cut"} \ FreeConns) < MaxCut
  /\ wire' = [wire EXCEPT ![k] = "cut"]
  /\ \E i \in 0..Len(toParent[k]) :
       toParent' = [toParent EXCEPT ![k] = SubSeq(@, 1, i)]
  /\ \E j \in 0..Len(toChild[k]) :
       toChild' = [toChild EXCEPT ![k] = SubSeq(@, 1, j)]
  /\ UNCHANGED <<childVars, parentVars, historyVars>>

ChildStep(c) ==
  \/ Connect(c)
  \/ OnOpen(c)
  \/ OnReceive(c)
  \/ ChildForward(c)
  \/ ChildClose(c)

Next ==
  \/ \E c \in Children : ChildStep(c) \/ Accept(c) \/ ParentMessage(c)
  \/ \E k \in Conns : AuthTimeout(k) \/ ParentClose(k) \/ Break(k)
  \/ \E source \in {k \in Conns : m_s2s_authed[k]} \cup {None} : ParentForward(source)
  \/ ParentRestart

(* What is fair: the callbacks of what has arrived, the timers, and 'close'   *)
(* at an end whose connection the other end has torn down.  Nothing is said   *)
(* of an end whose connection was cut: neither end sends pings.  Connect is   *)
(* strongly fair since only Conns, which is small, keeps it waiting.          *)
ChildFairness(c) ==
  /\ SF_vars(Connect(c))
  /\ WF_vars(Accept(c))
  /\ WF_vars(OnOpen(c))
  /\ WF_vars(OnReceive(c))
  /\ WF_vars(ParentMessage(c))
  /\ WF_vars(ChildClose(c) /\ wire[conn[c]] = "closed")

ParentFairness(k) ==
  /\ WF_vars(AuthTimeout(k))
  /\ WF_vars(ParentClose(k) /\ wire[k] = "closed")

Fairness ==
  /\ \A c \in Children : ChildFairness(c)
  /\ \A k \in Conns : ParentFairness(k)

Spec == Init /\ [][Next]_vars

FairSpec == Spec /\ Fairness

-----------------------------------------------------------------------------
(* Properties *)

TypeOK ==
  /\ conn \in [Children -> Conns \cup {None}]
  /\ parentWs \in [Children -> {"null", "connecting", "open"}]
  /\ reconnect \in [Children -> BOOLEAN]
  /\ child_ws \in [Conns -> {"none", "open", "closing"}]
  /\ m_s2s_authed \in [Conns -> BOOLEAN]
  /\ authTimer \in [Conns -> BOOLEAN]
  /\ m_publicKeys \in BOOLEAN
  /\ wire \in [Conns -> {"up", "cut", "closed"}]
  /\ toParent \in [Conns -> Seq(Frames)]
  /\ toChild \in [Conns -> Seq(Frames)]
  /\ posts \in 0..MaxPosts
  /\ taken \in [Children -> Seq(Frames)]
  /\ heard \in [Children -> Seq(Frames)]
  /\ answered \in [Children -> BOOLEAN]

\* A child that could show a key of the configuration.
Trustworthy(c) == c \in Signers \cap Genuine \cap LoadedKeys

\* Messages pass between the parent and a child, in either direction, only if
\* the child has a private key that belongs to a public key of the parent: not
\* for what it sent ahead of its answer, not on a later connection, not after
\* the connection was terminated (the 'message' handler of
\* js_parent_comm_server.js and its forwardMessage).
GateHolds ==
  \A c \in Children :
    taken[c] # <<>> \/ heard[c] # <<>> => Trustworthy(c)

\* The link promises what S2SLink says of each direction: from the moment the
\* child has answered the parent takes everything it forwards, in order and
\* once, and from the moment its answer was accepted it gets everything the
\* parent forwards; what was sent earlier, or on an earlier connection, is never
\* delivered late.
Answers(stream) == {i \in 1..Len(stream) : stream[i] = Envelope}

\* What follows the challenge: it is the first frame on every connection.
DataOf(stream) ==
  IF stream # <<>> /\ Head(stream) = Envelope THEN Tail(stream) ELSE stream

AfterAnswer(stream) ==
  IF Answers(stream) = {} THEN <<>>
  ELSE SubSeq(stream, (CHOOSE i \in Answers(stream) : TRUE) + 1, Len(stream))

\* From a child to the parent ...
UpLinked(c) == parentWs[c] = "open" /\ answered[c] /\ wire[conn[c]] = "up"

Untaken(c) ==
  LET k == conn[c]
  IN  IF k = None THEN <<>>
      ELSE IF m_s2s_authed[k] THEN toParent[k] ELSE AfterAnswer(toParent[k])

\* ... and from the parent to a child.
Linked(k) == child_ws[k] = "open" /\ m_s2s_authed[k] /\ wire[k] = "up"

DownLinked(c) == conn[c] # None /\ Linked(conn[c])

Unheard(c) == IF conn[c] = None THEN <<>> ELSE DataOf(toChild[conn[c]])

Way == Children \X {"up", "down"}

linked ==
  [l \in Way |-> IF l[2] = "up" THEN UpLinked(l[1]) ELSE DownLinked(l[1])]
queue ==
  [l \in Way |-> IF l[2] = "up" THEN Untaken(l[1]) ELSE Unheard(l[1])]
delivered ==
  [l \in Way |-> IF l[2] = "up" THEN taken[l[1]] ELSE heard[l[1]]]

L == INSTANCE S2SLink WITH Links <- Way

KeepsLinkPromise == L!Spec

\* A socket that has not passed the handshake does not stay: it passes, or the
\* parent closes it -- also when nothing ever arrives on it and the connection
\* is cut (the 8 s timer of js_parent_comm_server.js:75).
StrangersLeave ==
  \A k \in Conns :
    (child_ws[k] # "none" /\ ~m_s2s_authed[k])
      ~> (child_ws[k] = "none" \/ m_s2s_authed[k])

\* A child with a good key gets its link and keeps it, whatever other children
\* do and whatever key files are unreadable behind its own.  Excepted are a
\* child whose connection is cut without its being told -- it has no timer and
\* waits for ever -- and one that is in trouble again and again: connections
\* cut, parent restarted, no answer within 8 s, or a message forwarded ahead of
\* the answer, which the parent takes for a failed handshake.
Trouble(c) ==
  \/ ParentRestart
  \/ conn[c] # None /\ Break(conn[c])
  \/ conn[c] # None /\ ~m_s2s_authed[conn[c]] /\ AuthTimeout(conn[c])
  \/ ~answered[c] /\ ChildForward(c)

Unaware(c) == parentWs[c] # "null" /\ wire[conn[c]] = "cut"

HonestGetsThrough ==
  \A c \in Children :
    Trustworthy(c) =>
      \/ []<><<Trouble(c)>>_vars
      \/ <>[]Unaware(c)
      \/ <>[](UpLinked(c) /\ DownLinked(c))
=============================================================================
