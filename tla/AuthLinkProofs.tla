--------------------------- MODULE AuthLinkProofs ---------------------------
(* AUTH goes by an up to date card when it has read all that was sent on a   *)
(* connection it trusts, for any number of changes and of connections.       *)
EXTENDS AuthLink, SequenceTheorems, TLAPS

-----------------------------------------------------------------------------
(* The inductive invariant. *)

\* The last card of a sequence is made of rooms that are not older than due.
EndsFresh(s) == s # <<>> => s[Len(s)] \in Cards /\ s[Len(s)] >= due

\* A card is never of the future, and the queue ends with the newest card that
\* was made since it was emptied.
QueueFresh == due <= rooms /\ EndsFresh(m_messageQueue)

\* Nothing is under way on a connection that is not up, or not open yet, and
\* nothing waits for one that is open.
Streams ==
  /\ wire # "up" \/ m_ws = "connecting" => toAuth = <<>>
  /\ m_ws = "open" => m_messageQueue = <<>>

\* What is under way on an open connection ends with an up to date card.
StreamFresh == m_ws = "open" /\ wire = "up" => EndsFresh(toAuth)

IInv == TypeOK /\ QueueFresh /\ Streams /\ StreamFresh /\ ReadAllUpToDate

-----------------------------------------------------------------------------
(* Sequences *)

\* What follows a fresh card keeps the end fresh, if it ends fresh itself.
LEMMA Follows ==
  ASSUME NEW S, NEW s \in Seq(S), NEW t \in Seq(S)
  PROVE  /\ s \o t \in Seq(S)
         /\ t # <<>> => s \o t # <<>> /\ (s \o t)[Len(s \o t)] = t[Len(t)]
         /\ t = <<>> => s \o t = s
BY ConcatProperties, EmptySeq

\* What is left of a sequence ends as the sequence did.
LEMMA Rest ==
  ASSUME NEW S, NEW s \in Seq(S), s # <<>>
  PROVE  /\ Tail(s) \in Seq(S)
         /\ Tail(s) # <<>> => Tail(s)[Len(Tail(s))] = s[Len(s)]
         /\ Tail(s) = <<>> => Head(s) = s[Len(s)]
<1>1. /\ Len(s) \in Nat /\ Len(s) # 0
      /\ Tail(s) \in Seq(S) /\ Len(Tail(s)) = Len(s) - 1
      /\ \A i \in 1..Len(Tail(s)) : Tail(s)[i] = s[i + 1]
  BY HeadTailProperties, EmptySeq, LenProperties
<1>2. CASE Tail(s) # <<>>
  <2>1. Len(Tail(s)) \in 1..Len(Tail(s))
    BY <1>1, <1>2, EmptySeq, LenProperties
  <2> QED BY <1>1, <1>2, <2>1
<1>3. CASE Tail(s) = <<>>
  <2>1. Len(s) = 1
    <3>1. Len(Tail(s)) = 0
      BY <1>1, <1>3, EmptySeq
    <3> DEFINE n == Len(s)
                m == Len(Tail(s))
    <3>2. n \in Nat /\ m = n - 1 /\ m = 0
      BY <1>1, <3>1
    <3> HIDE DEF n, m
    <3>3. n = 1
      BY <3>2
    <3> QED BY <3>3 DEF n
  <2>2. Head(s) = s[1]
    OBVIOUS
  <2> QED BY <1>1, <1>3, <2>1, <2>2
<1> QED BY <1>1, <1>2, <1>3

-----------------------------------------------------------------------------
\* Nothing has been announced or sent at first.
LEMMA InvInit == Init => IInv
<1> SUFFICES ASSUME Init PROVE IInv
  OBVIOUS
<1>1. TypeOK
  <2>1. 0 \in Cards /\ <<>> \in Seq(Cards) /\ <<>> \in Seq(Cards \cup {Response})
    BY AuthAssumption DEF Cards
  <2> QED BY <2>1 DEF Init, TypeOK
<1> QED BY <1>1, AuthAssumption
        DEF Init, IInv, QueueFresh, Streams, StreamFresh, EndsFresh, ReadAllUpToDate, Cards

\* Steps that leave the cards, the queue and the stream alone, or empty them.
LEMMA Quiet ==
  ASSUME IInv, TypeOK', UNCHANGED due, rooms' \in {rooms, rooms + 1},
         m_messageQueue' \in {m_messageQueue, <<>>},
         m_ws' = m_ws \/ m_ws' # "open",
         \/ toAuth' = <<>> /\ (m_ws' # "open" \/ wire' # "up")
         \/ UNCHANGED toAuth /\ m_ws' # "open" /\ UNCHANGED <<m_ws, wire>>
         \/ UNCHANGED <<toAuth, m_ws, wire, trusted, authCard>>
         \/ UNCHANGED toAuth /\ m_ws' = "closing" /\ UNCHANGED wire
  PROVE  IInv'
<1> USE DEF IInv
<1>1. QueueFresh'
  BY DEF QueueFresh, EndsFresh, TypeOK, Cards
<1>2. Streams'
  BY DEF Streams, TypeOK
<1>3. StreamFresh'
  BY DEF StreamFresh, EndsFresh
<1>4. ReadAllUpToDate'
  BY DEF ReadAllUpToDate, UpToDate
<1> QED BY <1>1, <1>2, <1>3, <1>4

\* The steps of that kind.
LEMMA QuietSteps ==
  ASSUME IInv,
         \/ ChangeSilently \/ Connect \/ SignFails \/ Refused \/ OnClose
         \/ AuthAccept \/ AuthCloses \/ Break \/ UNCHANGED vars
  PROVE  IInv'
<1> USE AuthAssumption DEF IInv, roomVars, clientVars, wireVars, authVars
<1>0. <<>> \in Seq(Cards) /\ <<>> \in Seq(Cards \cup {Response})
  OBVIOUS
<1>1. CASE ChangeSilently
  <2>1. rooms' \in Cards
    BY <1>1 DEF ChangeSilently, TypeOK, Cards
  <2>2. TypeOK'
    BY <1>1, <2>1 DEF ChangeSilently, TypeOK
  <2> QED BY <1>1, <2>2, Quiet DEF ChangeSilently
<1>2. CASE Connect
  <2>1. TypeOK'
    BY <1>0, <1>2 DEF Connect, TypeOK
  <2> QED BY <1>2, <2>1, Quiet DEF Connect
<1>3. CASE SignFails
  <2>1. TypeOK'
    BY <1>3 DEF SignFails, TypeOK
  <2> QED BY <1>3, <2>1, Quiet DEF SignFails
<1>4. CASE Refused \/ OnClose
  <2>1. TypeOK'
    BY <1>0, <1>4 DEF Refused, OnClose, Closed, TypeOK
  <2> QED BY <1>4, <2>1, Quiet DEF Refused, OnClose, Closed
<1>5. CASE AuthAccept
  <2>1. TypeOK'
    BY <1>5 DEF AuthAccept, TypeOK
  <2> QED BY <1>5, <2>1, Quiet DEF AuthAccept
<1>6. CASE AuthCloses \/ Break
  <2>1. TypeOK'
    BY <1>0, <1>6 DEF AuthCloses, Break, TypeOK
  <2> QED BY <1>6, <2>1, Quiet DEF AuthCloses, Break
<1>7. CASE UNCHANGED vars
  <2>1. TypeOK'
    BY <1>7 DEF vars, TypeOK
  <2> QED BY <1>7, <2>1, Quiet DEF vars
<1> QED BY <1>1, <1>2, <1>3, <1>4, <1>5, <1>6, <1>7

\* A card is made, and sent or queued.
LEMMA AnnounceStep ==
  ASSUME IInv, Announce
  PROVE  IInv'
<1> USE AuthAssumption DEF IInv, roomVars, clientVars, wireVars, authVars
<1>1. /\ rooms' \in Cards /\ due' = rooms' /\ rooms' = rooms + 1 /\ rooms \in Nat
      /\ UNCHANGED <<m_ws, retry, wire, challenge, authVars>>
  BY DEF Announce, TypeOK, Cards
<1>2. rooms' >= due' /\ rooms' >= due
  BY <1>1 DEF QueueFresh, TypeOK, Cards
<1>3. CASE m_ws = "open"
  <2>1. m_messageQueue' = m_messageQueue /\ toAuth' = Sent(<<rooms'>>)
    BY <1>1, <1>3 DEF Announce, SendMessage
  <2>2. <<rooms'>> \in Seq(Cards \cup {Response}) /\ <<rooms'>> # <<>>
        /\ <<rooms'>>[Len(<<rooms'>>)] = rooms'
    BY <1>1
  <2>3. toAuth' \in Seq(Cards \cup {Response}) /\ (wire = "up" => EndsFresh(toAuth)')
    <3> DEFINE t == <<rooms'>>
    <3>1. t \in Seq(Cards \cup {Response}) /\ t # <<>> /\ t[Len(t)] = rooms'
      BY <2>2
    <3>2. toAuth \in Seq(Cards \cup {Response}) /\ toAuth' = IF wire = "up" THEN toAuth \o t ELSE toAuth
      BY <2>1 DEF Sent, TypeOK
    <3> HIDE DEF t
    <3>3. toAuth \o t \in Seq(Cards \cup {Response}) /\ (toAuth \o t)[Len(toAuth \o t)] = rooms'
      BY <3>1, <3>2, Follows
    <3> QED BY <1>1, <1>2, <3>2, <3>3 DEF EndsFresh
  <2>4. TypeOK' /\ QueueFresh'
    BY <1>1, <1>2, <1>3, <2>1, <2>3 DEF TypeOK, QueueFresh, Streams, EndsFresh
  <2>5. Streams' /\ StreamFresh'
    BY <1>1, <1>3, <2>1, <2>3 DEF Streams, StreamFresh, Sent
  <2>6. wire = "up" => toAuth' # <<>>
    BY <2>1, <2>2, Follows DEF Sent, TypeOK
  <2> QED BY <1>1, <2>4, <2>5, <2>6 DEF ReadAllUpToDate
<1>4. CASE m_ws # "open"
  <2>1. m_messageQueue' = Append(m_messageQueue, rooms') /\ toAuth' = toAuth
    BY <1>1, <1>4 DEF Announce, SendMessage
  <2>2. m_messageQueue' \in Seq(Cards) /\ EndsFresh(m_messageQueue)'
    BY <1>1, <1>2, <2>1, AppendProperties, LenProperties DEF EndsFresh, TypeOK
  <2>3. TypeOK' /\ QueueFresh'
    BY <1>1, <1>2, <2>1, <2>2 DEF TypeOK, QueueFresh
  <2> QED BY <1>1, <1>4, <2>1, <2>3 DEF Streams, StreamFresh, ReadAllUpToDate
<1> QED BY <1>3, <1>4

\* A fresh card, behind an answer or not, and then what has waited.
LEMMA FlushSteps ==
  ASSUME IInv, OnOpen \/ OnChallenge
  PROVE  IInv'
<1> USE AuthAssumption DEF IInv, roomVars, clientVars, wireVars, authVars
<1> DEFINE S == Cards \cup {Response}
<1>1. PICK t \in Seq(S) : /\ t # <<>> /\ t[Len(t)] = rooms
                          /\ toAuth' = Sent(t \o m_messageQueue)
  <2>1. rooms \in S /\ Response \in S
    BY DEF TypeOK
  <2>2. <<rooms>> \in Seq(S) /\ <<rooms>> # <<>> /\ <<rooms>>[Len(<<rooms>>)] = rooms
    BY <2>1
  <2>3. /\ <<Response, rooms>> \in Seq(S) /\ <<Response, rooms>> # <<>>
        /\ <<Response, rooms>>[Len(<<Response, rooms>>)] = rooms
    BY <2>1
  <2> QED BY <2>2, <2>3 DEF OnOpen, OnChallenge
<1>2. /\ m_messageQueue' = <<>> /\ UNCHANGED <<rooms, due, wire, accepted, trusted, authCard, retry>>
      /\ m_ws' = "open" /\ challenge' \in BOOLEAN
  BY DEF OnOpen, OnChallenge, TypeOK
<1>3. m_messageQueue \in Seq(S) /\ toAuth \in Seq(S)
  <2>1. Seq(Cards) \subseteq Seq(S)
    BY SeqMonotonic
  <2> QED BY <2>1 DEF TypeOK
<1>4. rooms >= due /\ rooms \in Cards
  BY DEF QueueFresh, TypeOK, Cards
<1> DEFINE f == t \o m_messageQueue
<1>5. f \in Seq(S) /\ f # <<>> /\ f[Len(f)] \in Cards /\ f[Len(f)] >= due
  <2>1. CASE m_messageQueue = <<>>
    BY <1>1, <1>3, <1>4, <2>1, Follows
  <2>2. CASE m_messageQueue # <<>>
    <3>1. m_messageQueue[Len(m_messageQueue)] \in Cards
          /\ m_messageQueue[Len(m_messageQueue)] >= due
      BY <2>2 DEF QueueFresh, EndsFresh
    <3> HIDE DEF S
    <3> QED BY <1>1, <1>3, <2>2, <3>1, Follows
  <2> QED BY <2>1, <2>2
<1>6. toAuth' \in Seq(S) /\ (wire = "up" => toAuth' # <<>> /\ EndsFresh(toAuth)')
  <2>1. toAuth' = IF wire = "up" THEN toAuth \o f ELSE toAuth
    BY <1>1 DEF Sent
  <2> HIDE DEF f, S
  <2>2. /\ toAuth \o f \in Seq(S) /\ toAuth \o f # <<>>
        /\ (toAuth \o f)[Len(toAuth \o f)] = f[Len(f)]
    BY <1>3, <1>5, Follows
  <2> QED BY <1>2, <1>3, <1>5, <2>1, <2>2 DEF EndsFresh
<1>7. TypeOK'
  BY <1>2, <1>6 DEF TypeOK
<1>8. QueueFresh' /\ ReadAllUpToDate'
  BY <1>2, <1>6 DEF QueueFresh, EndsFresh, ReadAllUpToDate
<1>9. Streams' /\ StreamFresh'
  <2>1. wire # "up" => toAuth' = <<>>
    BY <1>1 DEF Sent, Streams
  <2> QED BY <1>2, <1>6, <2>1 DEF Streams, StreamFresh
<1> QED BY <1>7, <1>8, <1>9

\* AUTH reads a card, or the answer to its challenge.
LEMMA AuthReceiveStep ==
  ASSUME IInv, AuthReceive
  PROVE  IInv'
<1> USE AuthAssumption DEF IInv, roomVars, clientVars, wireVars, authVars
<1> DEFINE S == Cards \cup {Response}
<1>1. toAuth \in Seq(S) /\ toAuth # <<>> /\ toAuth' = Tail(toAuth)
      /\ UNCHANGED <<rooms, due, m_ws, m_messageQueue, retry, wire, challenge, accepted>>
  BY DEF AuthReceive, TypeOK
<1>2. Head(toAuth) \in S
  BY <1>1, HeadTailProperties
<1>3. /\ toAuth' \in Seq(S)
      /\ toAuth' # <<>> => toAuth'[Len(toAuth')] = toAuth[Len(toAuth)]
      /\ toAuth' = <<>> => Head(toAuth) = toAuth[Len(toAuth)]
  BY <1>1, Rest
<1>4. /\ trusted' = (trusted \/ Head(toAuth) = Response)
      /\ authCard' = IF trusted /\ Head(toAuth) # Response THEN Head(toAuth) ELSE authCard
  BY DEF AuthReceive
<1>5. TypeOK'
  <2>1. authCard' \in Cards \cup {None} /\ trusted' \in BOOLEAN
    BY <1>2, <1>4 DEF TypeOK
  <2> QED BY <1>1, <1>3, <2>1 DEF TypeOK
<1>6. QueueFresh' /\ Streams'
  BY <1>1 DEF QueueFresh, EndsFresh, Streams
<1>7. StreamFresh'
  BY <1>1, <1>3 DEF StreamFresh, EndsFresh
<1>8. ReadAllUpToDate'
  <2>1. SUFFICES ASSUME m_ws = "open", wire = "up", trusted', toAuth' = <<>>
                 PROVE  UpToDate'
    BY <1>1 DEF ReadAllUpToDate
  <2>2. Head(toAuth) \in Cards /\ Head(toAuth) >= due
    BY <1>1, <1>3, <2>1 DEF StreamFresh, EndsFresh
  <2>3. Head(toAuth) # Response /\ Head(toAuth) # None
    BY <2>2 DEF Cards
  <2>4. authCard' = Head(toAuth)
    BY <1>4, <2>1, <2>3
  <2> QED BY <1>1, <2>2, <2>3, <2>4 DEF UpToDate
<1> QED BY <1>5, <1>6, <1>7, <1>8

-----------------------------------------------------------------------------
\* The inductive invariant of the link.
THEOREM Invariant == Spec => []IInv
<1>1. Init => IInv
  BY InvInit
<1>2. IInv /\ [Next]_vars => IInv'
  <2> SUFFICES ASSUME IInv, [Next]_vars PROVE IInv'
    OBVIOUS
  <2> QED BY QuietSteps, AnnounceStep, FlushSteps, AuthReceiveStep DEF Next
<1> QED BY <1>1, <1>2, PTL DEF Spec

\* The variables keep their types.
THEOREM TypeCorrect == Spec => []TypeOK
<1>1. IInv => TypeOK
  BY DEF IInv
<1> QED BY <1>1, Invariant, PTL

\* A card that AUTH has read last is never older than what it was to be told,
\* although older ones follow the fresh one when a connection opens.
THEOREM AuthUpToDate == Spec => []ReadAllUpToDate
<1>1. IInv => ReadAllUpToDate
  BY DEF IInv
<1> QED BY <1>1, Invariant, PTL
=============================================================================
