------------------------- MODULE KeyDelivery_proofs -------------------------
(* Theorems about KeyDelivery for every number of sessions, subscribers,   *)
(* session IDs, lines and restarts.                                        *)
EXTENDS KeyDelivery, TLAPS

-----------------------------------------------------------------------------
(* The inductive invariant.  TypeOK alone is not inductive: that the key of *)
(* a published message exists is what keeps every lookup within its domain. *)

\* A session has no ID until the responder answers its V_U, and from then on
\* the responder has left it for good.
HandshakeInv ==
  /\ \A p \in Sessions : pub[p] = "start" => sid[p] = None /\ p \notin waiting
  /\ \A p \in waiting : sid[p] = None
  /\ responder.stage = "handshake" =>
       /\ sid[responder.peer] = None
       /\ pub[responder.peer] # "start"
       /\ responder.peer \notin waiting
  /\ responder.stage = "print" => sid[responder.peer] # None
  /\ \A p \in Sessions : pub[p] \in {"confirmed", "ready"} => sid[p] # None
  /\ \A n \in 1 .. Len(stdout) : sid[stdout[n]] # None

\* Only sessions with an ID publish, and an answer is for a query.
MessageInv ==
  /\ \A s \in Subscribers : \A m \in inbox[s] : m # Noise => sid[m.from] # None
  /\ \A s \in Subscribers :
       sub[s] = "querying" =>
         cur[s] \in Messages \ {Noise} /\ sid[cur[s].from] # None
  /\ \A s \in Subscribers : reply[s] # None => sub[s] = "querying"

\* Wherever a key is stored or used, it is under the ID of its session, and a
\* query is only made for an ID that is not cached.
KeyInv ==
  /\ \A i \in SessionIDs : lookupTable[i] # None => sid[lookupTable[i]] = i
  /\ \A s \in Subscribers : reply[s] \in Sessions => sid[reply[s]] = sid[cur[s].from]
  /\ \A s \in Subscribers :
       sub[s] = "querying" => keyCache[s][sid[cur[s].from]] = None
  /\ \A s \in Subscribers, i \in SessionIDs :
       keyCache[s][i] # None => sid[keyCache[s][i]] = i
  /\ \A s \in Subscribers, i \in SessionIDs :
       cipherCache[s][i] # None => cipherCache[s][i] = keyCache[s][i]
  /\ \A s \in Subscribers : \A w \in written[s] :
       w.msg # Noise /\ sid[w.key] # None /\ sid[w.key] = sid[w.msg.from]

IInv == TypeOK /\ HandshakeInv /\ MessageInv /\ KeyInv /\ KeyOnItsWay

-----------------------------------------------------------------------------

\* A message that is not Noise comes from a session.
LEMMA MessageFrom == \A m \in Messages : m # Noise => m.from \in Sessions
  BY DEF Messages, Noise

\* What the end of on_message does to each variable, whatever comes of write.
LEMMA WriteEffect ==
  ASSUME TypeOK, NEW s \in Subscribers, NEW m \in Messages, NEW keys,
         DecryptAndWrite(s, m, keys)
  PROVE  LET i == sid[m.from]
             w == [msg |-> m, key |-> Cipher(s, i, keys)]
         IN  /\ keyCache' = [keyCache EXCEPT ![s] = keys]
             /\ cipherCache' = [cipherCache EXCEPT ![s][i] = Cipher(s, i, keys)]
             /\ \/ written' = written
                \/ written' = [written EXCEPT ![s] = @ \union {w}]
             /\ \/ sub' = [sub EXCEPT ![s] = "looping"]
                \/ sub' = [sub EXCEPT ![s] = "crashed"]
             /\ cur' = [cur EXCEPT ![s] = None]
             /\ reply' = [reply EXCEPT ![s] = None]
             /\ \/ inbox' = [inbox EXCEPT ![s] = {}]
                \/ inbox' = [inbox EXCEPT ![s] = @ \ {m}]
             /\ linked' \in SUBSET linked
             /\ thriftConn' \in {thriftConn, None}
             /\ backlog' \in SUBSET backlog
             /\ UNCHANGED <<pubVars, sid, serverVars>>
  BY DEF DecryptAndWrite, EndProcess, thriftVars

\* Once a key is at hand, the end of on_message keeps the types.
LEMMA WriteType ==
  ASSUME TypeOK, NEW s \in Subscribers, NEW m \in Messages, m # Noise,
         sid[m.from] # None,
         NEW keys \in [SessionIDs -> Sessions \union {None}],
         keys[sid[m.from]] # None,
         DecryptAndWrite(s, m, keys)
  PROVE  TypeOK'
<1> DEFINE i == sid[m.from]
           cipher == Cipher(s, i, keys)
<1>1. i \in SessionIDs
  BY MessageFrom DEF TypeOK
<1>2. cipher \in Sessions
  <2>1. keys[i] \in Sessions /\ cipherCache[s][i] \in Sessions \union {None}
    BY <1>1 DEF TypeOK
  <2> QED
    BY <2>1 DEF Cipher
<1>3. /\ keyCache' = [keyCache EXCEPT ![s] = keys]
      /\ cipherCache' = [cipherCache EXCEPT ![s][i] = cipher]
      /\ \/ written' = written
         \/ written' = [written EXCEPT ![s] = @ \union {[msg |-> m, key |-> cipher]}]
  BY WriteEffect
<1>4. [msg |-> m, key |-> cipher] \in [msg : Messages, key : Sessions]
  BY <1>2
<1> HIDE DEF i, cipher
<1>5. /\ keyCache' \in [Subscribers -> [SessionIDs -> Sessions \union {None}]]
      /\ cipherCache' \in [Subscribers -> [SessionIDs -> Sessions \union {None}]]
      /\ written' \in [Subscribers -> SUBSET [msg : Messages, key : Sessions]]
  <2>t. /\ keyCache \in [Subscribers -> [SessionIDs -> Sessions \union {None}]]
        /\ cipherCache \in [Subscribers -> [SessionIDs -> Sessions \union {None}]]
        /\ written \in [Subscribers -> SUBSET [msg : Messages, key : Sessions]]
    BY DEF TypeOK
  <2>1. keyCache' \in [Subscribers -> [SessionIDs -> Sessions \union {None}]]
    BY <1>3, <2>t
  <2>2. cipherCache' \in [Subscribers -> [SessionIDs -> Sessions \union {None}]]
    BY <1>1, <1>2, <1>3, <2>t
  <2>3. written' \in [Subscribers -> SUBSET [msg : Messages, key : Sessions]]
    BY <1>3, <1>4, <2>t
  <2> QED
    BY <2>1, <2>2, <2>3
<1>6. /\ \/ sub' = [sub EXCEPT ![s] = "looping"]
         \/ sub' = [sub EXCEPT ![s] = "crashed"]
      /\ cur' = [cur EXCEPT ![s] = None]
      /\ reply' = [reply EXCEPT ![s] = None]
      /\ \/ inbox' = [inbox EXCEPT ![s] = {}]
         \/ inbox' = [inbox EXCEPT ![s] = @ \ {m}]
  BY WriteEffect
<1>7. /\ sub' \in [Subscribers -> SubStates]
      /\ cur' \in [Subscribers -> Messages \union {None}]
      /\ reply' \in [Subscribers -> Sessions \union {Fault, None}]
      /\ inbox' \in [Subscribers -> SUBSET Messages]
  <2>t. /\ sub \in [Subscribers -> SubStates]
        /\ cur \in [Subscribers -> Messages \union {None}]
        /\ reply \in [Subscribers -> Sessions \union {Fault, None}]
        /\ inbox \in [Subscribers -> SUBSET Messages]
    BY DEF TypeOK
  <2>1. sub' \in [Subscribers -> SubStates]
    BY <1>6, <2>t DEF SubStates
  <2>2. cur' \in [Subscribers -> Messages \union {None}]
    BY <1>6, <2>t
  <2>3. reply' \in [Subscribers -> Sessions \union {Fault, None}]
    BY <1>6, <2>t
  <2>4. inbox' \in [Subscribers -> SUBSET Messages]
    BY <1>6, <2>t
  <2> QED
    BY <2>1, <2>2, <2>3, <2>4
<1>8. /\ linked' \in SUBSET Subscribers
      /\ thriftConn' \in Subscribers \union {None}
      /\ backlog' \in SUBSET Subscribers
      /\ UNCHANGED <<pubVars, sid, serverVars>>
  BY WriteEffect DEF TypeOK
<1> QED
  BY <1>5, <1>7, <1>8 DEF TypeOK, pubVars, serverVars

\* Every step keeps the variables in their types.
LEMMA TypeStep == TypeOK /\ HandshakeInv /\ MessageInv /\ [Next]_vars => TypeOK'
<1> SUFFICES ASSUME TypeOK, HandshakeInv, MessageInv, [Next]_vars PROVE TypeOK'
  OBVIOUS
<1> USE ConstantsAssumption
    DEF TypeOK, PubStates, SubStates, Idle, EmptyTable, Messages, Noise, SetPub,
        pubVars, serverVars, thriftVars, cacheVars, subVars, vars
<1>1. CASE SendVS
  <2>1. responder.stage = "handshake" /\ responder.peer \in Sessions
    BY <1>1 DEF SendVS
  <2>2. responder' \in [stage : {"handshake", "print"}, peer : Sessions]
    BY <1>1, <2>1 DEF SendVS
  <2>3. sid' \in [Sessions -> SessionIDs \union {None}]
    BY <1>1, <2>1 DEF SendVS
  <2>4. pub' \in [Sessions -> PubStates]
    BY <1>1, <2>1 DEF SendVS
  <2> QED
    BY <1>1, <2>2, <2>3, <2>4 DEF SendVS
<1>2. CASE PrintSK
  BY <1>2 DEF PrintSK
<1>3a. CASE ServerDies
  BY <1>3a DEF ServerDies
<1>3b. CASE ResponderFails
  BY <1>3b DEF ResponderFails
<1>4. CASE SeeError
  <2>1. lost' \in SUBSET Sessions
    BY <1>4 DEF SeeError, Derived
  <2>2. lookupTable' \in [SessionIDs -> Sessions \union {None}]
    BY <1>4 DEF SeeError
  <2>3. responder' \in [stage : {"accept", "dead"}, peer : {None}]
    BY <1>4 DEF SeeError
  <2>4. stdout' \in Seq(Sessions)
    BY <1>4 DEF SeeError
  <2> QED
    BY <1>4, <2>1, <2>2, <2>3, <2>4 DEF SeeError
<1>5. CASE AddKey
  <2>1. Head(stdout) \in Sessions /\ Tail(stdout) \in Seq(Sessions)
    BY <1>5 DEF AddKey
  <2> QED
    BY <1>5, <2>1 DEF AddKey
<1>6. CASE ThriftAccept
  BY <1>6 DEF ThriftAccept
<1>7. CASE Restart
  BY <1>7 DEF Restart
<1>8. ASSUME NEW p \in Sessions, Publisher(p) PROVE TypeOK'
  <2>1. CASE Connect(p)
    <3>1. CASE SetPub(p, "connected") /\ waiting' = waiting \union {p}
      <4>1. /\ pub' = [pub EXCEPT ![p] = "connected"]
            /\ waiting' = waiting \union {p}
            /\ UNCHANGED <<lines, sid, up, responder, stdout, stderr, lookupTable, lost,
                           restarts, thriftVars, subVars>>
        BY <2>1, <3>1 DEF Connect
      <4> QED
        BY <4>1
    <3>2. CASE SetPub(p, "exited") /\ UNCHANGED waiting
      BY <2>1, <3>2 DEF Connect
    <3> QED
      BY <2>1, <3>1, <3>2 DEF Connect
  <2>2. CASE VerifyVS(p)
    BY <2>2 DEF VerifyVS
  <2>5. CASE GiveUp(p)
    BY <2>5 DEF GiveUp
  <2>6. CASE PublisherEnds(p)
    BY <2>6 DEF PublisherEnds
  <2>3. CASE Publish(p)
    BY <2>3 DEF Publish
  <2>4. CASE Accept(p)
    BY <2>4 DEF Accept
  <2> QED
    BY <1>8, <2>1, <2>2, <2>3, <2>4, <2>5, <2>6 DEF Publisher
<1>9. ASSUME NEW s \in Subscribers, Subscriber(s) PROVE TypeOK'
  <2>1. CASE OpenThrift(s)
    BY <2>1 DEF OpenThrift
  <2>2. ASSUME NEW state \in SubStates, EndSubscriber(s, state) PROVE TypeOK'
    BY <2>2 DEF EndSubscriber, EndProcess
  <2>8. CASE StartFails(s) \/ Stop(s) \/ ReceiveFault(s) \/ QueryBroken(s)
    <3> HIDE DEF TypeOK
    <3> QED
      BY <2>2, <2>8 DEF StartFails, Stop, ReceiveFault, QueryBroken
  <2>3. CASE ConnectBroker(s)
    BY <2>3 DEF ConnectBroker
  <2>9. CASE LoseBroker(s)
    BY <2>9 DEF LoseBroker
  <2>4. CASE OtherPublishes(s)
    BY <2>4 DEF OtherPublishes
  <2>5. CASE SearchKey(s)
    <3>1. cur[s] \in Messages /\ cur[s] # Noise /\ sid[cur[s].from] # None
      BY <2>5 DEF SearchKey, MessageInv
    <3>2. sid[cur[s].from] \in SessionIDs
      BY <3>1, MessageFrom
    <3>3. lookupTable[sid[cur[s].from]] \in Sessions \union {None}
      BY <3>2
    <3>4. reply' \in [Subscribers -> Sessions \union {Fault, None}]
      BY <2>5, <3>3 DEF SearchKey, process_SearchKey
    <3> QED
      BY <2>5, <3>4 DEF SearchKey
  <2>6. CASE ReceiveKey(s)
    <3> DEFINE keys == [keyCache[s] EXCEPT ![sid[cur[s].from]] = reply[s]]
    <3>1. reply[s] \in Sessions /\ reply[s] # None
      BY <2>6 DEF ReceiveKey
    <3>2. cur[s] \in Messages /\ cur[s] # Noise /\ sid[cur[s].from] # None
      BY <3>1 DEF MessageInv
    <3>3. sid[cur[s].from] \in SessionIDs
      BY <3>2, MessageFrom
    <3>4. /\ keys \in [SessionIDs -> Sessions \union {None}]
          /\ keys[sid[cur[s].from]] # None
      BY <3>1, <3>3
    <3>5. DecryptAndWrite(s, cur[s], keys)
      BY <2>6 DEF ReceiveKey
    <3> HIDE DEF keys, TypeOK, Messages, Noise
    <3> QED
      BY <3>2, <3>4, <3>5, WriteType
  <2>7. ASSUME NEW m \in inbox[s], Handle(s, m) PROVE TypeOK'
    <3>1. CASE RejectPayload(s)
      <4>1. CASE EndSubscriber(s, "crashed")
        <5>1. "crashed" \in SubStates
          BY DEF SubStates
        <5> HIDE DEF TypeOK
        <5> QED
          BY <2>2, <4>1, <5>1
      <4>2. CASE /\ inbox' = [inbox EXCEPT ![s] = @ \ {Noise}]
                 /\ UNCHANGED <<pubVars, sid, serverVars, thriftVars,
                                sub, linked, cur, reply, cacheVars>>
        BY <4>2
      <4> HIDE DEF TypeOK
      <4> QED
        BY <3>1, <4>1, <4>2 DEF RejectPayload
    <3>2. CASE DecodeCached(s, m)
      <4>1. m \in Messages /\ m # Noise /\ sid[m.from] # None
        BY <3>2 DEF DecodeCached, MessageInv
      <4>2. keyCache[s] \in [SessionIDs -> Sessions \union {None}]
        OBVIOUS
      <4>3. keyCache[s][sid[m.from]] # None /\ DecryptAndWrite(s, m, keyCache[s])
        BY <3>2 DEF DecodeCached
      <4> HIDE DEF TypeOK, Messages, Noise
      <4> QED
        BY <4>1, <4>2, <4>3, WriteType
    <3>3. CASE QueryKey(s, m)
      BY <3>3 DEF QueryKey
    <3> QED
      BY <2>7, <3>1, <3>2, <3>3 DEF Handle
  <2> QED
    <3> HIDE DEF TypeOK
    <3> QED
      BY <1>9, <2>1, <2>2, <2>3, <2>4, <2>5, <2>6, <2>7, <2>8, <2>9
         DEF Subscriber, Callback
<1>10. CASE UNCHANGED vars
  BY <1>10
<1> HIDE DEF TypeOK, vars
<1> QED
  BY <1>1, <1>2, <1>3a, <1>3b, <1>4, <1>5, <1>6, <1>7, <1>8, <1>9, <1>10 DEF Next, Server

-----------------------------------------------------------------------------
(* Which variables the actors leave alone.                                 *)

LEMMA SubscriberFrame ==
  ASSUME NEW s \in Subscribers, Subscriber(s)
  PROVE  UNCHANGED <<pubVars, sid, serverVars>>
  BY DEF Subscriber, Callback, Handle, OpenThrift, StartFails, ConnectBroker,
         LoseBroker, OtherPublishes, RejectPayload, DecodeCached, QueryKey, ReceiveKey,
         ReceiveFault, QueryBroken, SearchKey, Stop, EndSubscriber, DecryptAndWrite

LEMMA PublisherFrame ==
  ASSUME NEW p \in Sessions, Publisher(p)
  PROVE  UNCHANGED <<sid, up, stdout, stderr, lookupTable, lost, restarts,
                     thriftVars, sub, cur, reply, cacheVars>>
<1>1. CASE Publish(p)
  BY <1>1 DEF Publish, serverVars
<1>2. CASE Connect(p) \/ Accept(p)
  BY <1>2 DEF Connect, Accept, subVars, cacheVars
<1>3. CASE VerifyVS(p) \/ GiveUp(p) \/ PublisherEnds(p)
  BY <1>3 DEF VerifyVS, GiveUp, PublisherEnds, subVars, serverVars, cacheVars
<1> QED
  BY <1>1, <1>2, <1>3 DEF Publisher

LEMMA ServerFrame ==
  ASSUME Server \/ Restart
  PROVE  UNCHANGED <<lines, subVars>>
  BY DEF Server, Restart, SendVS, PrintSK, ServerDies, ResponderFails, SeeError,
         AddKey, ThriftAccept, pubVars

-----------------------------------------------------------------------------
LEMMA HandshakeStep == TypeOK /\ HandshakeInv /\ [Next]_vars => HandshakeInv'
<1> SUFFICES ASSUME TypeOK, HandshakeInv, [Next]_vars PROVE HandshakeInv'
  OBVIOUS
<1> USE ConstantsAssumption DEF HandshakeInv, Idle, SetPub, pubVars, serverVars
<1>t. /\ pub \in [Sessions -> PubStates]
      /\ sid \in [Sessions -> SessionIDs \union {None}]
      /\ waiting \in SUBSET Sessions
      /\ responder \in [stage : {"accept", "dead"}, peer : {None}] \union
                       [stage : {"handshake", "print"}, peer : Sessions]
      /\ stdout \in Seq(Sessions)
  BY DEF TypeOK
<1>1. CASE SendVS
  <2>1. PICK i \in SessionIDs : sid' = [sid EXCEPT ![responder.peer] = i]
    BY <1>1 DEF SendVS
  <2>2. /\ responder.stage = "handshake" /\ responder.peer \in Sessions
        /\ responder' = [responder EXCEPT !.stage = "print"]
        /\ pub' = [pub EXCEPT ![responder.peer] = IF @ = "exited" THEN @ ELSE "confirmed"]
        /\ UNCHANGED <<waiting, stdout>>
    BY <1>1, <1>t DEF SendVS
  <2>3. sid'[responder.peer] # None /\ \A p \in Sessions : sid[p] # None => sid'[p] # None
    BY <2>1, <2>2, <1>t
  <2>4. \A p \in Sessions : p # responder.peer => sid'[p] = sid[p] /\ pub'[p] = pub[p]
    BY <2>1, <2>2, <1>t
  <2>5. responder'.stage = "print" /\ responder'.peer = responder.peer
    BY <2>2, <1>t
  <2>6. pub'[responder.peer] # "start"
    BY <2>2, <1>t
  <2>7. \A n \in 1 .. Len(stdout) : stdout[n] \in Sessions
    BY <1>t
  <2> QED
    BY <2>2, <2>3, <2>4, <2>5, <2>6, <2>7, <1>t
<1>2. CASE PrintSK
  <2>1. responder.peer \in Sessions /\ sid[responder.peer] # None
    BY <1>2, <1>t DEF PrintSK
  <2>2. \A n \in 1 .. Len(stdout') : sid[stdout'[n]] # None
    BY <1>2, <2>1, <1>t DEF PrintSK
  <2>3. responder'.stage = "accept"
    BY <1>2 DEF PrintSK
  <2> QED
    BY <1>2, <2>2, <2>3 DEF PrintSK
<1>3. CASE ServerDies
  BY <1>3 DEF ServerDies
<1>4. CASE ResponderFails
  BY <1>4 DEF ResponderFails
<1>5. CASE SeeError
  BY <1>5, <1>t DEF SeeError
<1>6. CASE AddKey
  <2>1. \A n \in 1 .. Len(stdout') : sid[stdout'[n]] # None
    BY <1>6, <1>t DEF AddKey
  <2> QED
    BY <1>6, <2>1 DEF AddKey
<1>7. CASE ThriftAccept
  BY <1>7 DEF ThriftAccept
<1>8. CASE Restart
  BY <1>8 DEF Restart
<1>9. ASSUME NEW p \in Sessions, Publisher(p) PROVE HandshakeInv'
  <2>1. CASE Connect(p)
    <3>1. CASE SetPub(p, "connected") /\ waiting' = waiting \union {p}
      BY <2>1, <3>1, <1>t DEF Connect
    <3>2. CASE SetPub(p, "exited") /\ UNCHANGED waiting
      BY <2>1, <3>2, <1>t DEF Connect
    <3> QED
      BY <2>1, <3>1, <3>2 DEF Connect
  <2>2. CASE VerifyVS(p)
    BY <2>2, <1>t DEF VerifyVS
  <2>3. CASE GiveUp(p)
    BY <2>3, <1>t DEF GiveUp
  <2>4. CASE PublisherEnds(p)
    BY <2>4, <1>t DEF PublisherEnds
  <2>5. CASE Publish(p)
    BY <2>5, <1>t DEF Publish
  <2>6. CASE Accept(p)
    BY <2>6, <1>t DEF Accept
  <2> QED
    BY <1>9, <2>1, <2>2, <2>3, <2>4, <2>5, <2>6 DEF Publisher
<1>10. ASSUME NEW s \in Subscribers, Subscriber(s) PROVE HandshakeInv'
  BY <1>10, SubscriberFrame
<1>11. CASE UNCHANGED vars
  BY <1>11 DEF vars
<1> HIDE DEF HandshakeInv
<1> QED
  BY <1>1, <1>2, <1>3, <1>4, <1>5, <1>6, <1>7, <1>8, <1>9, <1>10, <1>11 DEF Next, Server

\* A session ID, once drawn, never changes.
LEMMA SidStays ==
  ASSUME TypeOK, HandshakeInv, [Next]_vars
  PROVE  \A p \in Sessions : sid[p] # None => sid'[p] = sid[p]
<1>1. CASE SendVS
  <2>1. responder.stage = "handshake" /\ responder.peer \in Sessions
    BY <1>1 DEF SendVS, TypeOK
  <2> QED
    BY <1>1, <2>1 DEF SendVS, TypeOK, HandshakeInv
<1>2. CASE (Server /\ ~SendVS) \/ Restart
  BY <1>2 DEF Server, Restart, PrintSK, ServerDies, ResponderFails, SeeError,
              AddKey, ThriftAccept
<1>3. ASSUME NEW p \in Sessions, Publisher(p) PROVE sid' = sid
  BY <1>3, PublisherFrame
<1>4. ASSUME NEW s \in Subscribers, Subscriber(s) PROVE sid' = sid
  BY <1>4, SubscriberFrame
<1> QED
  BY <1>1, <1>2, <1>3, <1>4 DEF Next, vars

-----------------------------------------------------------------------------
LEMMA MessageStep ==
  TypeOK /\ HandshakeInv /\ MessageInv /\ [Next]_vars => MessageInv'
<1> SUFFICES ASSUME TypeOK, HandshakeInv, MessageInv, [Next]_vars PROVE MessageInv'
  OBVIOUS
<1>t. /\ inbox \in [Subscribers -> SUBSET Messages]
      /\ cur \in [Subscribers -> Messages \union {None}]
      /\ reply \in [Subscribers -> Sessions \union {Fault, None}]
      /\ sub \in [Subscribers -> SubStates]
      /\ lines \in [Sessions -> 0 .. MaxLines]
  BY DEF TypeOK
<1>s. \A p \in Sessions : sid[p] # None => sid'[p] # None
  BY SidStays, ConstantsAssumption
<1>m. \A m \in Messages : m # Noise => m.from \in Sessions
  BY MessageFrom
<1> USE DEF MessageInv
<1>1. CASE UNCHANGED <<sub, inbox, cur, reply>>
  BY <1>1, <1>t, <1>s, <1>m
<1>2. ASSUME NEW p \in Sessions, Publisher(p) PROVE MessageInv'
  <2>1. CASE Publish(p)
    <3> DEFINE m == [from |-> p, line |-> lines[p] + 1]
    <3>1. sid[p] # None /\ UNCHANGED <<sid, sub, cur, reply>>
      BY <2>1 DEF Publish, HandshakeInv
    <3>2. m.from = p
      OBVIOUS
    <3>3. \A s \in Subscribers : inbox'[s] \subseteq inbox[s] \union {m}
      BY <2>1, <1>t DEF Publish
    <3> HIDE DEF m
    <3> QED
      BY <3>1, <3>2, <3>3, <1>t
  <2>2. CASE ~Publish(p)
    BY <1>2, <2>2, <1>1 DEF Publisher, Connect, VerifyVS, GiveUp, PublisherEnds,
                            Accept, subVars
  <2> QED
    BY <2>1, <2>2
<1>3. ASSUME NEW s \in Subscribers, Subscriber(s) PROVE MessageInv'
  <2>f. sid' = sid
    BY <1>3, SubscriberFrame
  <2>1. ASSUME NEW state \in SubStates, state # "querying", EndSubscriber(s, state)
        PROVE  MessageInv'
    BY <2>1, <2>f, <1>t DEF EndSubscriber, EndProcess
  <2>2. CASE StartFails(s) \/ Stop(s) \/ ReceiveFault(s) \/ QueryBroken(s)
    <3> HIDE DEF MessageInv
    <3> QED
      BY <2>1, <2>2 DEF StartFails, Stop, ReceiveFault, QueryBroken, SubStates
  <2>3. CASE OpenThrift(s) \/ ConnectBroker(s)
    BY <2>3, <2>f, <1>t DEF OpenThrift, ConnectBroker
  <2>8. CASE LoseBroker(s)
    BY <2>8, <2>f, <1>1 DEF LoseBroker
  <2>4. CASE OtherPublishes(s)
    BY <2>4, <2>f, <1>t DEF OtherPublishes
  <2>5. CASE SearchKey(s)
    BY <2>5, <2>f, <1>t DEF SearchKey
  <2>9. ASSUME NEW m \in Messages, NEW keys, DecryptAndWrite(s, m, keys) PROVE MessageInv'
    <3>1. /\ \/ sub' = [sub EXCEPT ![s] = "looping"]
             \/ sub' = [sub EXCEPT ![s] = "crashed"]
          /\ cur' = [cur EXCEPT ![s] = None]
          /\ reply' = [reply EXCEPT ![s] = None]
          /\ \/ inbox' = [inbox EXCEPT ![s] = {}]
             \/ inbox' = [inbox EXCEPT ![s] = @ \ {m}]
      BY <2>9, WriteEffect
    <3> QED
      BY <3>1, <2>f, <1>t
  <2>6. CASE ReceiveKey(s)
    <3>1. cur[s] \in Messages
      BY <2>6, ConstantsAssumption DEF ReceiveKey
    <3> QED
      BY <2>6, <2>9, <3>1 DEF ReceiveKey
  <2>7. ASSUME NEW m \in inbox[s], Handle(s, m) PROVE MessageInv'
    <3>1. CASE RejectPayload(s)
      <4>1. CASE EndSubscriber(s, "crashed")
        BY <2>1, <4>1 DEF SubStates
      <4>2. CASE ~ EndSubscriber(s, "crashed")
        BY <3>1, <4>2, <2>f, <1>t DEF RejectPayload
      <4> QED
        BY <4>1, <4>2
    <3>2. CASE DecodeCached(s, m)
      BY <3>2, <2>9, <1>t DEF DecodeCached
    <3>3. CASE QueryKey(s, m)
      <4>1. m \in Messages /\ m # Noise /\ sid[m.from] # None
        BY <3>3, <1>t DEF QueryKey
      <4> QED
        BY <3>3, <4>1, <2>f, <1>t DEF QueryKey
    <3> QED
      BY <2>7, <3>1, <3>2, <3>3 DEF Handle
  <2> HIDE DEF MessageInv
  <2> QED
    BY <1>3, <2>2, <2>3, <2>4, <2>5, <2>6, <2>7, <2>8 DEF Subscriber, Callback
<1>4. CASE Server \/ Restart
  BY <1>1, <1>4, ServerFrame DEF subVars
<1> HIDE DEF MessageInv
<1> QED
  BY <1>1, <1>2, <1>3, <1>4 DEF Next, vars, subVars

-----------------------------------------------------------------------------
\* The end of on_message keeps every cached and every used key under its ID,
\* given a key that is.
LEMMA WriteKeys ==
  ASSUME TypeOK, KeyInv, NEW s \in Subscribers, NEW m \in Messages, m # Noise,
         sid[m.from] # None,
         NEW keys \in [SessionIDs -> Sessions \union {None}],
         keys[sid[m.from]] # None,
         \A i \in SessionIDs : keys[i] # None => sid[keys[i]] = i,
         \A i \in SessionIDs : keyCache[s][i] # None => keys[i] = keyCache[s][i],
         DecryptAndWrite(s, m, keys)
  PROVE  KeyInv'
<1> DEFINE id == sid[m.from]
           cipher == Cipher(s, id, keys)
<1>t. /\ keyCache \in [Subscribers -> [SessionIDs -> Sessions \union {None}]]
      /\ cipherCache \in [Subscribers -> [SessionIDs -> Sessions \union {None}]]
      /\ written \in [Subscribers -> SUBSET [msg : Messages, key : Sessions]]
      /\ sub \in [Subscribers -> SubStates]
      /\ cur \in [Subscribers -> Messages \union {None}]
      /\ reply \in [Subscribers -> Sessions \union {Fault, None}]
  BY DEF TypeOK
<1>1. id \in SessionIDs
  BY MessageFrom DEF TypeOK
<1>2. cipher = keys[id] /\ keys[id] # None /\ sid[keys[id]] = id
  BY <1>1, <1>t DEF KeyInv, Cipher
<1>3. /\ keyCache' = [keyCache EXCEPT ![s] = keys]
      /\ cipherCache' = [cipherCache EXCEPT ![s][id] = cipher]
      /\ \/ written' = written
         \/ written' = [written EXCEPT ![s] = @ \union {[msg |-> m, key |-> cipher]}]
      /\ UNCHANGED <<sid, lookupTable>>
  BY WriteEffect DEF serverVars
<1>9. /\ \/ sub' = [sub EXCEPT ![s] = "looping"]
         \/ sub' = [sub EXCEPT ![s] = "crashed"]
      /\ cur' = [cur EXCEPT ![s] = None]
      /\ reply' = [reply EXCEPT ![s] = None]
  BY WriteEffect
<1>10. \A t \in Subscribers :
         reply'[t] \in Sessions => reply'[t] = reply[t] /\ cur'[t] = cur[t]
  BY <1>9, <1>t, ConstantsAssumption
<1>11. \A t \in Subscribers : sub'[t] = "querying" =>
         t # s /\ sub[t] = "querying" /\ cur'[t] = cur[t]
  BY <1>9, <1>t
<1>4. id # None
  OBVIOUS
<1> HIDE DEF cipher
<1>5. \A t \in Subscribers, i \in SessionIDs :
        keyCache'[t][i] # None => sid[keyCache'[t][i]] = i
  BY <1>3, <1>t DEF KeyInv
<1>6. \A t \in Subscribers, i \in SessionIDs :
        cipherCache'[t][i] # None => cipherCache'[t][i] = keyCache'[t][i]
  BY <1>1, <1>2, <1>3, <1>t DEF KeyInv
<1>7. \A t \in Subscribers : \A w \in written'[t] :
        w.msg # Noise /\ sid[w.key] # None /\ sid[w.key] = sid[w.msg.from]
  <2> SUFFICES ASSUME NEW t \in Subscribers, NEW w \in written'[t]
               PROVE  w.msg # Noise /\ sid[w.key] # None /\ sid[w.key] = sid[w.msg.from]
    OBVIOUS
  <2>1. CASE w \in written[t]
    BY <2>1 DEF KeyInv
  <2>2. CASE w = [msg |-> m, key |-> cipher]
    BY <2>2, <1>2, <1>4
  <2>3. w \in written[t] \union {[msg |-> m, key |-> cipher]}
    <3>1. CASE written' = written
      BY <3>1
    <3>2. CASE written' = [written EXCEPT ![s] = @ \union {[msg |-> m, key |-> cipher]}]
      BY <3>2, <1>t
    <3> QED
      BY <1>3, <3>1, <3>2
  <2> QED
    BY <2>1, <2>2, <2>3
<1>8. \A t \in Subscribers :
        sub'[t] = "querying" => keyCache'[t][sid[cur'[t].from]] = None
  BY <1>3, <1>11, <1>t DEF KeyInv
<1> QED
  BY <1>3, <1>5, <1>6, <1>7, <1>8, <1>10 DEF KeyInv

LEMMA KeyStep ==
  TypeOK /\ HandshakeInv /\ MessageInv /\ KeyInv /\ [Next]_vars => KeyInv'
<1> SUFFICES ASSUME TypeOK, HandshakeInv, MessageInv, KeyInv, [Next]_vars PROVE KeyInv'
  OBVIOUS
<1>t. /\ lookupTable \in [SessionIDs -> Sessions \union {None}]
      /\ sid \in [Sessions -> SessionIDs \union {None}]
      /\ stdout \in Seq(Sessions)
      /\ sub \in [Subscribers -> SubStates]
      /\ cur \in [Subscribers -> Messages \union {None}]
      /\ reply \in [Subscribers -> Sessions \union {Fault, None}]
      /\ keyCache \in [Subscribers -> [SessionIDs -> Sessions \union {None}]]
      /\ written \in [Subscribers -> SUBSET [msg : Messages, key : Sessions]]
  BY DEF TypeOK
<1>s. \A p \in Sessions : sid[p] # None => sid'[p] = sid[p]
  BY SidStays
<1>m. \A m \in Messages : m # Noise => m.from \in Sessions
  BY MessageFrom
<1>n. \A i \in SessionIDs : i # None
  BY ConstantsAssumption
<1>q. \A s \in Subscribers : reply[s] # None =>
        cur[s] \in Messages \ {Noise} /\ sid[cur[s].from] # None
  BY DEF MessageInv
<1>c. None \notin Sessions /\ Fault \notin Sessions
  BY ConstantsAssumption
<1>1. ASSUME UNCHANGED <<sub, cur, reply, cacheVars>>,
             \A i \in SessionIDs : lookupTable'[i] # None => sid'[lookupTable'[i]] = i
      PROVE  KeyInv'
  <2>1. \A s \in Subscribers : reply[s] \in Sessions => sid'[reply[s]] = sid'[cur[s].from]
    BY <1>s, <1>m, <1>q, <1>c DEF KeyInv
  <2>2. \A s \in Subscribers, i \in SessionIDs :
          keyCache[s][i] # None => sid'[keyCache[s][i]] = i
    BY <1>s, <1>t, <1>n DEF KeyInv
  <2>3. \A s \in Subscribers : \A w \in written[s] :
          w.msg # Noise /\ sid'[w.key] # None /\ sid'[w.key] = sid'[w.msg.from]
    BY <1>s, <1>t, <1>m DEF KeyInv
  <2>4. \A s \in Subscribers :
          sub[s] = "querying" => keyCache[s][sid'[cur[s].from]] = None
    BY <1>s, <1>m DEF KeyInv, MessageInv
  <2> QED
    BY <1>1, <2>1, <2>2, <2>3, <2>4 DEF KeyInv, cacheVars
<1>2. ASSUME UNCHANGED <<sub, cur, reply, cacheVars, lookupTable>> PROVE KeyInv'
  <2>1. \A i \in SessionIDs : lookupTable'[i] # None => sid'[lookupTable'[i]] = i
    BY <1>2, <1>s, <1>t, <1>n DEF KeyInv
  <2> QED
    BY <1>1, <1>2, <2>1
<1>3. CASE Server
  <2>u. UNCHANGED <<sub, cur, reply, cacheVars>>
    BY <1>3, ServerFrame DEF subVars, cacheVars
  <2>1. CASE AddKey
    <3>1. Head(stdout) \in Sessions /\ sid[Head(stdout)] # None
      BY <2>1, <1>t DEF AddKey, HandshakeInv
    <3>2. lookupTable' = [lookupTable EXCEPT ![sid[Head(stdout)]] = Head(stdout)]
          /\ sid' = sid
      BY <2>1 DEF AddKey
    <3>3. \A i \in SessionIDs : lookupTable'[i] # None => sid'[lookupTable'[i]] = i
      BY <3>1, <3>2, <1>t DEF KeyInv
    <3> QED
      BY <3>3, <2>u, <1>1
  <2>2. CASE SeeError
    BY <2>2, <2>u, <1>1 DEF SeeError, EmptyTable
  <2>3. CASE ~AddKey /\ ~SeeError
    BY <1>3, <2>3, <2>u, <1>2 DEF Server, SendVS, PrintSK, ServerDies,
                                   ResponderFails, ThriftAccept, serverVars
  <2> QED
    BY <2>1, <2>2, <2>3
<1>4. CASE Restart
  BY <1>4, <1>2, ServerFrame DEF Restart, subVars, cacheVars
<1>5. ASSUME NEW p \in Sessions, Publisher(p) PROVE KeyInv'
  BY <1>5, <1>2, PublisherFrame
<1>6. ASSUME NEW s \in Subscribers, Subscriber(s) PROVE KeyInv'
  <2>f. sid' = sid /\ UNCHANGED lookupTable
    BY <1>6, SubscriberFrame DEF serverVars
  <2>1. ASSUME NEW state \in SubStates, state # "querying", EndSubscriber(s, state)
        PROVE  KeyInv'
    BY <2>1, <2>f, <1>t, <1>c DEF EndSubscriber, EndProcess, cacheVars, KeyInv
  <2>2. CASE StartFails(s) \/ Stop(s) \/ ReceiveFault(s) \/ QueryBroken(s)
    BY <2>1, <2>2 DEF StartFails, Stop, ReceiveFault, QueryBroken, SubStates
  <2>3. CASE OpenThrift(s) \/ ConnectBroker(s)
    <3>1. /\ sub' \in {[sub EXCEPT ![s] = "opened"], [sub EXCEPT ![s] = "looping"]}
          /\ UNCHANGED <<cur, reply, keyCache, cipherCache, written>>
      BY <2>3 DEF OpenThrift, ConnectBroker, cacheVars
    <3>2. \A t \in Subscribers : sub'[t] = "querying" => sub[t] = "querying"
      BY <3>1, <1>t
    <3> QED
      BY <3>1, <3>2, <2>f DEF KeyInv
  <2>7. CASE OtherPublishes(s) \/ LoseBroker(s)
    BY <2>7, <2>f, <1>2 DEF OtherPublishes, LoseBroker
  <2>4. CASE SearchKey(s)
    <3>1. cur[s] \in Messages \ {Noise} /\ sid[cur[s].from] # None
      BY <2>4 DEF SearchKey, MessageInv
    <3>2. sid[cur[s].from] \in SessionIDs
      BY <3>1, <1>m, <1>t
    <3>3. /\ reply' = [reply EXCEPT ![s] =
                        IF lookupTable[sid[cur[s].from]] = None
                        THEN Fault ELSE lookupTable[sid[cur[s].from]]]
          /\ UNCHANGED <<sub, cur, cacheVars>>
      BY <2>4 DEF SearchKey, process_SearchKey
    <3>4. reply'[s] \in Sessions => sid[reply'[s]] = sid[cur[s].from]
      <4>1. reply'[s] \in Sessions => reply'[s] = lookupTable[sid[cur[s].from]]
        BY <3>3, <1>t, <1>c
      <4>2. lookupTable[sid[cur[s].from]] \in Sessions =>
              sid[lookupTable[sid[cur[s].from]]] = sid[cur[s].from]
        BY <3>2, <1>c DEF KeyInv
      <4> QED
        BY <4>1, <4>2
    <3>5. \A t \in Subscribers : t # s => reply'[t] = reply[t]
      BY <3>3, <1>t
    <3> QED
      <4>1. \A t \in Subscribers :
              reply'[t] \in Sessions => sid[reply'[t]] = sid[cur[t].from]
        BY <3>4, <3>5 DEF KeyInv
      <4>2. UNCHANGED <<sub, cur, keyCache, cipherCache, written, lookupTable, sid>>
        BY <3>3, <2>f DEF cacheVars
      <4> QED
        BY <4>1, <4>2 DEF KeyInv
  <2>5. CASE ReceiveKey(s)
    <3> DEFINE keys == [keyCache[s] EXCEPT ![sid[cur[s].from]] = reply[s]]
    <3>1. reply[s] \in Sessions /\ reply[s] # None /\ sid[reply[s]] = sid[cur[s].from]
      BY <2>5, <1>c DEF ReceiveKey, KeyInv
    <3>2. cur[s] \in Messages /\ cur[s] # Noise /\ sid[cur[s].from] # None
      BY <3>1, <1>q
    <3>3. sid[cur[s].from] \in SessionIDs
      BY <3>2, <1>m, <1>t
    <3>4. /\ keys \in [SessionIDs -> Sessions \union {None}]
          /\ keys[sid[cur[s].from]] # None
          /\ \A i \in SessionIDs : keys[i] # None => sid[keys[i]] = i
      BY <3>1, <3>3, <1>t DEF KeyInv
    <3>5. \A i \in SessionIDs : keyCache[s][i] # None => keys[i] = keyCache[s][i]
      BY <3>1, <3>3, <1>t, <2>5 DEF KeyInv, MessageInv
    <3>6. DecryptAndWrite(s, cur[s], keys)
      BY <2>5 DEF ReceiveKey
    <3> HIDE DEF keys
    <3> QED
      BY <3>2, <3>4, <3>5, <3>6, WriteKeys
  <2>6. ASSUME NEW m \in inbox[s], Handle(s, m) PROVE KeyInv'
    <3>1. CASE RejectPayload(s)
      <4>1. CASE EndSubscriber(s, "crashed")
        BY <2>1, <4>1 DEF SubStates
      <4>2. CASE ~ EndSubscriber(s, "crashed")
        BY <3>1, <4>2, <2>f, <1>2 DEF RejectPayload
      <4> QED
        BY <4>1, <4>2
    <3>2. CASE QueryKey(s, m)
      <4>1. /\ sub[s] = "looping" /\ keyCache[s][sid[m.from]] = None
            /\ sub' = [sub EXCEPT ![s] = "querying"]
            /\ cur' = [cur EXCEPT ![s] = m]
            /\ UNCHANGED <<reply, cacheVars>>
        BY <3>2 DEF QueryKey
      <4>2. reply[s] \notin Sessions
        BY <4>1, <1>c DEF MessageInv
      <4> QED
        BY <4>1, <4>2, <2>f, <1>t DEF KeyInv, cacheVars
    <3>3. CASE DecodeCached(s, m)
      <4>1. m \in Messages /\ m # Noise /\ sid[m.from] # None
        BY <3>3, <1>m DEF DecodeCached, MessageInv, TypeOK
      <4>2. /\ keyCache[s] \in [SessionIDs -> Sessions \union {None}]
            /\ \A i \in SessionIDs : keyCache[s][i] # None => sid[keyCache[s][i]] = i
        BY <1>t DEF KeyInv
      <4>3. /\ keyCache[s][sid[m.from]] # None
            /\ DecryptAndWrite(s, m, keyCache[s])
        BY <3>3 DEF DecodeCached
      <4> QED
        BY <4>1, <4>2, <4>3, WriteKeys
    <3> QED
      BY <2>6, <3>1, <3>2, <3>3 DEF Handle
  <2> QED
    BY <1>6, <2>2, <2>3, <2>4, <2>5, <2>6, <2>7 DEF Subscriber, Callback
<1> QED
  BY <1>2, <1>3, <1>4, <1>5, <1>6 DEF Next, vars, subVars, serverVars, cacheVars

-----------------------------------------------------------------------------
\* A derived key stays on its way, or its ID stays in the table.
LEMMA KeyOnItsWayStep ==
  TypeOK /\ HandshakeInv /\ KeyInv /\ KeyOnItsWay /\ TypeOK' /\ KeyInv' /\ [Next]_vars
    => KeyOnItsWay'
<1> SUFFICES ASSUME TypeOK, HandshakeInv, KeyInv, KeyOnItsWay, TypeOK', KeyInv',
                    [Next]_vars
             PROVE  KeyOnItsWay'
  OBVIOUS
<1> DEFINE Stored(p) == sid[p] \in SessionIDs /\ lookupTable[sid[p]] # None
<1>t. /\ lookupTable \in [SessionIDs -> Sessions \union {None}]
      /\ sid \in [Sessions -> SessionIDs \union {None}]
      /\ stdout \in Seq(Sessions)
      /\ responder \in [stage : {"accept", "dead"}, peer : {None}] \union
                       [stage : {"handshake", "print"}, peer : Sessions]
      /\ lost \in SUBSET Sessions
  BY DEF TypeOK
<1>n. None \notin Sessions /\ None \notin SessionIDs
  BY ConstantsAssumption
<1>a. \A p \in Sessions : IDInTable(p) => Stored(p)
  BY <1>n DEF IDInTable, InTable
<1>b. \A p \in Sessions : Stored(p)' => IDInTable(p)'
  <2> SUFFICES ASSUME NEW p \in Sessions, Stored(p)' PROVE IDInTable(p)'
    OBVIOUS
  <2> DEFINE q == lookupTable'[sid'[p]]
  <2>1. q \in Sessions /\ sid'[q] = sid'[p]
    BY DEF TypeOK, KeyInv
  <2> QED
    BY <2>1 DEF IDInTable, InTable
<1>k. \A p \in Derived \ lost : up /\ (InResponder(p) \/ InPipe(p) \/ Stored(p))
  BY <1>a DEF KeyOnItsWay, Derived
<1>g. ASSUME \A p \in (Derived \ lost)' :
               up' /\ (InResponder(p)' \/ InPipe(p)' \/ Stored(p)')
      PROVE  KeyOnItsWay'
  <2> HIDE DEF Stored
  <2> QED
    BY <1>g, <1>b DEF KeyOnItsWay, Derived
<1> USE DEF Derived, InResponder, InPipe, Idle
<1>1. CASE SendVS
  <2>1. /\ up /\ responder.stage = "handshake" /\ responder.peer \in Sessions
        /\ responder' = [responder EXCEPT !.stage = "print"]
        /\ UNCHANGED <<up, stdout, lookupTable, lost>>
        /\ \E i \in SessionIDs : sid' = [sid EXCEPT ![responder.peer] = i]
    BY <1>1, <1>t DEF SendVS
  <2>2. responder' = [stage |-> "print", peer |-> responder.peer]
    BY <2>1, <1>t
  <2>3. \A p \in Sessions : p # responder.peer => sid'[p] = sid[p]
    BY <2>1, <1>t
  <2>4. \A p \in Sessions : ~InResponder(p)
    BY <2>1
  <2> QED
    BY <2>1, <2>2, <2>3, <2>4, <1>k, <1>t, <1>g
<1>2. CASE PrintSK
  <2>1. /\ up /\ responder.peer \in Sessions
        /\ stdout' = Append(stdout, responder.peer)
        /\ UNCHANGED <<up, sid, lookupTable, lost>>
    BY <1>2, <1>t DEF PrintSK
  <2>2. stdout'[Len(stdout) + 1] = responder.peer /\ Len(stdout') = Len(stdout) + 1
    BY <2>1, <1>t
  <2>3. \A n \in 1 .. Len(stdout) : stdout'[n] = stdout[n]
    BY <2>1, <1>t
  <2>4. \A p \in Sessions : InResponder(p) => InPipe(p)'
    BY <2>2, <1>t
  <2>5. \A p \in Sessions : InPipe(p) => InPipe(p)'
    BY <2>2, <2>3, <1>t
  <2> HIDE DEF InPipe, InResponder
  <2> QED
    BY <2>1, <2>4, <2>5, <1>k, <1>g
<1>3. CASE SeeError
  BY <1>3, <1>g DEF SeeError
<1>4. CASE AddKey
  <2>1. /\ stdout # <<>> /\ Head(stdout) \in Sessions /\ sid[Head(stdout)] \in SessionIDs
        /\ Head(stdout) = stdout[1]
    BY <1>4, <1>t DEF AddKey, HandshakeInv
  <2>2. /\ lookupTable' = [lookupTable EXCEPT ![sid[Head(stdout)]] = Head(stdout)]
        /\ stdout' = Tail(stdout)
        /\ UNCHANGED <<up, sid, responder, lost>>
    BY <1>4 DEF AddKey
  <2>3. \A p \in Sessions : InResponder(p) => InResponder(p)'
    BY <2>2
  <2>4. \A p \in Sessions : InPipe(p) => p = Head(stdout) \/ InPipe(p)'
    <3> SUFFICES ASSUME NEW p \in Sessions, NEW n \in 1 .. Len(stdout), stdout[n] = p,
                        n # 1
                 PROVE  InPipe(p)'
      BY <2>1
    <3>1. n - 1 \in 1 .. Len(Tail(stdout)) /\ Tail(stdout)[n - 1] = stdout[n]
      BY <1>t, <2>1
    <3> QED
      BY <3>1, <2>2
  <2>5. \A p \in Sessions : Stored(p) \/ p = Head(stdout) => Stored(p)'
    BY <2>1, <2>2, <1>t, <1>n
  <2> HIDE DEF InPipe, InResponder, Stored
  <2> QED
    BY <2>2, <2>3, <2>4, <2>5, <1>k, <1>g
<1>5. ASSUME UNCHANGED <<sid, stdout, lookupTable, lost>>, up => up',
             \A p \in Sessions : InResponder(p) => InResponder(p)'
      PROVE  KeyOnItsWay'
  <2>1. \A p \in Sessions : (InPipe(p) => InPipe(p)') /\ (Stored(p) => Stored(p)')
    BY <1>5
  <2> HIDE DEF InPipe, InResponder, Stored
  <2> QED
    BY <1>5, <2>1, <1>k, <1>g
<1>6. CASE ResponderFails \/ ThriftAccept \/ Restart
  BY <1>5, <1>6 DEF ResponderFails, ThriftAccept, Restart, serverVars
<1>6a. CASE ServerDies
  <2>1. /\ UNCHANGED <<sid, stdout, lookupTable, up>> /\ lost \subseteq lost'
        /\ \A p \in Sessions : InResponder(p) => p \in lost'
    BY <1>6a, <1>t DEF ServerDies
  <2>2. \A p \in Sessions : (InPipe(p) => InPipe(p)') /\ (Stored(p) => Stored(p)')
    BY <2>1
  <2> HIDE DEF InPipe, InResponder, Stored
  <2> QED
    BY <2>1, <2>2, <1>k, <1>g
<1>7. ASSUME NEW p \in Sessions, Publisher(p) PROVE \A q \in Sessions : InResponder(q) => InResponder(q)'
  BY <1>7 DEF Publisher, Connect, VerifyVS, GiveUp, Publish, PublisherEnds, Accept,
              serverVars
<1>8. CASE \E p \in Sessions : Publisher(p)
  BY <1>5, <1>7, <1>8, PublisherFrame
<1>9. CASE \E s \in Subscribers : Subscriber(s)
  BY <1>5, <1>9, SubscriberFrame DEF serverVars
<1>10. CASE UNCHANGED vars
  BY <1>5, <1>10 DEF vars, serverVars
<1> QED
  BY <1>1, <1>2, <1>3, <1>4, <1>6, <1>6a, <1>8, <1>9, <1>10 DEF Next, Server

-----------------------------------------------------------------------------
\* IInv holds at the start and is kept by every step.
LEMMA Invariance == Spec => []IInv
<1>1. Init => IInv
  <2> USE ConstantsAssumption DEF Init, Idle, EmptyTable
  <2>1. Init => TypeOK
    <3> SUFFICES ASSUME Init PROVE TypeOK
      OBVIOUS
    <3>1. /\ pub \in [Sessions -> PubStates]
          /\ sid \in [Sessions -> SessionIDs \union {None}]
          /\ lines \in [Sessions -> 0 .. MaxLines]
          /\ restarts \in 0 .. MaxRestarts
      BY DEF PubStates
    <3>2. /\ responder \in [stage : {"accept", "dead"}, peer : {None}]
          /\ stdout \in Seq(Sessions)
          /\ lookupTable \in [SessionIDs -> Sessions \union {None}]
      OBVIOUS
    <3>3. /\ sub \in [Subscribers -> SubStates]
          /\ linked \in SUBSET Subscribers
          /\ inbox \in [Subscribers -> SUBSET Messages]
          /\ cur \in [Subscribers -> Messages \union {None}]
          /\ reply \in [Subscribers -> Sessions \union {Fault, None}]
      BY DEF SubStates
    <3>4. /\ keyCache \in [Subscribers -> [SessionIDs -> Sessions \union {None}]]
          /\ cipherCache \in [Subscribers -> [SessionIDs -> Sessions \union {None}]]
          /\ written \in [Subscribers -> SUBSET [msg : Messages, key : Sessions]]
      OBVIOUS
    <3> QED
      BY <3>1, <3>2, <3>3, <3>4 DEF TypeOK
  <2>2. Init => HandshakeInv
    BY DEF HandshakeInv
  <2>4. Init => MessageInv
    BY DEF MessageInv
  <2>5. Init => KeyInv
    BY DEF KeyInv
  <2>3. Init => KeyOnItsWay
    BY DEF KeyOnItsWay, Derived
  <2> QED
    BY <2>1, <2>2, <2>3, <2>4, <2>5 DEF IInv
<1>2. IInv /\ [Next]_vars => IInv'
  BY TypeStep, HandshakeStep, MessageStep, KeyStep, KeyOnItsWayStep DEF IInv
<1> QED
  BY <1>1, <1>2, PTL DEF Spec

\* Every variable of the key delivery chain keeps its type.
THEOREM TypeCorrect == Spec => []TypeOK
  BY Invariance, PTL DEF IInv

\* A subscriber only ever decrypts with a key of the session ID the message
\* carries, and its two caches agree, also when two sessions share an ID
\* (DecodePayload, ThriftServer.SearchKey).
THEOREM DecryptionIsCorrect == Spec => []CorrectDecryption
<1>1. IInv => CorrectDecryption
  BY DEF IInv, KeyInv, CorrectDecryption
<1> QED
  BY <1>1, Invariance, PTL

\* Every text a subscriber writes was decrypted with the key it was encrypted
\* with, unless another session drew its ID (DecodePayload, on_message).
OwnKey ==
  \A s \in Subscribers : \A w \in written[s] :
    (\A q \in Sessions : sid[q] = sid[w.msg.from] => q = w.msg.from)
      => w.key = w.msg.from

COROLLARY OwnKeyIsUsed == Spec => []OwnKey
<1>1. TypeOK /\ CorrectDecryption => OwnKey
  <2> SUFFICES ASSUME TypeOK, CorrectDecryption, NEW s \in Subscribers, NEW w \in written[s],
                      \A q \in Sessions : sid[q] = sid[w.msg.from] => q = w.msg.from
               PROVE  w.key = w.msg.from
    BY DEF OwnKey
  <2>1. w.key \in Sessions
    BY DEF TypeOK
  <2> QED
    BY <2>1 DEF CorrectDecryption
<1> QED
  BY <1>1, TypeCorrect, DecryptionIsCorrect, PTL

\* A derived key is about to be printed, in the pipe, or its ID is in the table
\* until its server goes down (do_responder, augpake, addKey).
THEOREM KeyNeverDropped == Spec => []KeyOnItsWay
  BY Invariance, PTL DEF IInv

-----------------------------------------------------------------------------
\* SearchKey answers with an exception only while the key is between
\* do_responder and addKey, or after its server went down.
THEOREM FaultsOnlyInWindow == Spec => FaultOnlyInWindow
<1> DEFINE Window(s) == LET p == cur[s].from IN p \in lost \/ InResponder(p) \/ InPipe(p)
           A == \A s \in Subscribers :
                  reply[s] # Fault /\ reply'[s] = Fault => Window(s)
<1>1. IInv /\ [Next]_vars => [A]_vars
  <2> SUFFICES ASSUME IInv, Next, NEW s \in Subscribers,
                      reply[s] # Fault, reply'[s] = Fault
               PROVE  Window(s)
    OBVIOUS
  <2>t. reply \in [Subscribers -> Sessions \union {Fault, None}]
    BY DEF IInv, TypeOK
  <2>c. Fault # None
    BY ConstantsAssumption
  <2>1. PICK t \in Subscribers : Subscriber(t)
    BY ServerFrame, PublisherFrame DEF Next, subVars
  <2>2. ASSUME ~SearchKey(t) PROVE FALSE
    <3>1. \/ reply' = reply
          \/ reply' = [reply EXCEPT ![t] = None]
      BY <2>1, <2>2 DEF Subscriber, Callback, Handle, OpenThrift, StartFails,
           ConnectBroker, LoseBroker, OtherPublishes, RejectPayload, DecodeCached,
           QueryKey, ReceiveKey, ReceiveFault, QueryBroken, Stop, EndSubscriber,
           DecryptAndWrite, EndProcess
    <3> QED
      BY <3>1, <2>t, <2>c
  <2>3. SearchKey(t) /\ t = s
    BY <2>2, <2>t DEF SearchKey
  <2>4. /\ cur[s] \in Messages \ {Noise}
        /\ sid[cur[s].from] # None
    BY <2>3 DEF SearchKey, IInv, MessageInv
  <2>5. cur[s].from \in Sessions
    BY <2>4, MessageFrom
  <2>6. sid[cur[s].from] \in SessionIDs
    BY <2>4, <2>5 DEF IInv, TypeOK
  <2>7. lookupTable[sid[cur[s].from]] = None
    <3>1. lookupTable[sid[cur[s].from]] \in Sessions \union {None}
      BY <2>6 DEF IInv, TypeOK
    <3> QED
      BY <2>3, <2>t, <3>1, ConstantsAssumption DEF SearchKey, process_SearchKey
  <2>8. ~IDInTable(cur[s].from)
    BY <2>7, ConstantsAssumption DEF IDInTable, InTable
  <2>9. cur[s].from \in Derived
    BY <2>4, <2>5 DEF Derived
  <2> HIDE DEF Window
  <2>10. KeyOnItsWay
    BY DEF IInv
  <2> QED
    BY <2>8, <2>9, <2>10 DEF KeyOnItsWay, Window
<1> QED
  BY <1>1, Invariance, PTL DEF Spec, FaultOnlyInWindow

-----------------------------------------------------------------------------
(* KeyDelivery implements KeyDirectory.                                    *)

\* The whole chain -- handshake, pipe, table, Thrift, caches, with its failures
\* and restarts -- implements KeyDirectory.
THEOREM ImplementsDirectory == Spec => DirectorySpec
<1>1. Init => Directory!Init
  BY DEF Init, Directory!Init, EmptyTable
<1>2. IInv /\ [Next]_vars => [Directory!Next]_(Directory!vars)
  <2> SUFFICES ASSUME IInv, [Next]_vars
               PROVE  Directory!Next \/ UNCHANGED Directory!vars
    OBVIOUS
  <2>t. /\ sid \in [Sessions -> SessionIDs \union {None}]
        /\ keyCache \in [Subscribers -> [SessionIDs -> Sessions \union {None}]]
        /\ cur \in [Subscribers -> Messages \union {None}]
    BY DEF IInv, TypeOK
  <2>1. ASSUME UNCHANGED <<sid, keyCache>> PROVE UNCHANGED Directory!vars
    BY <2>1 DEF Directory!vars
  <2>2. CASE SendVS
    <3>1. responder.peer \in Sessions /\ sid[responder.peer] = None
      BY <2>2 DEF SendVS, IInv, TypeOK, HandshakeInv
    <3>2. PICK i \in SessionIDs : sid' = [sid EXCEPT ![responder.peer] = i]
      BY <2>2 DEF SendVS
    <3>3. keyCache' = keyCache
      BY <2>2 DEF SendVS, subVars
    <3>4. Directory!Draw(responder.peer, i)
      BY <3>1, <3>2, <3>3 DEF Directory!Draw
    <3> QED
      BY <3>1, <3>4 DEF Directory!Next
  <2>3. ASSUME NEW s \in Subscribers, ReceiveKey(s) PROVE Directory!Next
    <3> DEFINE i == sid[cur[s].from]
               p == reply[s]
    <3>1. p \in Sessions /\ p # None /\ sid[p] = i
      BY <2>3, ConstantsAssumption DEF ReceiveKey, IInv, KeyInv
    <3>2. cur[s] \in Messages \ {Noise} /\ i # None /\ keyCache[s][i] = None
      BY <3>1 DEF IInv, MessageInv, KeyInv
    <3>3. i \in SessionIDs
      BY <3>2, MessageFrom, <2>t
    <3>4. /\ keyCache' = [keyCache EXCEPT ![s] = [keyCache[s] EXCEPT ![i] = p]]
          /\ sid' = sid
      BY <2>3 DEF ReceiveKey, DecryptAndWrite
    <3> HIDE DEF i, p
    <3>5. keyCache' = [keyCache EXCEPT ![s][i] = p]
      BY <3>4
    <3>6. Directory!Learn(s, p, i)
      BY <3>1, <3>2, <3>4, <3>5 DEF Directory!Learn
    <3> QED
      BY <3>1, <3>3, <3>6 DEF Directory!Next
  <2>4. ASSUME NEW s \in Subscribers, Subscriber(s), ~ReceiveKey(s)
        PROVE  UNCHANGED <<sid, keyCache>>
    <3>1. ASSUME NEW m \in inbox[s], DecodeCached(s, m) PROVE keyCache' = keyCache
      BY <3>1, <2>t DEF DecodeCached, DecryptAndWrite
    <3> QED
      BY <2>4, <3>1, SubscriberFrame DEF Subscriber, Callback, Handle, OpenThrift,
           StartFails, ConnectBroker, LoseBroker, OtherPublishes, RejectPayload,
           QueryKey, ReceiveFault, QueryBroken, SearchKey, Stop, EndSubscriber,
           cacheVars
  <2>5. ASSUME NEW p \in Sessions, Publisher(p) PROVE UNCHANGED <<sid, keyCache>>
    BY <2>5, PublisherFrame DEF cacheVars
  <2>6. ASSUME (Server /\ ~SendVS) \/ Restart PROVE UNCHANGED <<sid, keyCache>>
    BY <2>6, ServerFrame DEF subVars, cacheVars, Server, Restart, PrintSK, ServerDies,
         ResponderFails, SeeError, AddKey, ThriftAccept
  <2>7. ASSUME UNCHANGED vars PROVE UNCHANGED <<sid, keyCache>>
    BY <2>7 DEF vars, subVars
  <2> QED
    BY <2>1, <2>2, <2>3, <2>4, <2>5, <2>6, <2>7 DEF Next
<1> QED
  BY <1>1, <1>2, Invariance, PTL DEF Spec, DirectorySpec, Directory!Spec

-----------------------------------------------------------------------------
(* KeyDelivery implements KeyAgreement.                                    *)

\* Publishers and s_server, with every failure and restart, are two ends of a
\* handshake as KeyAgreement has them (do_initiator, do_responder).
THEOREM ImplementsAgreement == Spec => AgreementSpec
<1>1. Init => Agreement!Init
  BY DEF Init, Agreement!Init, Idle, Agreement!Idle
<1>2. IInv /\ [Next]_vars => [Agreement!Next]_(Agreement!vars)
  <2> SUFFICES ASSUME IInv, [Next]_vars
               PROVE  Agreement!Next \/ UNCHANGED Agreement!vars
    OBVIOUS
  <2>t. /\ pub \in [Sessions -> PubStates]
        /\ responder \in [stage : {"accept", "dead"}, peer : {None}] \union
                         [stage : {"handshake", "print"}, peer : Sessions]
        /\ HandshakeInv
    BY DEF IInv, TypeOK
  <2>1. ASSUME UNCHANGED <<pub, responder>> PROVE UNCHANGED Agreement!vars
    BY <2>1 DEF Agreement!vars
  <2>2. ASSUME UNCHANGED pub,
               responder' \in {Idle, [stage |-> "dead", peer |-> None]}
        PROVE  Agreement!Next
    BY <2>2 DEF Agreement!Next, Agreement!Return, Agreement!Idle, Agreement!Dead, Idle
  <2>3. CASE ServerDies \/ ResponderFails \/ PrintSK \/ SeeError
    BY <2>2, <2>3 DEF ServerDies, ResponderFails, PrintSK, SeeError, pubVars
  <2>4. CASE SendVS
    <3> DEFINE p == responder.peer
    <3>1. /\ p \in Sessions
          /\ responder = [stage |-> "handshake", peer |-> p]
          /\ responder' = [stage |-> "print", peer |-> p]
          /\ pub' = [pub EXCEPT ![p] = IF @ = "exited" THEN @ ELSE "confirmed"]
      BY <2>4, <2>t DEF SendVS
    <3>2. pub[p] \in {"connected", "exited"}
      BY <3>1, <2>t DEF HandshakeInv, PubStates
    <3> HIDE DEF p
    <3>3. CASE pub[p] = "connected"
      <4>1. pub' = [pub EXCEPT ![p] = "confirmed"]
        BY <3>1, <3>3, <2>t
      <4> QED
        BY <3>1, <3>3, <4>1 DEF Agreement!Next, Agreement!Agree, Agreement!Become
    <3>4. CASE pub[p] = "exited"
      <4>1. pub' = pub
        BY <3>1, <3>4, <2>t
      <4> QED
        BY <3>1, <3>4, <4>1 DEF Agreement!Next, Agreement!Agree
    <3> QED
      BY <3>2, <3>3, <3>4
  <2>5. ASSUME NEW p \in Sessions, Publisher(p)
        PROVE  Agreement!Next \/ UNCHANGED Agreement!vars
    <3>1. CASE Connect(p)
      <4>1. /\ pub[p] = "start"
            /\ \E state \in {"connected", "exited"} :
                 pub' = [pub EXCEPT ![p] = state]
            /\ responder' = responder
        BY <3>1 DEF Connect, SetPub
      <4> QED
        BY <4>1 DEF Agreement!Next, Agreement!Arrive, Agreement!Become
    <3>2. CASE VerifyVS(p)
      <4>1. /\ pub[p] = "confirmed"
            /\ \/ pub' = [pub EXCEPT ![p] = "ready"]
               \/ pub' = [pub EXCEPT ![p] = "exited"]
            /\ responder' = responder
        BY <3>2 DEF VerifyVS, SetPub, serverVars
      <4> QED
        BY <4>1 DEF Agreement!Next, Agreement!Verify, Agreement!Leave, Agreement!Become
    <3>3. CASE GiveUp(p) \/ PublisherEnds(p)
      <4>1. /\ pub[p] # "start"
            /\ pub' = [pub EXCEPT ![p] = "exited"]
            /\ responder' = responder
        BY <3>3 DEF GiveUp, PublisherEnds, SetPub, serverVars
      <4> QED
        BY <4>1 DEF Agreement!Next, Agreement!Leave, Agreement!Become
    <3>4. CASE Publish(p)
      BY <2>1, <3>4 DEF Publish, serverVars
    <3>5. CASE Accept(p)
      <4>1. /\ responder = Idle /\ pub[p] # "start"
            /\ responder' = [stage |-> "handshake", peer |-> p]
            /\ pub' = pub
        BY <3>5, <2>t DEF Accept, HandshakeInv, pubVars
      <4> QED
        BY <4>1 DEF Agreement!Next, Agreement!Serve, Agreement!Idle, Idle
    <3> QED
      BY <2>5, <3>1, <3>2, <3>3, <3>4, <3>5 DEF Publisher
  <2>6. CASE AddKey \/ ThriftAccept \/ Restart
    BY <2>1, <2>6 DEF AddKey, ThriftAccept, Restart, pubVars, serverVars
  <2>7. CASE \E s \in Subscribers : Subscriber(s)
    BY <2>1, <2>7, SubscriberFrame DEF pubVars, serverVars
  <2>8. CASE UNCHANGED vars
    BY <2>1, <2>8 DEF vars, pubVars, serverVars
  <2> QED
    BY <2>3, <2>4, <2>5, <2>6, <2>7, <2>8 DEF Next, Server
<1> QED
  BY <1>1, <1>2, Invariance, PTL DEF Spec, AgreementSpec, Agreement!Spec
=============================================================================
