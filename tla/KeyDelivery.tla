---------------------------- MODULE KeyDelivery ----------------------------
(***************************************************************************)
(* How a session key travels from the AugPAKE handshake to the subscriber  *)
(* that decrypts with it:                                                  *)
(*                                                                         *)
(*   mqtt-pub.py --(s_client / s_server handshake)--> s_server stdout      *)
(*     --> augpake-server.py --> lookupTable --(Thrift SearchKey)-->       *)
(*     mqtt-sub.py caches --> decrypted text                               *)
(*                                                                         *)
(* while the ciphertext itself overtakes the key on another road, the MQTT *)
(* broker.  One member of Sessions is one run of mqtt-pub.py; a run does   *)
(* exactly one handshake, so the run also names the session key the two    *)
(* ends agree on.  One member of Subscribers is one run of mqtt-sub.py.    *)
(***************************************************************************)
EXTENDS Naturals, Sequences, FiniteSets

CONSTANTS
  Sessions,     \* runs of mqtt-pub.py, and the keys they negotiate
  Subscribers,  \* runs of mqtt-sub.py
  SessionIDs,   \* values the leading bytes of a shared secret can take
  MaxLines,     \* bound: lines of WATCH_FILE one run publishes
  MaxRestarts,  \* bound: times augpake-server.py is started again
  OUTPUTTYPE,   \* config.py: the output the subscribers write to
  Fault,        \* the TApplicationException a failing SearchKey answers with
  None          \* "no such thing": no key, no peer, no message

ASSUME ConstantsAssumption ==
  /\ MaxLines \in Nat
  /\ MaxRestarts \in Nat
  /\ OUTPUTTYPE \in {"default_print", "Syslog", "influxdb_client"}
  /\ None \notin Sessions \union Subscribers \union SessionIDs
  /\ Fault \notin Sessions \union {None}

VARIABLES
  pub,          \* where each run of mqtt-pub.py stands
  sid,          \* the session ID of each session, None before the handshake ends
  lines,        \* lines each run has published
  up,           \* augpake-server.py and its child s_server are running
  waiting,      \* connections the kernel holds for s_server's next accept
  responder,    \* s_server: its stage, and the session it serves
  stdout,       \* SK lines in the pipe from s_server to augpake-server.py
  stderr,       \* the pipe of s_server's stderr is readable (a line, or EOF)
  lookupTable,  \* IdKeyServer.lookupTable: session ID -> key
  thriftConn,   \* the connection TSimpleServer is serving
  backlog,      \* connections TSimpleServer has not accepted yet
  sub,          \* where each run of mqtt-sub.py stands
  linked,       \* runs of mqtt-sub.py whose connection to the broker is up
  inbox,        \* MQTT messages on their way to a subscriber
  cur,          \* the message whose callback is running
  reply,        \* the answer to SearchKey on its way back
  keyCache,     \* SESSION_KEY_CACHE of each subscriber
  cipherCache,  \* SESSION_CIPHER_CACHE of each subscriber
  written,      \* history: what output_client.write was given, and under which key
  lost,         \* history: sessions whose key died with the server that held it
  restarts      \* history: starts of augpake-server.py after the first

pubVars    == <<pub, lines>>
serverVars == <<up, waiting, responder, stdout, stderr, lookupTable, lost, restarts>>
thriftVars == <<thriftConn, backlog>>
cacheVars  == <<keyCache, cipherCache, written>>
subVars    == <<sub, linked, inbox, cur, reply, keyCache, cipherCache, written>>
vars       == <<pubVars, sid, serverVars, thriftVars, subVars>>

\* A published message stands for ID + SEP + ciphertext; its ID is sid[m.from].
\* Noise is a payload of some other client of the topic, without the separator.
Noise    == [from |-> None, line |-> 0]
Messages == [from : Sessions, line : 1 .. MaxLines] \union {Noise}

PubStates  == {"start", "connected", "confirmed", "ready", "exited"}
SubStates  == {"off", "opened", "looping", "querying", "stopped", "crashed", "exited"}
Idle       == [stage |-> "accept", peer |-> None]
EmptyTable == [i \in SessionIDs |-> None]

\* Sessions the responder has derived a key for.
Derived   == {p \in Sessions : sid[p] # None}

TypeOK ==
  /\ pub \in [Sessions -> PubStates]
  /\ sid \in [Sessions -> SessionIDs \union {None}]
  /\ lines \in [Sessions -> 0 .. MaxLines]
  /\ up \in BOOLEAN
  /\ waiting \in SUBSET Sessions
  /\ responder \in [stage : {"accept", "dead"}, peer : {None}] \union
                   [stage : {"handshake", "print"}, peer : Sessions]
  /\ stdout \in Seq(Sessions)
  /\ stderr \in BOOLEAN
  /\ lookupTable \in [SessionIDs -> Sessions \union {None}]
  /\ thriftConn \in Subscribers \union {None}
  /\ backlog \in SUBSET Subscribers
  /\ sub \in [Subscribers -> SubStates]
  /\ linked \in SUBSET Subscribers
  /\ inbox \in [Subscribers -> SUBSET Messages]
  /\ cur \in [Subscribers -> Messages \union {None}]
  /\ reply \in [Subscribers -> Sessions \union {Fault, None}]
  /\ keyCache \in [Subscribers -> [SessionIDs -> Sessions \union {None}]]
  /\ cipherCache \in [Subscribers -> [SessionIDs -> Sessions \union {None}]]
  /\ written \in [Subscribers -> SUBSET [msg : Messages, key : Sessions]]
  /\ lost \in SUBSET Sessions
  /\ restarts \in 0 .. MaxRestarts

Init ==
  /\ pub = [p \in Sessions |-> "start"]
  /\ sid = [p \in Sessions |-> None]
  /\ lines = [p \in Sessions |-> 0]
  /\ up = TRUE
  /\ waiting = {}
  /\ responder = Idle
  /\ stdout = <<>>
  /\ stderr = FALSE
  /\ lookupTable = EmptyTable
  /\ thriftConn = None
  /\ backlog = {}
  /\ sub = [s \in Subscribers |-> "off"]
  /\ linked = {}
  /\ inbox = [s \in Subscribers |-> {}]
  /\ cur = [s \in Subscribers |-> None]
  /\ reply = [s \in Subscribers |-> None]
  /\ keyCache = [s \in Subscribers |-> EmptyTable]
  /\ cipherCache = [s \in Subscribers |-> EmptyTable]
  /\ written = [s \in Subscribers |-> {}]
  /\ lost = {}
  /\ restarts = 0

-----------------------------------------------------------------------------
(* mqtt-pub.py and the s_client it runs                                    *)

SetPub(p, state) == pub' = [pub EXCEPT ![p] = state]

\* s_client connects.  When the connection is refused, or made to a wrong host
\* because the name did not resolve, its stdout stays empty: getKeyByAugPake
\* raises IndexError and the run exits without a key.
Connect(p) ==
  /\ pub[p] = "start"
  /\ \/ /\ up /\ responder.stage # "dead"
        /\ SetPub(p, "connected") /\ waiting' = waiting \union {p}
     \/ SetPub(p, "exited") /\ UNCHANGED waiting
  /\ UNCHANGED <<lines, sid, up, responder, stdout, stderr, lookupTable, lost,
                 restarts, thriftVars, subVars>>

\* Mutant of VerifyVS: the key is used before V_S has come.
VerifyVSEarly(p) ==
  /\ pub[p] \in {"connected", "confirmed"}
  /\ \E state \in {"ready", "exited"} : SetPub(p, state)
  /\ UNCHANGED <<lines, sid, serverVars, thriftVars, subVars>>

\* do_initiator has V_S: it verifies it and prints SK, or prints nothing.
VerifyVS(p) ==
  /\ pub[p] = "confirmed"
  /\ \E state \in {"ready", "exited"} : SetPub(p, state)
  /\ UNCHANGED <<lines, sid, serverVars, thriftVars, subVars>>

\* s_client is still waiting for the responder: it is killed, or it reads EOF
\* because the s_server that held its socket is gone.
GiveUp(p) ==
  /\ pub[p] = "connected"
  /\ SetPub(p, "exited")
  /\ UNCHANGED <<lines, sid, serverVars, thriftVars, subVars>>

\* One line of WATCH_FILE, encrypted and sent with QoS 0: the broker hands it
\* to those connected, and any copy may be lost on the way.
Publish(p) ==
  /\ pub[p] = "ready"
  /\ lines[p] < MaxLines
  /\ lines' = [lines EXCEPT ![p] = @ + 1]
  /\ \E R \in SUBSET linked :
       inbox' = [s \in Subscribers |->
                   IF s \in R THEN inbox[s] \union {[from |-> p, line |-> lines[p] + 1]}
                              ELSE inbox[s]]
  /\ UNCHANGED <<pub, sid, serverVars, thriftVars, sub, linked, cur, reply, cacheVars>>

\* The broker refuses publish.single, or the run is stopped.
PublisherEnds(p) ==
  /\ pub[p] = "ready"
  /\ SetPub(p, "exited")
  /\ UNCHANGED <<lines, sid, serverVars, thriftVars, subVars>>

-----------------------------------------------------------------------------
(* s_server: one connection at a time, in do_responder                     *)

\* A connection stays in the queue when its s_client has given up.
Accept(p) ==
  /\ up /\ responder = Idle
  /\ p \in waiting
  /\ waiting' = waiting \ {p}
  /\ responder' = [stage |-> "handshake", peer |-> p]
  /\ UNCHANGED <<up, stdout, stderr, lookupTable, lost, restarts,
                 pubVars, sid, thriftVars, subVars>>

\* s_server ends: accept fails (main never closes the sockets it accepted, so its
\* descriptors run out), a write to a peer that is gone raises SIGPIPE, there is
\* no memory for the secret, or it is killed.  stderr has a line or reads EOF,
\* and a key that is not printed yet is gone.
ServerDies ==
  /\ up /\ responder.stage # "dead"
  /\ stderr' = TRUE
  /\ responder' = [stage |-> "dead", peer |-> None]
  /\ lost' = IF responder.stage = "print" THEN lost \union {responder.peer} ELSE lost
  /\ UNCHANGED <<up, waiting, stdout, lookupTable, restarts,
                 pubVars, sid, thriftVars, subVars>>

\* The handshake fails on the responder's side: do_responder reports it on
\* stderr and returns, the peer's socket stays open.
ResponderFails ==
  /\ up /\ responder.stage = "handshake"
  /\ stderr' = TRUE
  /\ responder' = Idle
  /\ UNCHANGED <<up, waiting, stdout, lookupTable, lost, restarts,
                 pubVars, sid, thriftVars, subVars>>

\* V_U is verified: the responder derives the secret, whose leading bytes are
\* the session ID, and sends V_S.  It has not printed SK yet.  Nothing keeps
\* two secrets from starting alike.
SendVS ==
  /\ up /\ responder.stage = "handshake"
  /\ \E i \in SessionIDs :
       sid' = [sid EXCEPT ![responder.peer] = i]
  /\ pub' = [pub EXCEPT ![responder.peer] = IF @ = "exited" THEN @ ELSE "confirmed"]
  /\ responder' = [responder EXCEPT !.stage = "print"]
  /\ UNCHANGED <<lines, up, waiting, stdout, stderr, lookupTable, lost, restarts,
                 thriftVars, subVars>>

\* Mutant of PrintSK: without fflush the line stays in s_server's buffer.
PrintSKUnflushed ==
  /\ up /\ responder.stage = "print"
  /\ responder' = Idle
  /\ UNCHANGED <<up, waiting, stdout, stderr, lookupTable, lost, restarts,
                 pubVars, sid, thriftVars, subVars>>

\* The SK line is written and flushed in one piece.
PrintSK ==
  /\ up /\ responder.stage = "print"
  /\ stdout' = Append(stdout, responder.peer)
  /\ responder' = Idle
  /\ UNCHANGED <<up, waiting, stderr, lookupTable, lost, restarts,
                 pubVars, sid, thriftVars, subVars>>

-----------------------------------------------------------------------------
(* augpake-server.py: select loop of the main thread, Thrift thread        *)

\* stderr is looked at first: anything readable there ends the wrapper, its
\* child and the daemon thread, and with them the table and every connection.
SeeError ==
  /\ up /\ stderr
  /\ up' = FALSE
  /\ waiting' = {}
  /\ responder' = Idle
  /\ stdout' = <<>>
  /\ stderr' = FALSE
  /\ lookupTable' = EmptyTable
  /\ lost' = Derived
  /\ thriftConn' = None
  /\ backlog' = {}
  /\ UNCHANGED <<restarts, pubVars, sid, subVars>>

\* Mutant of AddKey: the pipe is drained but only its first line is parsed.
AddKeyFirstOnly ==
  /\ up /\ ~stderr
  /\ stdout # <<>>
  /\ lookupTable' = [lookupTable EXCEPT ![sid[Head(stdout)]] = Head(stdout)]
  /\ stdout' = <<>>
  /\ UNCHANGED <<up, waiting, responder, stderr, lost, restarts,
                 pubVars, sid, thriftVars, subVars>>

\* One line of stdout is parsed and added to the table.
AddKey ==
  /\ up /\ ~stderr
  /\ stdout # <<>>
  /\ lookupTable' = [lookupTable EXCEPT ![sid[Head(stdout)]] = Head(stdout)]
  /\ stdout' = Tail(stdout)
  /\ UNCHANGED <<up, waiting, responder, stderr, lost, restarts,
                 pubVars, sid, thriftVars, subVars>>

\* The operator starts augpake-server.py again; the table starts empty.
Restart ==
  /\ ~up
  /\ restarts < MaxRestarts
  /\ up' = TRUE
  /\ restarts' = restarts + 1
  /\ UNCHANGED <<waiting, responder, stdout, stderr, lookupTable, lost,
                 pubVars, sid, thriftVars, subVars>>

\* TSimpleServer serves one connection until that peer closes it.
ThriftAccept ==
  /\ up /\ thriftConn = None
  /\ \E s \in backlog :
       /\ thriftConn' = s
       /\ backlog' = backlog \ {s}
  /\ UNCHANGED <<pubVars, sid, serverVars, subVars>>

\* Mutant of SearchKey: some key is answered, whatever ID was asked for.
SearchKeyAnyID(s) ==
  /\ thriftConn = s
  /\ sub[s] = "querying" /\ reply[s] = None
  /\ \E i \in SessionIDs :
       /\ lookupTable[i] # None
       /\ reply' = [reply EXCEPT ![s] = lookupTable[i]]
  /\ UNCHANGED <<pubVars, sid, serverVars, thriftVars, sub, linked, inbox, cur, cacheVars>>

\* The processor turns the KeyError of an unknown ID into an exception reply.
process_SearchKey(key) == IF key = None THEN Fault ELSE key

\* The server thread reads the query, looks the ID up and answers.
SearchKey(s) ==
  /\ thriftConn = s
  /\ sub[s] = "querying" /\ reply[s] = None
  /\ reply' = [reply EXCEPT ![s] = process_SearchKey(lookupTable[sid[cur[s].from]])]
  /\ UNCHANGED <<pubVars, sid, serverVars, thriftVars, sub, linked, inbox, cur, cacheVars>>

-----------------------------------------------------------------------------
(* mqtt-sub.py                                                             *)

\* The process of subscriber s ends and its connections close.
EndProcess(s, state) ==
  /\ sub' = [sub EXCEPT ![s] = state]
  /\ linked' = linked \ {s}
  /\ cur' = [cur EXCEPT ![s] = None]
  /\ reply' = [reply EXCEPT ![s] = None]
  /\ inbox' = [inbox EXCEPT ![s] = {}]
  /\ thriftConn' = IF thriftConn = s THEN None ELSE thriftConn
  /\ backlog' = backlog \ {s}

EndSubscriber(s, state) ==
  EndProcess(s, state) /\ UNCHANGED <<pubVars, sid, serverVars, cacheVars>>

\* thrift_client_init: the connection is open as soon as the kernel of the
\* server queues it.
OpenThrift(s) ==
  /\ sub[s] = "off" /\ up
  /\ sub' = [sub EXCEPT ![s] = "opened"]
  /\ backlog' = backlog \union {s}
  /\ UNCHANGED <<pubVars, sid, serverVars, thriftConn, linked, inbox, cur, reply,
                 cacheVars>>

\* Thrift refuses the connection, or the MQTT broker does: sys.exit(0).  The
\* output is made in between, and what that raises is not caught.
StartFails(s) ==
  \/ sub[s] = "off" /\ ~up /\ EndSubscriber(s, "exited")
  \/ sub[s] = "opened" /\ \E state \in {"exited", "crashed"} : EndSubscriber(s, state)

\* mqtt_client.connect and the on_connect callback that subscribes.
ConnectBroker(s) ==
  /\ sub[s] = "opened"
  /\ sub' = [sub EXCEPT ![s] = "looping"]
  /\ linked' = linked \union {s}
  /\ UNCHANGED <<pubVars, sid, serverVars, thriftVars, inbox, cur, reply, cacheVars>>

\* The broker goes away, or drops a client that has not sent a ping from a
\* blocked callback.  loop() returns an error that nobody looks at, and never
\* connects again; what has arrived before is still read.
LoseBroker(s) ==
  /\ s \in linked
  /\ linked' = linked \ {s}
  /\ UNCHANGED <<pubVars, sid, serverVars, thriftVars, sub, inbox, cur, reply, cacheVars>>

\* Another client publishes a payload without the separator.
OtherPublishes(s) ==
  /\ s \in linked
  /\ inbox' = [inbox EXCEPT ![s] = @ \union {Noise}]
  /\ UNCHANGED <<pubVars, sid, serverVars, thriftVars, sub, linked, cur, reply, cacheVars>>

\* DecodePayload on a payload without separator: IndexError, None, no write.  What
\* else a foreign payload raises (one that is no UTF-8) is not caught.
RejectPayload(s) ==
  /\ sub[s] = "looping"
  /\ Noise \in inbox[s]
  /\ \/ /\ inbox' = [inbox EXCEPT ![s] = @ \ {Noise}]
        /\ UNCHANGED <<pubVars, sid, serverVars, thriftVars, sub, linked, cur, reply, cacheVars>>
     \/ EndSubscriber(s, "crashed")

\* What a call of write on each output may come to: "done", "lost" without
\* notice, or "raised" out of on_message.
default_print   == {"done"}
Syslog          == {"done", "lost", "raised"}   \* UDP; the host may not resolve
influxdb_client == {"done", "raised"}           \* unparsable line, no country, HTTP

\* The output instance() made.
output_client ==
  CASE OUTPUTTYPE = "default_print"   -> default_print
    [] OUTPUTTYPE = "Syslog"          -> Syslog
    [] OUTPUTTYPE = "influxdb_client" -> influxdb_client

\* Mutant of Cipher: one cipher for all sessions, kept once created.
OneCipher(s, i, keys) ==
  LET made == {j \in SessionIDs : cipherCache[s][j] # None}
  IN  IF made = {} THEN keys[i] ELSE cipherCache[s][CHOOSE j \in made : TRUE]

\* The key of the cipher DecodePayload uses for ID i.
Cipher(s, i, keys) ==
  IF cipherCache[s][i] = None THEN keys[i] ELSE cipherCache[s][i]

\* The rest of the callback once the key of m is in keys: the caches are filled,
\* the text is decrypted and written.  An exception of write ends the process.
DecryptAndWrite(s, m, keys) ==
  LET i == sid[m.from]
      w == [msg |-> m, key |-> Cipher(s, i, keys)]
  IN  /\ keyCache' = [keyCache EXCEPT ![s] = keys]
      /\ cipherCache' = [cipherCache EXCEPT ![s][i] = w.key]
      /\ \E outcome \in output_client :
           /\ written' = IF outcome = "done"
                         THEN [written EXCEPT ![s] = @ \union {w}] ELSE written
           /\ IF outcome = "raised" THEN EndProcess(s, "crashed")
              ELSE /\ sub' = [sub EXCEPT ![s] = "looping"]
                   /\ cur' = [cur EXCEPT ![s] = None]
                   /\ reply' = [reply EXCEPT ![s] = None]
                   /\ inbox' = [inbox EXCEPT ![s] = @ \ {m}]
                   /\ UNCHANGED <<linked, thriftVars>>
      /\ UNCHANGED <<pubVars, sid, serverVars>>

\* on_message for a session whose key is cached.
DecodeCached(s, m) ==
  /\ sub[s] = "looping"
  /\ m \in inbox[s] \ {Noise}
  /\ keyCache[s][sid[m.from]] # None
  /\ DecryptAndWrite(s, m, keyCache[s])

\* on_message for a session that is not cached: SearchKey is sent and the
\* callback blocks on the answer.
QueryKey(s, m) ==
  /\ sub[s] = "looping"
  /\ m \in inbox[s] \ {Noise}
  /\ keyCache[s][sid[m.from]] = None
  /\ inbox' = [inbox EXCEPT ![s] = @ \ {m}]
  /\ cur' = [cur EXCEPT ![s] = m]
  /\ sub' = [sub EXCEPT ![s] = "querying"]
  /\ UNCHANGED <<pubVars, sid, serverVars, thriftVars, linked, reply, cacheVars>>

\* Mutant of ReceiveKey: the exception field of the answer is not looked at.
ReceiveAnything(s) ==
  /\ reply[s] # None
  /\ DecryptAndWrite(s, cur[s], [keyCache[s] EXCEPT ![sid[cur[s].from]] = reply[s]])

\* The key arrives: it is cached, the callback goes on.
ReceiveKey(s) ==
  /\ reply[s] \in Sessions
  /\ DecryptAndWrite(s, cur[s], [keyCache[s] EXCEPT ![sid[cur[s].from]] = reply[s]])

\* The exception reply is raised out of the callback and ends the process.
ReceiveFault(s) ==
  /\ reply[s] = Fault
  /\ EndSubscriber(s, "crashed")

\* Mutant of QueryBroken: a broken connection is noticed only while no server
\* listens on the port.
QueryBrokenWhileDown(s) ==
  /\ sub[s] = "querying" /\ reply[s] = None
  /\ ~up
  /\ EndSubscriber(s, "crashed")

\* The Thrift connection was broken with the server: SearchKey raises.
QueryBroken(s) ==
  /\ sub[s] = "querying" /\ reply[s] = None
  /\ s \notin backlog \union {thriftConn}
  /\ EndSubscriber(s, "crashed")

\* stop_all: the loop ends after the callback that is running.  A callback that
\* waits for an answer is interrupted by the signal, which recv reports as an
\* error.
Stop(s) ==
  \/ sub[s] = "looping" /\ EndSubscriber(s, "stopped")
  \/ sub[s] = "querying" /\ reply[s] = None /\ EndSubscriber(s, "crashed")

-----------------------------------------------------------------------------
Server == SeeError \/ AddKey \/ PrintSK \/ SendVS \/ ServerDies \/ ResponderFails
          \/ ThriftAccept

Publisher(p)  == \/ Connect(p) \/ VerifyVS(p) \/ GiveUp(p)
                 \/ Publish(p) \/ PublisherEnds(p) \/ Accept(p)

\* mqtt_client.loop() hands message m to on_message.
Handle(s, m)  == \/ m = Noise /\ RejectPayload(s)
                 \/ DecodeCached(s, m) \/ QueryKey(s, m)

Callback(s)   == \/ SearchKey(s) \/ ReceiveKey(s) \/ ReceiveFault(s) \/ QueryBroken(s)

Subscriber(s) == \/ OpenThrift(s) \/ StartFails(s) \/ ConnectBroker(s)
                 \/ LoseBroker(s) \/ OtherPublishes(s) \/ Callback(s) \/ Stop(s)
                 \/ \E m \in inbox[s] : Handle(s, m)

Next ==
  \/ Server
  \/ Restart
  \/ \E p \in Sessions : Publisher(p)
  \/ \E s \in Subscribers : Subscriber(s)

\* The operating system runs every process and thread that is ready to run;
\* paho hands messages over in the order they came, so none waits for ever.
\* Nothing is assumed of a handshake: neither end has a timeout.
Fairness ==
  /\ WF_vars(SeeError)
  /\ WF_vars(AddKey)
  /\ WF_vars(PrintSK)
  /\ WF_vars(ThriftAccept)
  /\ \A s \in Subscribers : /\ WF_vars(Callback(s))
                            /\ \A m \in Messages : WF_vars(Handle(s, m))

Spec == Init /\ [][Next]_vars /\ Fairness
-----------------------------------------------------------------------------
(* Properties                                                              *)

\* Where the key of session p can be between derivation and table.
InResponder(p) == responder = [stage |-> "print", peer |-> p]
InPipe(p)      == \E n \in 1 .. Len(stdout) : stdout[n] = p
InTable(p)     == sid[p] \in SessionIDs /\ lookupTable[sid[p]] = p

\* A session with the ID of p is in the table: p itself, or one that drew the
\* same ID and was added over it.
IDInTable(p) == \E q \in Sessions : sid[q] = sid[p] /\ InTable(q)

\* The server side never drops a key: from the moment the responder derives it
\* (and V_S lets the publisher encrypt with it) until s_server or its wrapper goes
\* down, the key is about to be printed, in the pipe, or its ID is in the table
\* -- whatever sessions, errors and restarts interleave with it.
KeyOnItsWay ==
  \A p \in Derived \ lost :
    up /\ (InResponder(p) \/ InPipe(p) \/ IDInTable(p))

\* A text given to output_client.write was decrypted with a key of the ID its
\* message carries -- the key it was encrypted with, unless another session drew
\* the same ID: table, reply and both caches of DecodePayload never hand a message
\* the key of another ID, and the two caches of a subscriber cannot drift apart.
CorrectDecryption ==
  /\ \A s \in Subscribers : \A w \in written[s] : sid[w.key] = sid[w.msg.from]
  /\ \A s \in Subscribers, i \in SessionIDs :
       cipherCache[s][i] # None => cipherCache[s][i] = keyCache[s][i]

\* SearchKey answers with an exception only in the window between V_S and
\* addKey, or when the key died with an earlier server.
FaultOnlyInWindow ==
  [][\A s \in Subscribers :
       reply[s] # Fault /\ reply'[s] = Fault
         => LET p == cur[s].from IN p \in lost \/ InResponder(p) \/ InPipe(p)]_vars

\* on_message has a branch for payloads that cannot be decoded: it logs and the
\* loop goes on.  So a payload of a session whose key the server did not lose
\* would be reported at worst; no answer to SearchKey would end the subscriber.
UndecodableIsReported ==
  [][\A s \in Subscribers :
       reply[s] # None /\ output_client = default_print /\ cur[s].from \notin lost
         => sub'[s] # "crashed"]_vars

\* The chain implements KeyDirectory: a session draws its ID when the responder
\* derives the key, and what a subscriber has learned is its cache.  The key it
\* has cached for an ID stays the one it cached first.
Directory == INSTANCE KeyDirectory WITH drawn <- sid, known <- keyCache

DirectorySpec == Directory!Spec

\* The chain implements KeyAgreement, too: a publisher never uses a key its
\* responder has not derived, and s_server serves one peer at a time, also when
\* the wrapper takes it down and starts it again.
Agreement == INSTANCE KeyAgreement WITH
               Initiators <- Sessions, party <- pub, serving <- responder

AgreementSpec == Agreement!Spec

\* Every derived key reaches the table, unless its server goes down first.
KeyReachesTable ==
  \A p \in Sessions : sid[p] # None ~> p \in lost \/ InTable(p)

\* The Thrift connection of another subscriber is being served.
Starved(s) == thriftConn \in Subscribers \ {s}

\* A message that reaches a subscriber is dealt with, also when the broker has
\* gone: written, lost or dropped for its format, or ended with the subscriber
\* -- unless its query is stuck for ever behind the connection of another
\* subscriber, which TSimpleServer serves until that subscriber closes it.
MessageDealtWith ==
  \A s \in Subscribers, m \in Messages :
    (m \in inbox[s] \/ cur[s] = m) ~> \/ m \notin inbox[s] /\ cur[s] # m
                                    \/ Starved(s)
=============================================================================
