----------------------------- MODULE Handshake -----------------------------
(***************************************************************************)
(* The AugPAKE handshake byte by byte: do_initiator (s_client) and         *)
(* do_responder (s_server) exchange four messages over TCP, each as its    *)
(* size and its body (sendOrDone and recvOrDone of sample_header.h).  TCP  *)
(* keeps the order of the bytes and nothing else: a read returns as many   *)
(* as happen to be there.  s_server serves one connection at a time, has   *)
(* no timeout, and never closes a socket it has accepted.                  *)
(*                                                                         *)
(* KeyDelivery sees of all this what KeyAgreement says.                    *)
(***************************************************************************)
EXTENDS Naturals, Sequences

CONSTANTS
  Initiators,   \* runs of s_client
  Responder,    \* the process s_server
  IntSize,      \* sizeof(int)
  BodySize,     \* bytes of a message
  None          \* "no peer"

ASSUME HandshakeAssumption ==
  /\ IntSize \in Nat \ {0} /\ BodySize \in Nat \ {0}
  /\ None \notin Initiators /\ Responder \notin Initiators

VARIABLES
  at,           \* where each process stands
  step,         \* the step of its program it is in
  got,          \* the bytes of the size or body it has read so far
  toResponder,  \* bytes on their way, of each connection
  toInitiator,
  waiting,      \* connections the kernel holds for s_server's next accept
  peer,         \* whom the responder serves
  silent,       \* initiators that have stopped without closing their socket
  torn,         \* history: connections where a size came in pieces and was overrun
  agreed        \* history: initiators the responder has sent V_S

vars == <<at, step, got, toResponder, toInitiator, waiting, peer, silent, torn, agreed>>

Ends == Initiators \union {Responder}

\* The messages in the order of the protocol.
X   == 1
Y   == 2
V_U == 3
V_S == 4

\* Byte n of message m as it goes over the wire: the size comes first.
Byte == (1 .. 4) \X (1 .. (IntSize + BodySize))

SizeOf(m) == [n \in 1 .. IntSize |-> <<m, n>>]
BodyOf(m) == [n \in 1 .. BodySize |-> <<m, IntSize + n>>]

\* Mutant of do_initiator: V_S is not waited for.
do_initiator_hasty ==
  << <<"send", X>>, <<"receive", Y>>, <<"send", V_U>> >>

do_initiator ==
  << <<"send", X>>, <<"receive", Y>>, <<"send", V_U>>, <<"receive", V_S>> >>

\* Mutant of do_responder: V_U is expected before S|A|Y is sent.
do_responder_swapped ==
  << <<"receive", X>>, <<"receive", V_U>>, <<"send", Y>>, <<"send", V_S>> >>

do_responder ==
  << <<"receive", X>>, <<"send", Y>>, <<"receive", V_U>>, <<"send", V_S>> >>

Program(e) == IF e = Responder THEN do_responder ELSE do_initiator

\* The message e sends or receives now.
Message(e) == Program(e)[step[e]][2]

\* Where a process is before step n of its program.
Begin(e, n) == IF Program(e)[n][1] = "send" THEN "sendSize" ELSE "readSize"

Stages == {"sendSize", "sendBody", "readSize", "readBody", "compute", "spinning"}

TypeOK ==
  /\ at \in [Ends -> Stages \union {"start", "accept", "print", "printed", "exited", "dead"}]
  /\ step \in [Ends -> 1 .. 4]
  /\ got \in [Ends -> Seq(Byte)]
  /\ toResponder \in [Initiators -> Seq(Byte)]
  /\ toInitiator \in [Initiators -> Seq(Byte)]
  /\ waiting \in SUBSET Initiators
  /\ peer \in Initiators \union {None}
  /\ silent \in SUBSET Initiators
  /\ torn \in SUBSET Initiators
  /\ agreed \in SUBSET Initiators
  /\ peer # None <=> at[Responder] \in Stages \union {"print"}
  /\ \A e \in Ends : got[e] # <<>> => at[e] \in {"readSize", "readBody", "compute"}

Init ==
  /\ at = [e \in Ends |-> IF e = Responder THEN "accept" ELSE "start"]
  /\ step = [e \in Ends |-> 1]
  /\ got = [e \in Ends |-> <<>>]
  /\ toResponder = [i \in Initiators |-> <<>>]
  /\ toInitiator = [i \in Initiators |-> <<>>]
  /\ waiting = {}
  /\ peer = None
  /\ silent = {} /\ torn = {} /\ agreed = {}

-----------------------------------------------------------------------------
(* Connections                                                             *)

wire == <<toResponder, toInitiator>>

\* The connection of process e, named by its initiator.
Connection(e) == IF e = Responder THEN peer ELSE e

Incoming(e) == IF e = Responder THEN toResponder[peer] ELSE toInitiator[e]

\* The other end of e's connection has closed it: s_client by ending, s_server
\* only when it ends as a whole.
PeerGone(e) ==
  IF e = Responder THEN at[peer] \in {"printed", "exited"} ELSE at[Responder] = "dead"

Active(e) == e \notin silent /\ at[e] \in Stages

\* s_client connects.  It exits if it is refused.  The result of hostname_to_ip
\* is ignored: a name that does not resolve leads to another host or to none.
Connect(i) ==
  /\ at[i] = "start"
  /\ \/ /\ at[Responder] # "dead"
        /\ at' = [at EXCEPT ![i] = Begin(i, 1)]
        /\ waiting' = waiting \union {i}
     \/ at' = [at EXCEPT ![i] = "exited"] /\ UNCHANGED waiting
  /\ UNCHANGED <<step, got, wire, peer, silent, torn, agreed>>

\* s_server's accept, and do_responder up to its first step; augpake_init may fail.
Accept(i) ==
  /\ at[Responder] = "accept"
  /\ i \in waiting
  /\ waiting' = waiting \ {i}
  /\ \/ /\ at' = [at EXCEPT ![Responder] = Begin(Responder, 1)]
        /\ step' = [step EXCEPT ![Responder] = 1]
        /\ peer' = i
     \/ UNCHANGED <<at, step, peer>>
  /\ UNCHANGED <<got, wire, silent, torn, agreed>>

-----------------------------------------------------------------------------
(* How a process leaves its program                                        *)

\* The process ends and its sockets are closed.
Die(e) ==
  /\ got' = [got EXCEPT ![e] = <<>>]
  /\ at' = [at EXCEPT ![e] = IF e = Responder THEN "dead" ELSE "exited"]
  /\ peer' = IF e = Responder THEN None ELSE peer
  /\ waiting' = IF e = Responder THEN {} ELSE waiting

\* goto Done: s_client ends, s_server goes back to accept and leaves the socket open.
Done(e) ==
  IF e = Responder
  THEN /\ got' = [got EXCEPT ![e] = <<>>]
       /\ at' = [at EXCEPT ![e] = "accept"]
       /\ peer' = None
       /\ UNCHANGED waiting
  ELSE Die(e)

\* Step n of the program is behind e.
Advance(e) ==
  /\ got' = [got EXCEPT ![e] = <<>>]
  /\ IF step[e] < Len(Program(e))
     THEN /\ step' = [step EXCEPT ![e] = @ + 1]
          /\ at' = [at EXCEPT ![e] = Begin(e, step[e] + 1)]
     ELSE /\ at' = [at EXCEPT ![e] = IF e = Responder THEN "print" ELSE "printed"]
          /\ UNCHANGED step
  /\ UNCHANGED <<peer, waiting>>

-----------------------------------------------------------------------------
(* sendOrDone                                                              *)

write(e, bytes) ==
  IF e = Responder
  THEN /\ toInitiator' = [toInitiator EXCEPT ![peer] = @ \o bytes]
       /\ UNCHANGED toResponder
  ELSE /\ toResponder' = [toResponder EXCEPT ![e] = @ \o bytes]
       /\ UNCHANGED toInitiator

SendSize(e) ==
  /\ Active(e) /\ at[e] = "sendSize"
  /\ write(e, SizeOf(Message(e)))
  /\ at' = [at EXCEPT ![e] = "sendBody"]
  /\ UNCHANGED <<step, got, waiting, peer, silent, torn, agreed>>

SendBody(e) ==
  /\ Active(e) /\ at[e] = "sendBody"
  /\ write(e, BodyOf(Message(e)))
  /\ agreed' = IF Message(e) = V_S THEN agreed \union {peer} ELSE agreed
  /\ Advance(e)
  /\ UNCHANGED <<silent, torn>>

\* A write to a peer that is gone returns an error, or ends the process (SIGPIPE).
SendFails(e) ==
  /\ Active(e) /\ at[e] \in {"sendSize", "sendBody"}
  /\ PeerGone(e)
  /\ Done(e) \/ Die(e)
  /\ UNCHANGED <<step, wire, silent, torn, agreed>>

-----------------------------------------------------------------------------
(* recvOrDone                                                              *)

\* read returns n bytes: as many as are there, but not more than were asked for.
read(e, n) ==
  /\ n <= Len(Incoming(e))
  /\ IF e = Responder
     THEN /\ toResponder' = [toResponder EXCEPT ![peer] = SubSeq(@, n + 1, Len(@))]
          /\ UNCHANGED toInitiator
     ELSE /\ toInitiator' = [toInitiator EXCEPT ![e] = SubSeq(@, n + 1, Len(@))]
          /\ UNCHANGED toResponder

\* What e has of the size or body with n more bytes.
With(e, n) == got[e] \o SubSeq(Incoming(e), 1, n)

\* Every read asks for a whole int.  Where the first ones fell short, the last
\* takes bytes of the body along and writes them behind the int.  That ends the
\* process, or it goes unnoticed and the bytes are missing from the body.
ReadSize(e) ==
  /\ Active(e) /\ at[e] = "readSize"
  /\ \E n \in 1 .. IntSize :
       /\ read(e, n)
       /\ \/ /\ Len(got[e]) + n < IntSize
             /\ got' = [got EXCEPT ![e] = With(e, n)]
             /\ UNCHANGED <<at, waiting, peer, torn>>
          \/ /\ Len(got[e]) + n >= IntSize
             /\ got' = [got EXCEPT ![e] = <<>>]
             /\ at' = [at EXCEPT ![e] = "readBody"]
             /\ torn' = IF Len(got[e]) + n > IntSize
                        THEN torn \union {Connection(e)} ELSE torn
             /\ UNCHANGED <<waiting, peer>>
          \/ Len(got[e]) + n > IntSize /\ Die(e) /\ UNCHANGED torn
  /\ UNCHANGED <<step, silent, agreed>>

\* Mutant of ReadBody: one read, whatever it returns.
ReadBodyOnce(e) ==
  /\ Active(e) /\ at[e] = "readBody"
  /\ \E n \in 1 .. BodySize :
       /\ read(e, n)
       /\ got' = [got EXCEPT ![e] = With(e, n)]
       /\ at' = [at EXCEPT ![e] = "compute"]
  /\ UNCHANGED <<step, waiting, peer, silent, torn, agreed>>

\* Every read asks for a whole body again, until one is there.
ReadBody(e) ==
  /\ Active(e) /\ at[e] = "readBody"
  /\ \E n \in 1 .. BodySize :
       /\ read(e, n)
       /\ got' = [got EXCEPT ![e] = With(e, n)]
       /\ at' = [at EXCEPT ![e] = IF Len(got[e]) + n < BodySize THEN @ ELSE "compute"]
  /\ UNCHANGED <<step, waiting, peer, silent, torn, agreed>>

\* The peer is gone: read returns 0 at the end of what it had sent, or -1 when
\* the connection was reset.  Either is added to what was read before.  With
\* nothing left the loop ends and so does the handshake, because the size is
\* not set, or because the library is called with 0 bytes and refuses them, which
\* is one step here; otherwise the loop reads 0 bytes for ever.
ReadEnds(e) ==
  /\ Active(e) /\ at[e] \in {"readSize", "readBody"}
  /\ PeerGone(e)
  /\ \E returned \in {"0", "-1"} :
       /\ returned = "0" => Incoming(e) = <<>>
       /\ IF got[e] = <<>> \/ (returned = "-1" /\ Len(got[e]) = 1)
          THEN Done(e)
          ELSE /\ at' = [at EXCEPT ![e] = "spinning"]
               /\ got' = [got EXCEPT ![e] = <<>>]
               /\ UNCHANGED <<waiting, peer>>
  /\ UNCHANGED <<step, wire, silent, torn, agreed>>

\* The library makes the next message, or the secret, of one that arrived whole;
\* it fails on any other, on another password, or without memory.
Compute(e) ==
  /\ Active(e) /\ at[e] = "compute"
  /\ \/ got[e] = BodyOf(Message(e)) /\ Advance(e)
     \/ Done(e) /\ UNCHANGED step
  /\ UNCHANGED <<wire, silent, torn, agreed>>

\* Mutant of PrintSK: the peer is not forgotten.
PrintSKKeepsPeer ==
  /\ at[Responder] = "print"
  /\ at' = [at EXCEPT ![Responder] = "accept"]
  /\ UNCHANGED <<step, got, wire, waiting, peer, silent, torn, agreed>>

\* The responder prints SK and is free for the next connection.
PrintSK ==
  /\ at[Responder] = "print"
  /\ at' = [at EXCEPT ![Responder] = "accept"]
  /\ peer' = None
  /\ UNCHANGED <<step, got, wire, waiting, silent, torn, agreed>>

-----------------------------------------------------------------------------
(* What comes from outside                                                 *)

\* The process is killed, or the library fails before the first message.
Kill(e) ==
  /\ at[e] \in Stages \union {"accept", "print"}
  /\ Die(e)
  /\ UNCHANGED <<step, wire, silent, torn, agreed>>

\* The initiator or the network stops, and no FIN or RST tells the responder.
FallSilent(i) ==
  /\ at[i] \in Stages
  /\ silent' = silent \union {i}
  /\ UNCHANGED <<at, step, got, wire, waiting, peer, torn, agreed>>

-----------------------------------------------------------------------------
Step(e) ==
  \/ SendSize(e) \/ SendBody(e) \/ SendFails(e)
  \/ ReadSize(e) \/ ReadBody(e) \/ ReadEnds(e) \/ Compute(e)

Next ==
  \/ PrintSK
  \/ \E e \in Ends : Step(e) \/ Kill(e)
  \/ \E i \in Initiators : Connect(i) \/ Accept(i) \/ FallSilent(i)

\* The operating system runs every process that is ready, and TCP delivers.
Fairness ==
  /\ WF_vars(PrintSK)
  /\ \A e \in Ends : WF_vars(Step(e))

Spec == Init /\ [][Next]_vars /\ Fairness

-----------------------------------------------------------------------------
(* Properties                                                              *)

\* However TCP cuts the stream, whoever ends and whichever reads ask for more
\* than belongs to them: the library is given the message the peer sent, whole
\* and alone, or nothing.  It holds because the ends take turns, so that there
\* is never a byte of the next message to take along, and because a body that
\* lost bytes to its size never gets complete.
WholeOrNothing ==
  \A e \in Ends : at[e] = "compute" => got[e] = BodyOf(Message(e))

\* The handshake implements KeyAgreement: an initiator prints its key only after
\* the responder derived it, and the responder serves one peer at a time.
Party(i) ==
  IF at[i] \in {"start", "exited"} THEN at[i]
  ELSE IF at[i] = "printed" THEN "ready"
  ELSE IF i \in agreed THEN "confirmed" ELSE "connected"

Stage ==
  IF at[Responder] \in {"accept", "dead", "print"} THEN at[Responder] ELSE "handshake"

Agreement == INSTANCE KeyAgreement
  WITH party <- [i \in Initiators |-> Party(i)],
       serving <- [stage |-> Stage, peer |-> peer]

AgreementSpec == Agreement!Spec

\* Only a peer that has fallen silent, a size that came in pieces, or an end of
\* file in the middle of a field can keep the responder for ever; any other
\* handshake comes to an end and the next connection is accepted.
ServerComesBack ==
  \A i \in Initiators :
    peer = i ~> \/ peer # i
                \/ i \in silent \union torn
                \/ at[Responder] = "spinning"
=============================================================================
