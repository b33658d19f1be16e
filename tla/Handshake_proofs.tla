-------------------------- MODULE Handshake_proofs --------------------------
(***************************************************************************)
(* Theorems about Handshake, for any number of initiators and any sizes of *)
(* an int and of a message.                                                *)
(***************************************************************************)
EXTENDS Handshake, SequenceTheorems, TLAPS

Reading == {"readSize", "readBody", "compute"}
Sending == {"sendSize", "sendBody"}

Whole == IntSize + BodySize

\* Bytes a+1 to b of message m.
Part(m, a, b) == [n \in 1 .. (b - a) |-> <<m, a + n>>]

\* Who stands at l has got bytes a+1 to b of message m in g; the bytes up to c
\* have been sent, and those it has not read are the stream s.
Window(l, g, s, m, a, b, c) ==
  /\ a <= b /\ b <= c
  /\ c \in {0, IntSize, Whole}
  /\ g = Part(m, a, b)
  /\ s = Part(m, b, c)
  /\ l = "readSize" => a = 0 /\ b < IntSize
  /\ l = "readBody" => a >= IntSize
  /\ l = "compute" => a = IntSize /\ b = Whole

Reads(l, g, s, m, c) == \E a, b \in 0 .. Whole : Window(l, g, s, m, a, b, c)

Cut(e, s, m, c) == Reads(at[e], got[e], s, m, c)

\* How much of a message its sender has sent, while it is at it.
Sent(e, c) ==
  /\ at[e] = "sendSize" => c = 0
  /\ at[e] = "sendBody" => c = IntSize

\* The responder is at message m of the handshake with i.
Serves(i, m) == peer = i /\ step[Responder] = m

\* A process sends and receives at the steps of its program that say so.
ProgramInv ==
  /\ \A i \in Initiators :
       /\ at[i] \in Sending \union {"start"} => step[i] \in {X, V_U}
       /\ at[i] \in Reading \union {"spinning"} => step[i] \in {Y, V_S}
       /\ at[i] = "start" => step[i] = X
  /\ at[Responder] \in Reading => step[Responder] \in {X, V_U}
  /\ at[Responder] \in Sending => step[Responder] \in {Y, V_S}

InitiatorHears(i, c) ==
  /\ Cut(i, toInitiator[i], step[i], c)
  /\ Serves(i, step[i]) => Sent(Responder, c)
  /\ step[i] = V_S /\ c = Whole => i \in agreed

ResponderHears(i, c) ==
  /\ Cut(Responder, toResponder[i], step[Responder], c)
  /\ Sent(i, c)
  /\ at[i] \in Reading /\ step[i] < step[Responder] => c = 0

\* What an initiator receives is cut from the one message it waits for.
InitiatorInv(i) ==
  /\ at[i] \in Sending \union {"start"} => toInitiator[i] = <<>>
  /\ at[i] \in Reading =>
       \E c \in 0 .. Whole : InitiatorHears(i, c)

\* An initiator has nothing yet.
Untouched(i) ==
  /\ at[i] = "readSize" /\ got[i] = <<>> /\ toInitiator[i] = <<>>

\* A connection that has not been accepted: at most X is on the way.
WaitingInv(i) ==
  /\ at[i] = "start" => toResponder[i] = <<>> /\ i \notin waiting /\ peer # i
  /\ i \in waiting =>
       /\ peer # i
       /\ at[i] \notin {"printed", "spinning"}
       /\ at[i] \in Sending => step[i] = X
       /\ at[i] \in Reading => step[i] = Y /\ Untouched(i)
       /\ \E c \in {0, IntSize, Whole} :
            toResponder[i] = Part(X, 0, c) /\ Sent(i, c)

\* The ends take turns, and what the responder receives is cut from the one
\* message it waits for.
TurnInv(i) ==
  peer = i =>
    /\ at[Responder] \in Reading =>
         /\ at[i] \in Sending =>
              step[i] = step[Responder] /\ at[Responder] # "compute"
         /\ at[i] \in Reading =>
              step[i] = step[Responder] - 1 \/ (step[i] = step[Responder] + 1 /\ Untouched(i))
         /\ \E c \in 0 .. Whole : ResponderHears(i, c)
    /\ at[Responder] \in Sending =>
         /\ at[i] \notin Sending
         /\ at[i] \in Reading => step[i] = step[Responder]
         /\ toResponder[i] = <<>>
    /\ at[Responder] \in Reading \union Sending =>
         at[i] \notin {"spinning", "printed"}

\* A key is in use only where the responder has agreed to it, which it does at
\* the end of a handshake.
AgreedInv(i) ==
  /\ at[i] = "printed" => i \in agreed
  /\ i \in agreed => at[i] # "start" /\ i \notin waiting
  /\ peer = i /\ i \in agreed => at[Responder] = "print"

\* An initiator reads end of file only of a responder that has ended.
DeadInv ==
  /\ at[Responder] = "dead" => waiting = {}
  /\ \A i \in Initiators : at[i] = "spinning" => at[Responder] = "dead"

ConnectionInv(i) == InitiatorInv(i) /\ WaitingInv(i) /\ TurnInv(i) /\ AgreedInv(i)

IInv ==
  TypeOK /\ ProgramInv /\ DeadInv /\ \A i \in Initiators : ConnectionInv(i)

-----------------------------------------------------------------------------
(* Parts of messages                                                       *)

USE DEF X, Y, V_U, V_S

LEMMA Sizes == IntSize \in Nat \ {0} /\ BodySize \in Nat \ {0} /\ Whole \in Nat \ {0}
                 /\ IntSize < Whole /\ Whole - IntSize = BodySize
  BY HandshakeAssumption DEF Whole

LEMMA PartType ==
  ASSUME NEW m \in 1 .. 4, NEW a \in Nat, NEW b \in Nat, a <= b, b <= Whole
  PROVE  Part(m, a, b) \in Seq(Byte) /\ Len(Part(m, a, b)) = b - a
<1>1. \A n \in 1 .. (b - a) : <<m, a + n>> \in Byte
  BY Sizes DEF Byte, Whole
<1> QED
  BY <1>1, Sizes DEF Part

LEMMA PartConcat ==
  ASSUME NEW m \in 1 .. 4, NEW a \in Nat, NEW b \in Nat, NEW c \in Nat,
         a <= b, b <= c, c <= Whole
  PROVE  Part(m, a, b) \o Part(m, b, c) = Part(m, a, c)
<1>1. /\ Part(m, a, b) \in Seq(Byte) /\ Len(Part(m, a, b)) = b - a
      /\ Part(m, b, c) \in Seq(Byte) /\ Len(Part(m, b, c)) = c - b
      /\ Part(m, a, c) \in Seq(Byte) /\ Len(Part(m, a, c)) = c - a
  <2>1. b <= Whole /\ a <= c
    BY Sizes
  <2>2. Part(m, a, b) \in Seq(Byte) /\ Len(Part(m, a, b)) = b - a
    BY <2>1, PartType
  <2>3. Part(m, b, c) \in Seq(Byte) /\ Len(Part(m, b, c)) = c - b
    BY <2>1, PartType
  <2>4. Part(m, a, c) \in Seq(Byte) /\ Len(Part(m, a, c)) = c - a
    BY <2>1, PartType
  <2> QED
    BY <2>2, <2>3, <2>4
<1> DEFINE s == Part(m, a, b) \o Part(m, b, c)
<1>2. s \in Seq(Byte) /\ Len(s) = c - a
  BY <1>1, Sizes
<1>3. \A n \in 1 .. (c - a) : s[n] = Part(m, a, c)[n]
  <2> SUFFICES ASSUME NEW n \in 1 .. (c - a) PROVE s[n] = Part(m, a, c)[n]
    OBVIOUS
  <2>1. Part(m, a, c)[n] = <<m, a + n>>
    BY DEF Part
  <2>2. CASE n <= b - a
    <3>1. s[n] = Part(m, a, b)[n]
      BY <1>1, <2>2
    <3> QED
      BY <3>1, <2>1, <2>2 DEF Part
  <2>3. CASE n > b - a
    <3>1. s[n] = Part(m, b, c)[n - (b - a)]
      BY <1>1, <2>3, ConcatProperties
    <3>2. n - (b - a) \in 1 .. (c - b) /\ b + (n - (b - a)) = a + n
      BY <2>3
    <3>3. \A k \in 1 .. (c - b) : Part(m, b, c)[k] = <<m, b + k>>
      BY DEF Part
    <3>4. Part(m, b, c)[n - (b - a)] = <<m, b + (n - (b - a))>>
      BY <3>2, <3>3
    <3> QED
      BY <3>1, <3>2, <3>4, <2>1
  <2>4. n <= b - a \/ n > b - a
    OBVIOUS
  <2> QED
    BY <2>2, <2>3, <2>4, Zenon
<1> HIDE DEF s
<1>4. s = [n \in 1 .. (c - a) |-> s[n]]
  BY <1>2
<1>5. Part(m, a, c) = [n \in 1 .. (c - a) |-> Part(m, a, c)[n]]
  BY <1>1
<1>6. s = Part(m, a, c)
  BY <1>2, <1>1, <1>3, <1>4, <1>5
<1> QED
  BY <1>6 DEF s

LEMMA PartEmpty ==
  ASSUME NEW m \in 1 .. 4, NEW a \in Nat, NEW b \in Nat, a <= b, b <= Whole
  PROVE  Part(m, a, b) = <<>> <=> a = b
<1>1. Part(m, a, b) \in Seq(Byte) /\ Len(Part(m, a, b)) = b - a
  BY PartType
<1> QED
  BY <1>1

LEMMA PartsOfMessage ==
  ASSUME NEW m \in 1 .. 4
  PROVE  SizeOf(m) = Part(m, 0, IntSize) /\ BodyOf(m) = Part(m, IntSize, Whole)
  BY Sizes DEF SizeOf, BodyOf, Part

\* What a reader has of a message, and what is left of the stream, after n more bytes.
Taken(m, a, b, n, c) ==
  /\ b + n <= c
  /\ Part(m, a, b) \o SubSeq(Part(m, b, c), 1, n) = Part(m, a, b + n)
  /\ Len(Part(m, a, b)) = b - a
  /\ SubSeq(Part(m, b, c), n + 1, Len(Part(m, b, c))) = Part(m, b + n, c)

LEMMA ReadCut ==
  ASSUME NEW m \in 1 .. 4, NEW a \in Nat, NEW b \in Nat, NEW c \in Nat,
         a <= b, b <= c, c <= Whole, NEW n \in Nat, n <= Len(Part(m, b, c))
  PROVE  Taken(m, a, b, n, c)
<1>1. Len(Part(m, b, c)) = c - b
  BY PartType
<1>2. n <= c - b /\ b + n <= c /\ b + n \in Nat /\ b <= b + n
  BY <1>1
<1>3. b + n <= Whole /\ b <= Whole
  BY <1>2, Sizes
<1>4. SubSeq(Part(m, b, c), 1, n) = Part(m, b, b + n)
  <2>1. SubSeq(Part(m, b, c), 1, n) = [k \in 1 .. n |-> Part(m, b, c)[k]]
    BY <1>1, <1>2
  <2>2. \A k \in 1 .. n : Part(m, b, c)[k] = <<m, b + k>>
    BY <1>2 DEF Part
  <2>3. (b + n) - b = n
    OBVIOUS
  <2> QED
    BY <2>1, <2>2, <2>3 DEF Part
<1>5. SubSeq(Part(m, b, c), n + 1, Len(Part(m, b, c))) = Part(m, b + n, c)
  <2>1. SubSeq(Part(m, b, c), n + 1, c - b)
          = [k \in 1 .. ((c - b) - n) |-> Part(m, b, c)[k + n]]
    BY <1>1, <1>2
  <2>2. \A k \in 1 .. ((c - b) - n) : Part(m, b, c)[k + n] = <<m, (b + n) + k>>
    BY <1>2 DEF Part
  <2>3. c - (b + n) = (c - b) - n
    OBVIOUS
  <2> QED
    BY <1>1, <2>1, <2>2, <2>3 DEF Part
<1>6. Part(m, a, b) \o Part(m, b, b + n) = Part(m, a, b + n)
  BY <1>2, <1>3, PartConcat
<1>7. Len(Part(m, a, b)) = b - a
  BY <1>3, PartType
<1> QED
  BY <1>2, <1>4, <1>5, <1>6, <1>7 DEF Taken

-----------------------------------------------------------------------------
(* The two programs                                                        *)

LEMMA InitiatorProgram ==
  ASSUME NEW i \in Initiators
  PROVE  /\ i # Responder
         /\ Len(Program(i)) = 4
         /\ \A n \in 1 .. 4 :
              /\ Program(i)[n][2] = n
              /\ Begin(i, n) = IF n \in {X, V_U} THEN "sendSize" ELSE "readSize"
<1>1. i # Responder /\ Program(i) = do_initiator
  BY HandshakeAssumption DEF Program
<1>2. /\ Len(do_initiator) = 4
      /\ do_initiator[1] = <<"send", 1>> /\ do_initiator[2] = <<"receive", 2>>
      /\ do_initiator[3] = <<"send", 3>> /\ do_initiator[4] = <<"receive", 4>>
  BY DEF do_initiator
<1>3. \A n \in 1 .. 4 : n = 1 \/ n = 2 \/ n = 3 \/ n = 4
  OBVIOUS
<1>4. \A n \in 1 .. 4 :
        /\ do_initiator[n][2] = n
        /\ do_initiator[n][1] = IF n \in {X, V_U} THEN "send" ELSE "receive"
  BY <1>2, <1>3
<1> QED
  BY <1>1, <1>2, <1>4 DEF Begin

LEMMA ResponderProgram ==
  /\ Len(Program(Responder)) = 4
  /\ \A n \in 1 .. 4 :
       /\ Program(Responder)[n][2] = n
       /\ Begin(Responder, n) = IF n \in {X, V_U} THEN "readSize" ELSE "sendSize"
<1>1. Program(Responder) = do_responder
  BY DEF Program
<1>2. /\ Len(do_responder) = 4
      /\ do_responder[1] = <<"receive", 1>> /\ do_responder[2] = <<"send", 2>>
      /\ do_responder[3] = <<"receive", 3>> /\ do_responder[4] = <<"send", 4>>
  BY DEF do_responder
<1>3. \A n \in 1 .. 4 : n = 1 \/ n = 2 \/ n = 3 \/ n = 4
  OBVIOUS
<1>4. \A n \in 1 .. 4 :
        /\ do_responder[n][2] = n
        /\ do_responder[n][1] = IF n \in {X, V_U} THEN "receive" ELSE "send"
  BY <1>2, <1>3
<1> QED
  BY <1>1, <1>2, <1>4 DEF Begin

LEMMA Programs ==
  ASSUME TypeOK, NEW e \in Ends
  PROVE  /\ step[e] \in 1 .. 4
         /\ Message(e) = step[e]
         /\ Len(Program(e)) = 4
         /\ \A n \in 1 .. 4 : Begin(e, n) \in {"sendSize", "readSize"}
<1>1. step[e] \in 1 .. 4
  BY DEF TypeOK
<1>2. CASE e = Responder
  BY <1>1, <1>2, ResponderProgram DEF Message, Begin
<1>3. CASE e \in Initiators
  BY <1>1, <1>3, InitiatorProgram DEF Message, Begin
<1> QED
  BY <1>2, <1>3 DEF Ends

-----------------------------------------------------------------------------
(* Types                                                                   *)

LEMMA ReadType ==
  ASSUME TypeOK, NEW e \in Ends, Active(e), NEW n \in Nat, read(e, n)
  PROVE  /\ toResponder' \in [Initiators -> Seq(Byte)]
         /\ toInitiator' \in [Initiators -> Seq(Byte)]
         /\ With(e, n) \in Seq(Byte)
         /\ Len(With(e, n)) = Len(got[e]) + n
<1>1. \A s \in Seq(Byte) : n <= Len(s) =>
        /\ SubSeq(s, 1, n) \in Seq(Byte) /\ Len(SubSeq(s, 1, n)) = n
        /\ SubSeq(s, n + 1, Len(s)) \in Seq(Byte)
  <2> SUFFICES ASSUME NEW s \in Seq(Byte), n <= Len(s)
               PROVE  /\ SubSeq(s, 1, n) \in Seq(Byte) /\ Len(SubSeq(s, 1, n)) = n
                      /\ SubSeq(s, n + 1, Len(s)) \in Seq(Byte)
    OBVIOUS
  <2>1. \A k \in 1 .. Len(s) : s[k] \in Byte
    OBVIOUS
  <2> QED
    BY <2>1, SubSeqProperties
<1>2. Incoming(e) \in Seq(Byte) /\ got[e] \in Seq(Byte)
  BY HandshakeAssumption DEF Ends, TypeOK, Incoming, Active
<1>3. n <= Len(Incoming(e))
  BY DEF read
<1>4. With(e, n) \in Seq(Byte) /\ Len(With(e, n)) = Len(got[e]) + n
  BY <1>1, <1>2, <1>3, ConcatProperties DEF With
<1>5. /\ toResponder' \in [Initiators -> Seq(Byte)]
      /\ toInitiator' \in [Initiators -> Seq(Byte)]
  <2> DEFINE rest == SubSeq(Incoming(e), n + 1, Len(Incoming(e)))
  <2>0. rest \in Seq(Byte)
    BY <1>1, <1>2, <1>3
  <2>1. CASE e = Responder
    <3>1. toResponder' = [toResponder EXCEPT ![peer] = rest] /\ toInitiator' = toInitiator
      BY <2>1 DEF read, Incoming
    <3> HIDE DEF rest
    <3> QED
      BY <3>1, <2>0 DEF TypeOK
  <2>2. CASE e # Responder
    <3>1. toInitiator' = [toInitiator EXCEPT ![e] = rest] /\ toResponder' = toResponder
      BY <2>2 DEF read, Incoming
    <3> HIDE DEF rest
    <3> QED
      BY <3>1, <2>0 DEF TypeOK
  <2> QED
    BY <2>1, <2>2
<1> QED
  BY <1>4, <1>5

LEMMA WriteType ==
  ASSUME TypeOK, NEW e \in Ends, Active(e), NEW bytes \in Seq(Byte), write(e, bytes)
  PROVE  /\ toResponder' \in [Initiators -> Seq(Byte)]
         /\ toInitiator' \in [Initiators -> Seq(Byte)]
<1>1. \A s \in Seq(Byte) : s \o bytes \in Seq(Byte)
  BY ConcatProperties
<1>2. CASE e = Responder
  <2>1. toInitiator[peer] \o bytes \in Seq(Byte)
    BY <1>1, <1>2 DEF Active, TypeOK
  <2>2. /\ toInitiator' = [toInitiator EXCEPT ![peer] = toInitiator[peer] \o bytes]
        /\ toResponder' = toResponder
    BY <1>2 DEF write
  <2> QED
    BY <2>1, <2>2 DEF TypeOK
<1>3. CASE e \in Initiators
  <2>1. toResponder[e] \o bytes \in Seq(Byte)
    BY <1>1, <1>3 DEF TypeOK
  <2>2. /\ toResponder' = [toResponder EXCEPT ![e] = toResponder[e] \o bytes]
        /\ toInitiator' = toInitiator
    BY <1>3, HandshakeAssumption DEF write
  <2> QED
    BY <2>1, <2>2 DEF TypeOK
<1> QED
  BY <1>2, <1>3 DEF Ends

LEMMA MessageType ==
  ASSUME NEW m \in 1 .. 4
  PROVE  SizeOf(m) \in Seq(Byte) /\ BodyOf(m) \in Seq(Byte)
<1>1. 0 <= IntSize /\ IntSize <= Whole /\ IntSize \in Nat /\ Whole \in Nat /\ Whole <= Whole
  BY Sizes
<1>2. Part(m, 0, IntSize) \in Seq(Byte)
  BY <1>1, PartType
<1>3. Part(m, IntSize, Whole) \in Seq(Byte)
  BY <1>1, PartType
<1> QED
  BY <1>2, <1>3, PartsOfMessage

\* The part of the type invariant that says where a process may stand.
Standing(a, g, p) ==
  /\ a \in [Ends -> Stages \union {"start", "accept", "print", "printed", "exited", "dead"}]
  /\ p \in Initiators \union {None}
  /\ p # None <=> a[Responder] \in Stages \union {"print"}
  /\ g \in [Ends -> Seq(Byte)]
  /\ \A e \in Ends : g[e] # <<>> => a[e] \in {"readSize", "readBody", "compute"}

Places == Stages \union {"start", "accept", "print", "printed", "exited", "dead"}

\* e goes to place a, with bytes g read.
LEMMA Move ==
  ASSUME TypeOK, NEW e \in Ends, NEW a \in Places, NEW g \in Seq(Byte),
         g # <<>> => a \in Reading,
         at' = [at EXCEPT ![e] = a],
         got' = [got EXCEPT ![e] = g],
         e # Responder => peer' = peer,
         e = Responder => /\ peer' \in Initiators \union {None}
                          /\ peer' # None <=> a \in Stages \union {"print"}
  PROVE  Standing(at', got', peer')
<1>1. at \in [Ends -> Places] /\ got \in [Ends -> Seq(Byte)] /\ Responder \in Ends
  BY DEF TypeOK, Places, Ends
<1>2. at' \in [Ends -> Places] /\ got' \in [Ends -> Seq(Byte)]
  BY <1>1
<1>3. peer' \in Initiators \union {None}
  BY DEF TypeOK
<1>4. peer' # None <=> at'[Responder] \in Stages \union {"print"}
  <2>1. CASE e = Responder
    BY <2>1, <1>1
  <2>2. CASE e # Responder
    BY <2>2, <1>1 DEF TypeOK
  <2> QED
    BY <2>1, <2>2
<1>5. ASSUME NEW f \in Ends, got'[f] # <<>> PROVE at'[f] \in Reading
  <2>1. CASE f = e
    BY <2>1, <1>1, <1>5
  <2>2. CASE f # e
    BY <2>2, <1>1, <1>5 DEF TypeOK, Reading
  <2> QED
    BY <2>1, <2>2
<1> QED
  BY <1>2, <1>3, <1>4, <1>5 DEF Standing, Places, Reading

LEMMA Names ==
  /\ Responder \notin Initiators /\ None \notin Initiators
  /\ Responder \in Ends /\ Initiators \subseteq Ends
  /\ <<>> \in Seq(Byte)
  /\ Reading \subseteq Stages /\ Sending \subseteq Stages /\ Stages \subseteq Places
  /\ {"start", "accept", "print", "printed", "exited", "dead"} \subseteq Places
  /\ Stages \intersect {"start", "accept", "print", "printed", "exited", "dead"} = {}
  BY HandshakeAssumption DEF Ends, Reading, Sending, Stages, Places

LEMMA MoveOn ==
  ASSUME TypeOK, NEW e \in Ends, NEW a \in Places,
         got[e] # <<>> => a \in Reading,
         at' = [at EXCEPT ![e] = a], got' = got,
         e # Responder => peer' = peer,
         e = Responder => /\ peer' \in Initiators \union {None}
                          /\ peer' # None <=> a \in Stages \union {"print"}
  PROVE  Standing(at', got', peer')
<1>1. got[e] \in Seq(Byte) /\ got' = [got EXCEPT ![e] = got[e]]
  BY DEF TypeOK
<1> QED
  BY <1>1, Move

LEMMA DieType ==
  ASSUME TypeOK, NEW e \in Ends, Die(e)
  PROVE  Standing(at', got', peer') /\ waiting' \in SUBSET Initiators
<1>1. waiting' \in SUBSET Initiators
  BY DEF Die, TypeOK
<1>2. CASE e = Responder
  <2>1. at' = [at EXCEPT ![e] = "dead"] /\ got' = [got EXCEPT ![e] = <<>>] /\ peer' = None
    BY <1>2 DEF Die
  <2> QED
    BY <1>1, <1>2, <2>1, Names, Move
<1>3. CASE e # Responder
  <2>1. at' = [at EXCEPT ![e] = "exited"] /\ got' = [got EXCEPT ![e] = <<>>] /\ peer' = peer
    BY <1>3 DEF Die
  <2> QED
    BY <1>1, <1>3, <2>1, Names, Move
<1> QED
  BY <1>2, <1>3

LEMMA DoneType ==
  ASSUME TypeOK, NEW e \in Ends, Done(e)
  PROVE  Standing(at', got', peer') /\ waiting' \in SUBSET Initiators
<1>1. CASE e = Responder
  <2>1. /\ at' = [at EXCEPT ![e] = "accept"] /\ got' = [got EXCEPT ![e] = <<>>]
        /\ peer' = None /\ waiting' = waiting
    BY <1>1 DEF Done
  <2> QED
    BY <1>1, <2>1, Names, Move DEF TypeOK
<1>2. CASE e # Responder
  BY <1>2, DieType DEF Done
<1> QED
  BY <1>1, <1>2

LEMMA AdvanceType ==
  ASSUME TypeOK, NEW e \in Ends, at[e] \in Stages, Advance(e)
  PROVE  /\ Standing(at', got', peer') /\ waiting' \in SUBSET Initiators
         /\ step' \in [Ends -> 1 .. 4]
<1>1. /\ step[e] \in 1 .. 4 /\ Len(Program(e)) = 4
      /\ \A n \in 1 .. 4 : Begin(e, n) \in {"sendSize", "readSize"}
  BY Programs
<1>2. CASE step[e] < 4
  <2>1. step[e] + 1 \in 1 .. 4
    <3>1. \A n \in 1 .. 4 : n < 4 => n + 1 \in 1 .. 4
      OBVIOUS
    <3> QED
      BY <1>1, <1>2, <3>1, Zenon
  <2>2. Begin(e, step[e] + 1) \in {"sendSize", "readSize"}
    BY <2>1, <1>1
  <2>3. /\ step' = [step EXCEPT ![e] = step[e] + 1]
        /\ at' = [at EXCEPT ![e] = Begin(e, step[e] + 1)]
        /\ got' = [got EXCEPT ![e] = <<>>]
        /\ peer' = peer /\ waiting' = waiting
    BY <1>1, <1>2 DEF Advance
  <2>4. Begin(e, step[e] + 1) \in Stages
    BY <2>2 DEF Stages
  <2>5. peer' \in Initiators \union {None} /\ (e = Responder => peer' # None)
    BY <2>3 DEF TypeOK
  <2>6. Standing(at', got', peer')
    BY <2>3, <2>4, <2>5, Names, Move
  <2> QED
    BY <2>1, <2>3, <2>6 DEF TypeOK
<1>3. CASE ~ (step[e] < 4)
  <2>1. /\ step' = step
        /\ at' = [at EXCEPT ![e] = IF e = Responder THEN "print" ELSE "printed"]
        /\ got' = [got EXCEPT ![e] = <<>>]
        /\ peer' = peer /\ waiting' = waiting
    BY <1>1, <1>3 DEF Advance
  <2>2. peer' \in Initiators \union {None} /\ (e = Responder => peer' # None)
    BY <2>1 DEF TypeOK
  <2>3. Standing(at', got', peer')
    <3>1. CASE e = Responder
      <4>1. at' = [at EXCEPT ![e] = "print"]
        BY <2>1, <3>1
      <4> QED
        BY <2>1, <2>2, <4>1, Names, Move
    <3>2. CASE e # Responder
      <4>1. at' = [at EXCEPT ![e] = "printed"]
        BY <2>1, <3>2
      <4> QED
        BY <2>1, <3>2, <4>1, Names, Move
    <3> QED
      BY <3>1, <3>2
  <2> QED
    BY <2>1, <2>3 DEF TypeOK
<1> QED
  BY <1>2, <1>3

LEMMA StandingIsType ==
  ASSUME Standing(at', got', peer'), waiting' \in SUBSET Initiators,
         step' \in [Ends -> 1 .. 4],
         toResponder' \in [Initiators -> Seq(Byte)],
         toInitiator' \in [Initiators -> Seq(Byte)],
         silent' \in SUBSET Initiators, torn' \in SUBSET Initiators,
         agreed' \in SUBSET Initiators
  PROVE  TypeOK'
  BY DEF TypeOK, Standing

LEMMA StepType ==
  ASSUME TypeOK, ProgramInv, NEW e \in Ends, Step(e)
  PROVE  TypeOK'
<1>0. /\ Active(e) /\ at[e] \in Stages
      /\ step[e] \in 1 .. 4 /\ Message(e) = step[e]
      /\ e = Responder => peer \in Initiators
  BY Programs DEF Step, SendSize, SendBody, SendFails, ReadSize, ReadBody, ReadEnds,
                  Compute, Active, TypeOK
<1>1. CASE SendSize(e)
  <2>1. /\ toResponder' \in [Initiators -> Seq(Byte)]
        /\ toInitiator' \in [Initiators -> Seq(Byte)]
    BY <1>0, <1>1, WriteType, MessageType DEF SendSize
  <2>2. Standing(at', got', peer')
    <3>1. got[e] = <<>> /\ at' = [at EXCEPT ![e] = "sendBody"] /\ got' = got /\ peer' = peer
      BY <1>1 DEF SendSize, TypeOK
    <3>2. "sendBody" \in Stages
      BY DEF Stages
    <3>3. e = Responder => peer' \in Initiators /\ peer' # None
      BY <3>1, <1>0, Names
    <3> QED
      BY <3>1, <3>2, <3>3, Names, MoveOn
  <2> QED
    BY <2>1, <2>2, <1>1, StandingIsType DEF SendSize, TypeOK
<1>2. CASE SendBody(e)
  <2>1. /\ toResponder' \in [Initiators -> Seq(Byte)]
        /\ toInitiator' \in [Initiators -> Seq(Byte)]
    BY <1>0, <1>2, WriteType, MessageType DEF SendBody
  <2>2. /\ Standing(at', got', peer') /\ waiting' \in SUBSET Initiators
        /\ step' \in [Ends -> 1 .. 4]
    BY <1>0, <1>2, AdvanceType DEF SendBody
  <2>3. agreed' \in SUBSET Initiators
    <3>1. CASE e = Responder
      BY <3>1, <1>0, <1>2 DEF SendBody, TypeOK
    <3>2. CASE e # Responder
      <4>1. Message(e) # V_S
        <5>1. at[e] \in Sending /\ e \in Initiators
          BY <3>2, <1>2 DEF SendBody, Ends, Sending
        <5>2. step[e] \in {1, 3}
          BY <5>1 DEF ProgramInv
        <5> QED
          BY <5>2, <1>0
      <4> QED
        BY <4>1, <1>2 DEF SendBody, TypeOK
    <3> QED
      BY <3>1, <3>2
  <2> QED
    BY <2>1, <2>2, <2>3, <1>2, StandingIsType DEF SendBody, TypeOK
<1>3. CASE SendFails(e)
  <2>1. Standing(at', got', peer') /\ waiting' \in SUBSET Initiators
    BY <1>3, DoneType, DieType DEF SendFails
  <2> QED
    BY <2>1, <1>3, StandingIsType DEF SendFails, TypeOK, wire
<1>4. CASE ReadSize(e)
  <2>1. PICK n \in 1 .. IntSize :
          /\ read(e, n)
          /\ \/ got' = [got EXCEPT ![e] = With(e, n)]
                /\ UNCHANGED <<at, waiting, peer, torn>>
             \/ /\ got' = [got EXCEPT ![e] = <<>>]
                /\ at' = [at EXCEPT ![e] = "readBody"]
                /\ torn' = IF Len(got[e]) + n > IntSize
                           THEN torn \union {Connection(e)} ELSE torn
                /\ UNCHANGED <<waiting, peer>>
             \/ Die(e) /\ UNCHANGED torn
    BY <1>4 DEF ReadSize
  <2>2. n \in Nat
    BY Sizes
  <2>3. /\ toResponder' \in [Initiators -> Seq(Byte)]
        /\ toInitiator' \in [Initiators -> Seq(Byte)]
        /\ With(e, n) \in Seq(Byte)
    BY <2>1, <2>2, <1>0, ReadType
  <2>4. at[e] = "readSize" /\ UNCHANGED <<step, silent, agreed>>
    BY <1>4 DEF ReadSize
  <2>5. Connection(e) \in Initiators
    BY <1>0 DEF Connection, Ends
  <2>6. Standing(at', got', peer') /\ waiting' \in SUBSET Initiators /\ torn' \in SUBSET Initiators
    <3>1. CASE got' = [got EXCEPT ![e] = With(e, n)] /\ UNCHANGED <<at, waiting, peer, torn>>
      <4>1. Standing(at', got', peer')
        BY <3>1, <2>3, <2>4 DEF TypeOK, Standing
      <4> QED
        BY <3>1, <4>1 DEF TypeOK
    <3>2. CASE /\ got' = [got EXCEPT ![e] = <<>>]
               /\ at' = [at EXCEPT ![e] = "readBody"]
               /\ torn' = IF Len(got[e]) + n > IntSize
                          THEN torn \union {Connection(e)} ELSE torn
               /\ UNCHANGED <<waiting, peer>>
      <4>1. "readBody" \in Stages
        BY DEF Stages
      <4>2. e = Responder => peer' \in Initiators /\ peer' # None
        BY <3>2, <1>0, Names
      <4>3. Standing(at', got', peer')
        BY <3>2, <4>1, <4>2, Names, Move
      <4> QED
        BY <3>2, <4>3, <2>5 DEF TypeOK
    <3>3. CASE Die(e) /\ UNCHANGED torn
      BY <3>3, DieType DEF TypeOK
    <3> QED
      BY <2>1, <3>1, <3>2, <3>3
  <2> QED
    BY <2>3, <2>4, <2>6, StandingIsType DEF TypeOK
<1>5. CASE ReadBody(e)
  <2>1. PICK n \in 1 .. BodySize :
          /\ read(e, n)
          /\ got' = [got EXCEPT ![e] = With(e, n)]
          /\ at' = [at EXCEPT ![e] = IF Len(got[e]) + n < BodySize THEN @ ELSE "compute"]
    BY <1>5 DEF ReadBody
  <2>2. n \in Nat
    BY Sizes
  <2>3. /\ toResponder' \in [Initiators -> Seq(Byte)]
        /\ toInitiator' \in [Initiators -> Seq(Byte)]
        /\ With(e, n) \in Seq(Byte)
    BY <2>1, <2>2, <1>0, ReadType
  <2>4. Standing(at', got', peer')
    <3>1. PICK a \in {"readBody", "compute"} : at' = [at EXCEPT ![e] = a]
      BY <2>1, <1>5 DEF ReadBody, TypeOK
    <3>2. a \in Stages /\ a \in Reading
      BY DEF Stages, Reading
    <3>3. peer' = peer /\ (e = Responder => peer' \in Initiators /\ peer' # None)
      BY <1>0, <1>5, Names DEF ReadBody
    <3> QED
      BY <2>1, <2>3, <3>1, <3>2, <3>3, Names, Move
  <2> QED
    BY <2>3, <2>4, <1>5, StandingIsType DEF ReadBody, TypeOK
<1>6. CASE ReadEnds(e)
  <2>1. Standing(at', got', peer') /\ waiting' \in SUBSET Initiators
    <3>1. CASE Done(e)
      BY <3>1, DoneType
    <3>2. CASE /\ at' = [at EXCEPT ![e] = "spinning"]
               /\ got' = [got EXCEPT ![e] = <<>>]
               /\ UNCHANGED <<waiting, peer>>
      <4>1. "spinning" \in Stages
        BY DEF Stages
      <4>2. e = Responder => peer' \in Initiators /\ peer' # None
        BY <3>2, <1>0, Names
      <4>3. Standing(at', got', peer')
        BY <3>2, <4>1, <4>2, Names, Move
      <4> QED
        BY <3>2, <4>3 DEF TypeOK
    <3> QED
      BY <3>1, <3>2, <1>6 DEF ReadEnds
  <2> QED
    BY <2>1, <1>6, StandingIsType DEF ReadEnds, TypeOK, wire
<1>7. CASE Compute(e)
  <2>1. /\ Standing(at', got', peer') /\ waiting' \in SUBSET Initiators
        /\ step' \in [Ends -> 1 .. 4]
    <3>1. CASE Advance(e)
      BY <3>1, <1>0, AdvanceType
    <3>2. CASE Done(e) /\ UNCHANGED step
      BY <3>2, DoneType DEF TypeOK
    <3> QED
      BY <3>1, <3>2, <1>7 DEF Compute
  <2> QED
    BY <2>1, <1>7, StandingIsType DEF Compute, TypeOK, wire
<1> QED
  BY <1>1, <1>2, <1>3, <1>4, <1>5, <1>6, <1>7 DEF Step

LEMMA TypeInductive ==
  ASSUME TypeOK, ProgramInv, [Next]_vars
  PROVE  TypeOK'
<1>1. CASE PrintSK
  <2>1. at' = [at EXCEPT ![Responder] = "accept"] /\ got' = got /\ peer' = None
    BY <1>1 DEF PrintSK
  <2>2. got[Responder] = <<>>
    BY <1>1, Names DEF PrintSK, TypeOK
  <2>3. Standing(at', got', peer')
    BY <2>1, <2>2, Names, MoveOn
  <2> QED
    BY <2>3, <1>1, StandingIsType DEF PrintSK, TypeOK, wire
<1>2. ASSUME NEW e \in Ends, Step(e) PROVE TypeOK'
  BY <1>2, StepType
<1>3. ASSUME NEW e \in Ends, Kill(e) PROVE TypeOK'
  <2>1. Standing(at', got', peer') /\ waiting' \in SUBSET Initiators
    BY <1>3, DieType DEF Kill
  <2> QED
    BY <2>1, <1>3, StandingIsType DEF Kill, TypeOK, wire
<1>4. ASSUME NEW i \in Initiators, Connect(i) PROVE TypeOK'
  <2>1. Begin(i, 1) = "sendSize"
    <3>1. 1 \in 1 .. 4 /\ 1 \in {X, V_U}
      OBVIOUS
    <3> QED
      BY <3>1, InitiatorProgram, Zenon
  <2>2. i \in Ends /\ i # Responder /\ Responder \in Ends
    BY HandshakeAssumption DEF Ends
  <2>3. Standing(at', got', peer') /\ waiting' \in SUBSET Initiators
    <3>1. PICK a \in {"sendSize", "exited"} : at' = [at EXCEPT ![i] = a]
      BY <1>4, <2>1 DEF Connect
    <3>2. a \in Places
      BY DEF Places, Stages
    <3>3. got[i] = <<>> /\ got' = got /\ peer' = peer
      BY <1>4, <2>2 DEF Connect, TypeOK
    <3>4. waiting' \in SUBSET Initiators
      BY <1>4 DEF Connect, TypeOK
    <3> QED
      BY <2>2, <3>1, <3>2, <3>3, <3>4, MoveOn
  <2> QED
    BY <2>3, <1>4, StandingIsType DEF Connect, TypeOK, wire
<1>5. ASSUME NEW i \in Initiators, Accept(i) PROVE TypeOK'
  <2>1. Begin(Responder, 1) = "readSize"
    <3>1. 1 \in 1 .. 4 /\ 1 \in {X, V_U}
      OBVIOUS
    <3> QED
      BY <3>1, ResponderProgram, Zenon
  <2>2. i # None /\ Responder \in Ends
    BY HandshakeAssumption DEF Ends
  <2>3. /\ Standing(at', got', peer') /\ waiting' \in SUBSET Initiators
        /\ step' \in [Ends -> 1 .. 4]
    <3>1. got[Responder] = <<>> /\ got' = got /\ waiting' \in SUBSET Initiators
      BY <1>5, <2>2 DEF Accept, TypeOK
    <3>2. CASE /\ at' = [at EXCEPT ![Responder] = Begin(Responder, 1)]
               /\ step' = [step EXCEPT ![Responder] = 1]
               /\ peer' = i
      <4>1. at' = [at EXCEPT ![Responder] = "readSize"]
        BY <3>2, <2>1
      <4>2. "readSize" \in Stages
        BY DEF Stages
      <4>3. Standing(at', got', peer')
        BY <3>1, <3>2, <4>1, <4>2, <2>2, Names, MoveOn
      <4>4. step' \in [Ends -> 1 .. 4]
        <5>1. 1 \in 1 .. 4
          OBVIOUS
        <5> QED
          BY <5>1, <3>2 DEF TypeOK
      <4> QED
        BY <3>1, <4>3, <4>4
    <3>3. CASE UNCHANGED <<at, step, peer>>
      BY <3>1, <3>3 DEF TypeOK, Standing
    <3> QED
      BY <1>5, <3>2, <3>3 DEF Accept
  <2> QED
    BY <2>3, <1>5, StandingIsType DEF Accept, TypeOK, wire
<1>6. ASSUME NEW i \in Initiators, FallSilent(i) PROVE TypeOK'
  BY <1>6 DEF FallSilent, TypeOK, wire
<1>7. CASE UNCHANGED vars
  BY <1>7 DEF TypeOK, vars
<1> QED
  BY <1>1, <1>2, <1>3, <1>4, <1>5, <1>6, <1>7 DEF Next

-----------------------------------------------------------------------------
(* What a step leaves alone                                                *)

SameAt(e) == at'[e] = at[e] /\ step'[e] = step[e] /\ got'[e] = got[e]

SameWire(j) == toResponder'[j] = toResponder[j] /\ toInitiator'[j] = toInitiator[j]

SameLists(j) == (j \in waiting' => j \in waiting) /\ (j \in agreed' <=> j \in agreed)

SameLocal(j) == SameAt(j) /\ SameWire(j) /\ SameLists(j)

SameResponder == SameAt(Responder) /\ peer' = peer

\* A connection whose ends do not move keeps its invariant, and so does one that
\* the responder does not serve, whatever the responder does.
LEMMA Frame ==
  ASSUME NEW j \in Initiators, ConnectionInv(j), SameLocal(j),
         SameResponder \/ (peer # j /\ peer' # j)
  PROVE  ConnectionInv(j)'
<1>1. InitiatorInv(j)'
  <2>1. CASE at[j] \in Reading
    <3>1. PICK c \in 0 .. Whole : InitiatorHears(j, c)
      BY <2>1 DEF ConnectionInv, InitiatorInv
    <3>2. InitiatorHears(j, c)'
      BY <3>1 DEF InitiatorHears, Cut, Serves, Sent, SameLocal, SameAt, SameWire, SameLists,
                  SameResponder
    <3> QED
      BY <2>1, <3>2 DEF InitiatorInv, SameLocal, SameAt, Reading, Sending
  <2>2. CASE at[j] \notin Reading
    BY <2>2 DEF ConnectionInv, InitiatorInv, SameLocal, SameAt, SameWire
  <2> QED
    BY <2>1, <2>2
<1>2. WaitingInv(j)'
  BY DEF ConnectionInv, WaitingInv, Untouched, Sent, SameLocal, SameAt, SameWire,
         SameLists, SameResponder
<1>3. TurnInv(j)'
  <2>1. CASE peer' # j
    BY <2>1 DEF TurnInv
  <2>2. CASE peer' = j
    <3>1. peer = j /\ SameAt(Responder) /\ SameAt(j) /\ SameWire(j)
      BY <2>2 DEF SameResponder, SameLocal
    <3>2. CASE at[Responder] \in Reading
      <4>1. PICK c \in 0 .. Whole : ResponderHears(j, c)
        BY <3>1, <3>2 DEF ConnectionInv, TurnInv
      <4>2. ResponderHears(j, c)'
        BY <4>1, <3>1 DEF ResponderHears, Cut, Sent, SameAt, SameWire
      <4>3. /\ (at[j] \in Sending =>
                  step[j] = step[Responder] /\ at[Responder] # "compute")'
            /\ (at[j] \in Reading =>
                  step[j] = step[Responder] - 1
                    \/ (step[j] = step[Responder] + 1 /\ Untouched(j)))'
            /\ at'[j] \notin {"spinning", "printed"}
            /\ at'[Responder] \notin Sending
        BY <3>1, <3>2 DEF ConnectionInv, TurnInv, Untouched, SameAt, SameWire, Reading, Sending
      <4> QED
        BY <4>2, <4>3 DEF TurnInv
    <3>3. CASE at[Responder] \notin Reading
      BY <3>1, <3>3 DEF ConnectionInv, TurnInv, SameAt, SameWire
    <3> QED
      BY <3>2, <3>3
  <2> QED
    BY <2>1, <2>2
<1>4. AgreedInv(j)'
  BY DEF ConnectionInv, AgreedInv, SameLocal, SameAt, SameLists, SameResponder
<1> QED
  BY <1>1, <1>2, <1>3, <1>4 DEF ConnectionInv

Core == ProgramInv /\ DeadInv /\ \A i \in Initiators : ConnectionInv(i)

\* A step of initiator i.
LEMMA InitiatorMoves ==
  ASSUME Core, NEW i \in Initiators, SameResponder,
         \A j \in Initiators \ {i} : SameLocal(j),
         waiting' = {} \/ at[Responder] # "dead",
         at'[i] \in Sending \union {"start"} => step'[i] \in {X, V_U},
         at'[i] \in Reading \union {"spinning"} => step'[i] \in {Y, V_S},
         at'[i] = "start" => step'[i] = X,
         at'[i] = "spinning" => at[Responder] = "dead",
         ConnectionInv(i)'
  PROVE  Core'
<1>1. ASSUME NEW j \in Initiators PROVE ConnectionInv(j)'
  BY Frame DEF Core
<1>2. ProgramInv'
  BY DEF Core, ProgramInv, SameResponder, SameLocal, SameAt
<1>3. DeadInv'
  BY DEF Core, DeadInv, SameResponder, SameLocal, SameAt
<1> QED
  BY <1>1, <1>2, <1>3 DEF Core

\* A step of the responder, which serves p.
LEMMA ResponderMoves ==
  ASSUME Core, NEW p \in Initiators, peer = p, peer' \in {p, None},
         at[Responder] # "dead",
         \A j \in Initiators \ {p} : SameLocal(j),
         SameAt(p),
         at'[Responder] = "dead" => waiting' = {},
         at'[Responder] \in Reading => step'[Responder] \in {X, V_U},
         at'[Responder] \in Sending => step'[Responder] \in {Y, V_S},
         ConnectionInv(p)'
  PROVE  Core'
<1>1. ASSUME NEW j \in Initiators \ {p} PROVE ConnectionInv(j)'
  <2>1. peer # j /\ peer' # j
    BY Names
  <2> QED
    BY <2>1, Frame DEF Core
<1>2. ProgramInv'
  BY DEF Core, ProgramInv, SameLocal, SameAt
<1>3. DeadInv'
  BY DEF Core, DeadInv, SameLocal, SameAt
<1> QED
  BY <1>1, <1>2, <1>3 DEF Core

-----------------------------------------------------------------------------
(* Steps of an initiator                                                   *)

OnlyInitiator(i) == SameResponder /\ \A j \in Initiators \ {i} : SameLocal(j)

LEMMA Numbers ==
  /\ 1 \in 1 .. 4 /\ 2 \in 1 .. 4 /\ 3 \in 1 .. 4 /\ 4 \in 1 .. 4
  /\ 1 + 1 = 2 /\ 2 + 1 = 3 /\ 3 + 1 = 4
  /\ 1 # 4 /\ 2 # 4 /\ 3 # 4
  OBVIOUS

\* What the program and the size of a message say of a step.
LEMMA InitiatorSteps ==
  ASSUME TypeOK, ProgramInv, NEW i \in Initiators
  PROVE  /\ i # Responder /\ i \in Ends
         /\ step[i] \in 1 .. 4 /\ Message(i) = step[i]
         /\ at[i] \in Sending => step[i] \in {1, 3}
         /\ at[i] \in Reading => step[i] \in {2, 4}
  BY InitiatorProgram, Programs DEF ProgramInv, Ends

\* An initiator goes on with its program.
LEMMA InitiatorAdvances ==
  ASSUME TypeOK, NEW i \in Initiators, Advance(i)
  PROVE  /\ got' = [got EXCEPT ![i] = <<>>] /\ peer' = peer /\ waiting' = waiting
         /\ step[i] = 1 => step' = [step EXCEPT ![i] = 2] /\ at' = [at EXCEPT ![i] = "readSize"]
         /\ step[i] = 2 => step' = [step EXCEPT ![i] = 3] /\ at' = [at EXCEPT ![i] = "sendSize"]
         /\ step[i] = 3 => step' = [step EXCEPT ![i] = 4] /\ at' = [at EXCEPT ![i] = "readSize"]
         /\ step[i] = 4 => step' = step /\ at' = [at EXCEPT ![i] = "printed"]
<1>1. i # Responder /\ Len(Program(i)) = 4
  BY InitiatorProgram
<1>2. \A n \in 1 .. 4 : Begin(i, n) = IF n \in {X, V_U} THEN "sendSize" ELSE "readSize"
  BY InitiatorProgram
<1>3. Begin(i, 2) = "readSize" /\ Begin(i, 3) = "sendSize" /\ Begin(i, 4) = "readSize"
  <2>1. 2 \in 1 .. 4 /\ 3 \in 1 .. 4 /\ 4 \in 1 .. 4
    OBVIOUS
  <2>2. 2 \notin {X, V_U} /\ 3 \in {X, V_U} /\ 4 \notin {X, V_U}
    OBVIOUS
  <2> QED
    BY <1>2, <2>1, <2>2, Zenon
<1>4. got' = [got EXCEPT ![i] = <<>>] /\ peer' = peer /\ waiting' = waiting
  BY DEF Advance
<1>5. ASSUME NEW n \in 1 .. 3, step[i] = n
      PROVE  step' = [step EXCEPT ![i] = n + 1] /\ at' = [at EXCEPT ![i] = Begin(i, n + 1)]
  BY <1>1, <1>5 DEF Advance
<1>6. step[i] = 1 => step' = [step EXCEPT ![i] = 2] /\ at' = [at EXCEPT ![i] = Begin(i, 2)]
  BY <1>5, 1 \in 1 .. 3, 1 + 1 = 2
<1>7. step[i] = 2 => step' = [step EXCEPT ![i] = 3] /\ at' = [at EXCEPT ![i] = Begin(i, 3)]
  BY <1>5, 2 \in 1 .. 3, 2 + 1 = 3
<1>8. step[i] = 3 => step' = [step EXCEPT ![i] = 4] /\ at' = [at EXCEPT ![i] = Begin(i, 4)]
  BY <1>5, 3 \in 1 .. 3, 3 + 1 = 4
<1>9. step[i] = 4 => step' = step /\ at' = [at EXCEPT ![i] = "printed"]
  BY <1>1 DEF Advance
<1> QED
  BY <1>3, <1>4, <1>6, <1>7, <1>8, <1>9

\* What the actions of an initiator share: it moves alone.
LEMMA InitiatorAlone ==
  ASSUME TypeOK, NEW i \in Initiators,
         at' = [at EXCEPT ![i] = at'[i]],
         got' = [got EXCEPT ![i] = got'[i]],
         step' = [step EXCEPT ![i] = step'[i]],
         toResponder' = [toResponder EXCEPT ![i] = toResponder'[i]],
         toInitiator' = [toInitiator EXCEPT ![i] = toInitiator'[i]],
         waiting' \in {waiting, waiting \union {i}}, peer' = peer, agreed' = agreed
  PROVE  OnlyInitiator(i)
<1>1. i # Responder /\ i \in Ends /\ Responder \in Ends /\ Initiators \subseteq Ends
  BY Names
<1>2. ASSUME NEW e \in Ends \ {i} PROVE SameAt(e)
  BY <1>2 DEF SameAt, TypeOK
<1>3. ASSUME NEW j \in Initiators \ {i} PROVE SameWire(j) /\ SameLists(j)
  BY <1>3 DEF SameWire, SameLists, TypeOK
<1> QED
  BY <1>1, <1>2, <1>3 DEF OnlyInitiator, SameResponder, SameLocal

\* It ends: whatever is on its way to the responder stays there.
LEMMA InitiatorExits ==
  ASSUME IInv, NEW i \in Initiators, OnlyInitiator(i), at'[i] = "exited",
         toResponder'[i] = toResponder[i], waiting' = waiting, agreed' = agreed
  PROVE  Core'
<1>1. ConnectionInv(i) /\ SameAt(Responder) /\ peer' = peer
  BY DEF IInv, OnlyInitiator, SameResponder
<1>2. at'[i] \notin Sending \union Reading \union {"start", "spinning", "printed"}
  BY DEF Sending, Reading
<1>3. InitiatorInv(i)'
  BY <1>2 DEF InitiatorInv
<1>4. WaitingInv(i)'
  BY <1>1, <1>2 DEF ConnectionInv, WaitingInv, Sent
<1>5. TurnInv(i)'
  <2>1. CASE peer = i /\ at[Responder] \in Reading
    <3>1. PICK c \in 0 .. Whole : ResponderHears(i, c)
      BY <1>1, <2>1 DEF ConnectionInv, TurnInv
    <3>2. ResponderHears(i, c)'
      BY <3>1, <1>1, <1>2 DEF ResponderHears, Cut, Sent, SameAt
    <3>3. at'[Responder] \notin Sending
      BY <2>1, <1>1 DEF SameAt, Reading, Sending
    <3> QED
      BY <3>2, <3>3, <1>2 DEF TurnInv
  <2>2. CASE ~ (peer = i /\ at[Responder] \in Reading)
    BY <2>2, <1>1, <1>2 DEF ConnectionInv, TurnInv, SameAt
  <2> QED
    BY <2>1, <2>2
<1>6. AgreedInv(i)'
  BY <1>1, <1>2 DEF ConnectionInv, AgreedInv, SameAt
<1>7. waiting' = {} \/ at[Responder] # "dead"
  BY DEF IInv, DeadInv
<1>8. ConnectionInv(i)'
  BY <1>3, <1>4, <1>5, <1>6 DEF ConnectionInv
<1> QED
  BY <1>1, <1>2, <1>7, <1>8, InitiatorMoves DEF IInv, Core, OnlyInitiator

\* The size of a message, and then its body, are put behind what was sent of it.
LEMMA SendOn ==
  ASSUME NEW m \in 1 .. 4
  PROVE  /\ Part(m, 0, 0) = <<>> /\ <<>> = Part(m, IntSize, IntSize) /\ <<>> = Part(m, Whole, Whole)
         /\ Part(m, 0, 0) \o SizeOf(m) = Part(m, 0, IntSize)
         /\ Part(m, 0, IntSize) \o BodyOf(m) = Part(m, 0, Whole)
<1>1. /\ 0 \in Nat /\ IntSize \in Nat /\ Whole \in Nat
      /\ 0 <= 0 /\ 0 <= IntSize /\ IntSize <= Whole /\ Whole <= Whole /\ 0 <= Whole
      /\ IntSize <= IntSize
  BY Sizes
<1>2. Part(m, 0, 0) = <<>> /\ Part(m, IntSize, IntSize) = <<>> /\ Part(m, Whole, Whole) = <<>>
  BY <1>1, PartEmpty
<1>3. Part(m, 0, 0) \o Part(m, 0, IntSize) = Part(m, 0, IntSize)
  BY <1>1, PartConcat
<1>4. Part(m, 0, IntSize) \o Part(m, IntSize, Whole) = Part(m, 0, Whole)
  BY <1>1, PartConcat
<1> QED
  BY <1>2, <1>3, <1>4, PartsOfMessage

\* A reader that was cut off before the first byte gets the size of the message.
LEMMA SizeArrives ==
  ASSUME NEW l, NEW g, NEW s, NEW m \in 1 .. 4, Reads(l, g, s, m, 0)
  PROVE  /\ Reads(l, g, s \o SizeOf(m), m, IntSize)
         /\ l \notin {"readBody", "compute"}
<1>1. PICK a, b \in 0 .. Whole : Window(l, g, s, m, a, b, 0)
  BY DEF Reads
<1>2. a = 0 /\ b = 0
  <2>1. Whole \in Nat /\ a <= b /\ b <= 0
    BY <1>1, Sizes DEF Window
  <2> QED
    BY <2>1
<1>3. /\ s = Part(m, 0, 0) /\ g = Part(m, 0, 0)
      /\ l = "readBody" => 0 >= IntSize
      /\ l = "compute" => 0 = IntSize
  BY <1>1, <1>2 DEF Window
<1>4. l \notin {"readBody", "compute"}
  <2>1. ~ (0 >= IntSize) /\ 0 # IntSize
    BY Sizes
  <2> QED
    BY <1>3, <2>1
<1>5. s \o SizeOf(m) = Part(m, 0, IntSize)
  <2>1. s \o SizeOf(m) = Part(m, 0, 0) \o SizeOf(m)
    BY <1>3
  <2> QED
    BY <2>1, SendOn, Zenon
<1>6. 0 <= IntSize /\ 0 <= 0 /\ 0 < IntSize /\ 0 \in 0 .. Whole
  BY Sizes
<1>7. Window(l, g, s \o SizeOf(m), m, 0, 0, IntSize)
  BY <1>3, <1>4, <1>5, <1>6 DEF Window
<1> QED
  BY <1>4, <1>6, <1>7 DEF Reads

\* The body follows the part of the size that has not been read.
LEMMA BodyArrives ==
  ASSUME NEW l, NEW g, NEW s, NEW m \in 1 .. 4, Reads(l, g, s, m, IntSize)
  PROVE  Reads(l, g, s \o BodyOf(m), m, Whole)
<1>1. PICK a, b \in 0 .. Whole : Window(l, g, s, m, a, b, IntSize)
  BY DEF Reads
<1>2. b \in Nat /\ b <= IntSize /\ IntSize \in Nat /\ Whole \in Nat /\ IntSize <= Whole
      /\ Whole <= Whole
  <2>1. Whole \in Nat /\ IntSize \in Nat /\ b <= IntSize /\ IntSize < Whole
    BY <1>1, Sizes DEF Window
  <2> QED
    BY <2>1
<1>3. Part(m, b, IntSize) \o Part(m, IntSize, Whole) = Part(m, b, Whole)
  BY <1>2, PartConcat
<1>4. s \o BodyOf(m) = Part(m, b, Whole)
  <2>1. s = Part(m, b, IntSize)
    BY <1>1 DEF Window
  <2> QED
    BY <1>3, <2>1, PartsOfMessage
<1>5. b <= Whole
  BY <1>2
<1>6. Window(l, g, s \o BodyOf(m), m, a, b, Whole)
  BY <1>1, <1>4, <1>5 DEF Window
<1> QED
  BY <1>6 DEF Reads

\* The first read of a message finds nothing of it yet.
LEMMA NothingRead ==
  ASSUME NEW m \in 1 .. 4
  PROVE  Reads("readSize", <<>>, <<>>, m, 0)
<1>1. 0 <= 0 /\ 0 < IntSize /\ 0 \in 0 .. Whole
  BY Sizes
<1>2. Window("readSize", <<>>, <<>>, m, 0, 0, 0)
  BY <1>1, SendOn DEF Window
<1> QED
  BY <1>1, <1>2 DEF Reads

\* Its peer has ended while it was reading.
LEMMA InitiatorSpins ==
  ASSUME IInv, NEW i \in Initiators, OnlyInitiator(i),
         at[i] \in Reading, at'[i] = "spinning", step'[i] = step[i],
         at[Responder] = "dead", waiting' = waiting, agreed' = agreed
  PROVE  Core'
<1>1. ConnectionInv(i) /\ SameAt(Responder) /\ peer' = peer
  BY DEF IInv, OnlyInitiator, SameResponder
<1>2. waiting = {} /\ peer # i
  BY Names DEF IInv, DeadInv, TypeOK
<1>3. at'[i] \notin Sending \union Reading \union {"start", "printed"}
  BY DEF Sending, Reading
<1>4. InitiatorInv(i)' /\ WaitingInv(i)' /\ TurnInv(i)' /\ AgreedInv(i)'
  <2>1. InitiatorInv(i)'
    BY <1>3 DEF InitiatorInv
  <2>2. WaitingInv(i)'
    BY <1>2, <1>3 DEF WaitingInv
  <2>3. TurnInv(i)'
    BY <1>1, <1>2 DEF TurnInv
  <2>4. AgreedInv(i)'
    BY <1>1, <1>2, <1>3 DEF AgreedInv
  <2> QED
    BY <2>1, <2>2, <2>3, <2>4
<1>5. step[i] \in {Y, V_S}
  BY DEF IInv, ProgramInv
<1>6. waiting' = {} /\ ConnectionInv(i)'
  BY <1>2, <1>4 DEF ConnectionInv
<1> QED
  BY <1>1, <1>3, <1>5, <1>6, InitiatorMoves DEF IInv, Core, OnlyInitiator

LEMMA ConnectKeeps ==
  ASSUME IInv, NEW i \in Initiators, Connect(i)
  PROVE  Core'
<1>0. /\ TypeOK /\ ConnectionInv(i) /\ at[i] = "start"
      /\ got[i] = <<>> /\ step[i] = X /\ i \in Ends
      /\ toInitiator[i] = <<>> /\ toResponder[i] = <<>>
      /\ peer # i /\ i \notin agreed /\ i \notin waiting
  BY Names DEF IInv, Connect, TypeOK, ProgramInv, ConnectionInv, InitiatorInv, WaitingInv, AgreedInv
<1>1. /\ got' = got /\ step' = step /\ peer' = peer /\ agreed' = agreed
      /\ toResponder' = toResponder /\ toInitiator' = toInitiator
  BY DEF Connect, wire
<1>2. OnlyInitiator(i)
  <2>1. got' = [got EXCEPT ![i] = got'[i]] /\ step' = [step EXCEPT ![i] = step'[i]]
    BY <1>0, <1>1 DEF TypeOK
  <2>2. /\ toResponder' = [toResponder EXCEPT ![i] = toResponder'[i]]
        /\ toInitiator' = [toInitiator EXCEPT ![i] = toInitiator'[i]]
    BY <1>0, <1>1 DEF TypeOK
  <2>3. at' = [at EXCEPT ![i] = at'[i]]
    BY <1>0 DEF Connect, TypeOK
  <2>4. waiting' \in {waiting, waiting \union {i}}
    BY DEF Connect
  <2> QED
    BY <1>0, <1>1, <2>1, <2>2, <2>3, <2>4, InitiatorAlone
<1>3. CASE at' = [at EXCEPT ![i] = "exited"] /\ UNCHANGED waiting
  <2>1. at'[i] = "exited" /\ toResponder'[i] = toResponder[i] /\ waiting' = waiting
    BY <1>0, <1>1, <1>3 DEF TypeOK
  <2> QED
    BY <2>1, <1>1, <1>2, InitiatorExits
<1>4. CASE /\ at[Responder] # "dead"
           /\ at' = [at EXCEPT ![i] = Begin(i, 1)]
           /\ waiting' = waiting \union {i}
  <2>0. Begin(i, 1) = "sendSize"
    <3>1. 1 \in 1 .. 4 /\ 1 \in {X, V_U}
      OBVIOUS
    <3> QED
      BY <3>1, InitiatorProgram, Zenon
  <2>1. /\ at'[i] = "sendSize" /\ step'[i] = X
        /\ toResponder'[i] = <<>> /\ toInitiator'[i] = <<>>
        /\ agreed' = agreed /\ peer' = peer
    BY <1>0, <1>1, <1>4, <2>0 DEF TypeOK
  <2>2. at'[i] \in Sending /\ at'[i] \notin Reading \union {"start", "printed", "spinning", "sendBody"}
    BY <2>1 DEF Sending, Reading
  <2>3. InitiatorInv(i)'
    BY <2>1, <2>2 DEF InitiatorInv
  <2>4. WaitingInv(i)'
    <3>1. toResponder'[i] = Part(X, 0, 0)
      <4>1. 1 \in 1 .. 4
        OBVIOUS
      <4> QED
        BY <2>1, <4>1, SendOn
    <3>2. Sent(i, 0)'
      BY <2>2 DEF Sent
    <3> QED
      BY <3>1, <3>2, <2>1, <2>2, <1>0 DEF WaitingInv
  <2>5. TurnInv(i)'
    BY <2>1, <1>0 DEF TurnInv
  <2>6. AgreedInv(i)'
    BY <2>1, <2>2, <1>0 DEF AgreedInv
  <2>7. ConnectionInv(i)'
    BY <2>3, <2>4, <2>5, <2>6 DEF ConnectionInv
  <2> QED
    BY <1>2, <1>4, <2>1, <2>2, <2>7, InitiatorMoves DEF IInv, Core, OnlyInitiator
<1> QED
  BY <1>3, <1>4 DEF Connect

LEMMA InitiatorSendSizeKeeps ==
  ASSUME IInv, NEW i \in Initiators, SendSize(i)
  PROVE  Core'
<1>0. /\ TypeOK /\ ProgramInv /\ ConnectionInv(i) /\ i \in Ends /\ i # Responder
      /\ at[i] = "sendSize" /\ at[i] \in Sending /\ at[i] \notin Reading
      /\ step[i] \in {1, 3} /\ step[i] \in 1 .. 4 /\ Message(i) = step[i]
  BY InitiatorSteps DEF IInv, SendSize, Sending, Reading
<1>1. /\ step' = step /\ got' = got /\ waiting' = waiting /\ peer' = peer /\ agreed' = agreed
      /\ at' = [at EXCEPT ![i] = "sendBody"]
      /\ toInitiator' = toInitiator
      /\ toResponder' = [toResponder EXCEPT ![i] = toResponder[i] \o SizeOf(step[i])]
  BY <1>0 DEF SendSize, write
<1>2. /\ at'[i] = "sendBody" /\ toResponder'[i] = toResponder[i] \o SizeOf(step[i])
      /\ step'[i] = step[i] /\ got'[i] = got[i] /\ toInitiator'[i] = toInitiator[i]
  BY <1>0, <1>1 DEF TypeOK
<1>3. OnlyInitiator(i)
  <2>1. /\ at' = [at EXCEPT ![i] = at'[i]]
        /\ toResponder' = [toResponder EXCEPT ![i] = toResponder'[i]]
    BY <1>1, <1>2
  <2>2. /\ got' = [got EXCEPT ![i] = got'[i]] /\ step' = [step EXCEPT ![i] = step'[i]]
        /\ toInitiator' = [toInitiator EXCEPT ![i] = toInitiator'[i]]
    BY <1>0, <1>1 DEF TypeOK
  <2> QED
    BY <1>0, <1>1, <2>1, <2>2, InitiatorAlone
<1>4. at'[i] \in Sending /\ at'[i] \notin Reading \union {"start", "printed", "spinning", "sendSize"}
  BY <1>2 DEF Sending, Reading
<1>5. InitiatorInv(i)'
  BY <1>0, <1>2, <1>4 DEF ConnectionInv, InitiatorInv
<1>6. WaitingInv(i)'
  <2>1. CASE i \in waiting
    <3>1. peer # i /\ step[i] = X /\ toResponder[i] = Part(X, 0, 0)
      BY <2>1, <1>0 DEF ConnectionInv, WaitingInv, Sent
    <3>2. toResponder'[i] = Part(X, 0, IntSize)
      <4>1. 1 \in 1 .. 4
        OBVIOUS
      <4>2. Part(1, 0, 0) \o SizeOf(1) = Part(1, 0, IntSize)
        BY <4>1, SendOn
      <4> QED
        BY <3>1, <1>2, <4>2
    <3>3. Sent(i, IntSize)'
      BY <1>4 DEF Sent
    <3> QED
      BY <3>1, <3>2, <3>3, <1>1, <1>2, <1>4 DEF WaitingInv
  <2>2. CASE i \notin waiting
    BY <2>2, <1>1, <1>4 DEF WaitingInv
  <2> QED
    BY <2>1, <2>2
<1>7. TurnInv(i)'
  <2>1. CASE peer = i
    <3>1. at[Responder] \notin Sending /\ SameAt(Responder)
      BY <2>1, <1>0, <1>3 DEF ConnectionInv, TurnInv, OnlyInitiator, SameResponder
    <3>2. CASE at[Responder] \in Reading
      <4>1. step[i] = step[Responder] /\ at[Responder] # "compute"
        BY <2>1, <3>2, <1>0 DEF ConnectionInv, TurnInv
      <4>2. PICK c \in 0 .. Whole : ResponderHears(i, c)
        BY <2>1, <3>2, <1>0 DEF ConnectionInv, TurnInv
      <4>3. c = 0
        BY <4>2, <1>0 DEF ResponderHears, Sent
      <4>4. Reads(at[Responder], got[Responder], toResponder'[i], step[i], IntSize)
        <5>1. Reads(at[Responder], got[Responder], toResponder[i], step[i], 0)
          BY <4>1, <4>2, <4>3 DEF ResponderHears, Cut
        <5>2. step[i] \in 1 .. 4
          BY <1>0
        <5>3. Reads(at[Responder], got[Responder], toResponder[i] \o SizeOf(step[i]),
                    step[i], IntSize)
          BY <5>1, <5>2, SizeArrives
        <5> QED
          BY <5>3, <1>2
      <4>5. ResponderHears(i, IntSize)'
        BY <4>1, <4>4, <3>1, <1>2, <1>4 DEF ResponderHears, SameAt, Cut, Sent
      <4>6. IntSize \in 0 .. Whole
        BY Sizes
      <4>7. /\ step'[i] = step'[Responder] /\ at'[Responder] # "compute"
            /\ at'[Responder] \notin Sending
        BY <4>1, <3>1, <1>2 DEF SameAt
      <4> QED
        BY <4>5, <4>6, <4>7, <1>4 DEF TurnInv
    <3>3. CASE at[Responder] \notin Reading
      BY <3>1, <3>3 DEF TurnInv, SameAt
    <3> QED
      BY <3>2, <3>3
  <2>2. CASE peer # i
    BY <2>2, <1>1 DEF TurnInv
  <2> QED
    BY <2>1, <2>2
<1>8. AgreedInv(i)'
  BY <1>0, <1>1, <1>3, <1>4 DEF ConnectionInv, AgreedInv, OnlyInitiator, SameResponder, SameAt
<1>9. ConnectionInv(i)'
  BY <1>5, <1>6, <1>7, <1>8 DEF ConnectionInv
<1> QED
  BY <1>0, <1>1, <1>2, <1>3, <1>4, <1>9, InitiatorMoves DEF IInv, Core, OnlyInitiator, DeadInv

LEMMA InitiatorSendBodyKeeps ==
  ASSUME IInv, NEW i \in Initiators, SendBody(i)
  PROVE  Core'
<1>0. /\ TypeOK /\ ProgramInv /\ ConnectionInv(i) /\ i \in Ends /\ i # Responder
      /\ at[i] = "sendBody" /\ at[i] \in Sending /\ at[i] \notin Reading
      /\ step[i] \in {1, 3} /\ step[i] \in 1 .. 4 /\ Message(i) = step[i] /\ Advance(i)
  BY InitiatorSteps DEF IInv, SendBody, Sending, Reading
<1>1. /\ got' = [got EXCEPT ![i] = <<>>] /\ waiting' = waiting /\ peer' = peer
      /\ step' = [step EXCEPT ![i] = step[i] + 1] /\ at' = [at EXCEPT ![i] = "readSize"]
  <2>1. /\ got' = [got EXCEPT ![i] = <<>>] /\ peer' = peer /\ waiting' = waiting
        /\ step[i] = 1 => step' = [step EXCEPT ![i] = 2] /\ at' = [at EXCEPT ![i] = "readSize"]
        /\ step[i] = 3 => step' = [step EXCEPT ![i] = 4] /\ at' = [at EXCEPT ![i] = "readSize"]
    BY <1>0, InitiatorAdvances
  <2>2. CASE step[i] = 1
    BY <2>1, <2>2, Numbers
  <2>3. CASE step[i] = 3
    BY <2>1, <2>3, Numbers
  <2>4. step[i] = 1 \/ step[i] = 3
    BY <1>0, Zenon
  <2> QED
    BY <2>2, <2>3, <2>4, Zenon
<1>2. /\ agreed' = agreed /\ toInitiator' = toInitiator
      /\ toResponder' = [toResponder EXCEPT ![i] = toResponder[i] \o BodyOf(step[i])]
  <2>1. Message(i) # V_S
    <3>1. step[i] # 4 /\ Message(i) = step[i]
      BY <1>0, Numbers, Zenon
    <3> QED
      BY <3>1
  <2>2. agreed' = agreed
    BY <2>1 DEF SendBody
  <2>3. /\ toInitiator' = toInitiator
        /\ toResponder' = [toResponder EXCEPT ![i] = toResponder[i] \o BodyOf(Message(i))]
    BY <1>0 DEF SendBody, write
  <2> QED
    BY <1>0, <2>2, <2>3
<1>3. /\ at'[i] = "readSize" /\ toResponder'[i] = toResponder[i] \o BodyOf(step[i])
      /\ step'[i] = step[i] + 1 /\ got'[i] = <<>> /\ toInitiator'[i] = toInitiator[i]
      /\ toInitiator[i] = <<>>
  <2>1. toInitiator[i] = <<>>
    BY <1>0 DEF ConnectionInv, InitiatorInv
  <2>2. at'[i] = "readSize" /\ step'[i] = step[i] + 1 /\ got'[i] = <<>>
    BY <1>0, <1>1 DEF TypeOK
  <2>3. /\ toResponder'[i] = toResponder[i] \o BodyOf(step[i])
        /\ toInitiator'[i] = toInitiator[i]
    BY <1>0, <1>2 DEF TypeOK
  <2> QED
    BY <2>1, <2>2, <2>3
<1>4. OnlyInitiator(i)
  <2>1. /\ at' = [at EXCEPT ![i] = at'[i]] /\ step' = [step EXCEPT ![i] = step'[i]]
        /\ got' = [got EXCEPT ![i] = got'[i]]
        /\ toResponder' = [toResponder EXCEPT ![i] = toResponder'[i]]
    BY <1>1, <1>2, <1>3
  <2>2. toInitiator' = [toInitiator EXCEPT ![i] = toInitiator'[i]]
    BY <1>0, <1>2 DEF TypeOK
  <2> QED
    BY <1>0, <1>1, <1>2, <2>1, <2>2, InitiatorAlone
<1>5. /\ at'[i] \in Reading
      /\ at'[i] \notin Sending \union {"start", "printed", "spinning", "readBody", "compute"}
      /\ step[i] + 1 \in {2, 4}
  <2>1. step[i] + 1 \in {2, 4}
    BY <1>0, Numbers, Zenon
  <2> QED
    BY <2>1, <1>3 DEF Sending, Reading
<1>6. peer = i => at[Responder] \notin Sending /\ SameAt(Responder)
  BY <1>0, <1>4 DEF ConnectionInv, TurnInv, OnlyInitiator, SameResponder
<1>7. InitiatorInv(i)'
  <2>1. InitiatorHears(i, 0)'
    <3>1. Reads("readSize", <<>>, <<>>, step[i] + 1, 0)
      <4>1. step[i] + 1 \in 1 .. 4
        BY <1>5, Numbers, Zenon
      <4> QED
        BY <4>1, NothingRead
    <3>2. Cut(i, toInitiator[i], step[i], 0)'
      BY <3>1, <1>3 DEF Cut
    <3>3. (Serves(i, step[i]) => Sent(Responder, 0))'
      <4>1. peer = i => at'[Responder] \notin {"sendSize", "sendBody"}
        BY <1>6 DEF SameAt, Sending
      <4> QED
        BY <4>1, <1>1 DEF Serves, Sent
    <3>4. 0 # Whole
      BY Sizes
    <3> QED
      BY <3>2, <3>3, <3>4 DEF InitiatorHears
  <2>2. 0 \in 0 .. Whole
    BY Sizes
  <2> QED
    BY <2>1, <2>2, <1>5 DEF InitiatorInv
<1>8. WaitingInv(i)'
  <2>1. CASE i \in waiting
    <3>1. peer # i /\ step[i] = X /\ toResponder[i] = Part(X, 0, IntSize)
      BY <2>1, <1>0 DEF ConnectionInv, WaitingInv, Sent
    <3>2. toResponder'[i] = Part(X, 0, Whole)
      <4>1. 1 \in 1 .. 4
        OBVIOUS
      <4>2. Part(1, 0, IntSize) \o BodyOf(1) = Part(1, 0, Whole)
        BY <4>1, SendOn
      <4> QED
        BY <3>1, <1>3, <4>2
    <3>3. Sent(i, Whole)' /\ Untouched(i)'
      BY <1>3, <1>5 DEF Sent, Untouched, Sending
    <3>4. step'[i] = Y
      BY <3>1, <1>3, Numbers
    <3> QED
      BY <3>1, <3>2, <3>3, <3>4, <1>1, <1>5 DEF WaitingInv
  <2>2. CASE i \notin waiting
    BY <2>2, <1>1, <1>5 DEF WaitingInv
  <2> QED
    BY <2>1, <2>2
<1>9. TurnInv(i)'
  <2>1. CASE peer = i /\ at[Responder] \in Reading
    <3>1. step[i] = step[Responder] /\ at[Responder] # "compute" /\ SameAt(Responder)
      BY <2>1, <1>0, <1>6 DEF ConnectionInv, TurnInv
    <3>2. PICK c \in 0 .. Whole : ResponderHears(i, c)
      BY <2>1, <1>0 DEF ConnectionInv, TurnInv
    <3>3. c = IntSize
      BY <3>2, <1>0 DEF ResponderHears, Sent
    <3>4. Reads(at[Responder], got[Responder], toResponder'[i], step[i], Whole)
      <4>1. Reads(at[Responder], got[Responder], toResponder[i], step[i], IntSize)
        BY <3>1, <3>2, <3>3 DEF ResponderHears, Cut
      <4>2. step[i] \in 1 .. 4
        BY <1>0
      <4>3. Reads(at[Responder], got[Responder], toResponder[i] \o BodyOf(step[i]),
                  step[i], Whole)
        BY <4>1, <4>2, BodyArrives
      <4> QED
        BY <4>3, <1>3
    <3>5. ~ (step[i] + 1 < step[i]) /\ Whole \in 0 .. Whole
      <4>1. \A n \in 1 .. 4 : ~ (n + 1 < n)
        OBVIOUS
      <4>2. Whole \in 0 .. Whole
        BY Sizes
      <4> QED
        BY <1>0, <4>1, <4>2, Zenon
    <3>6. ResponderHears(i, Whole)'
      BY <3>1, <3>4, <3>5, <1>3, <1>5 DEF ResponderHears, SameAt, Cut, Sent, Sending
    <3>7. /\ step'[i] = step'[Responder] + 1 /\ Untouched(i)'
          /\ at'[Responder] \notin Sending
      BY <2>1, <3>1, <1>3, <1>6 DEF SameAt, Untouched
    <3> QED
      BY <3>5, <3>6, <3>7, <1>5 DEF TurnInv
  <2>2. CASE ~ (peer = i /\ at[Responder] \in Reading)
    BY <2>2, <1>1, <1>6 DEF TurnInv, SameAt
  <2> QED
    BY <2>1, <2>2
<1>10. AgreedInv(i)'
  BY <1>0, <1>1, <1>2, <1>4, <1>5 DEF ConnectionInv, AgreedInv, OnlyInitiator, SameResponder, SameAt
<1>11. ConnectionInv(i)'
  BY <1>7, <1>8, <1>9, <1>10 DEF ConnectionInv
<1> QED
  BY <1>0, <1>1, <1>3, <1>4, <1>5, <1>11, InitiatorMoves DEF IInv, Core, OnlyInitiator, DeadInv

\* An initiator takes bytes from its stream.
LEMMA InitiatorReads ==
  ASSUME IInv, NEW i \in Initiators, OnlyInitiator(i),
         at[i] \in Reading, at'[i] \in Reading, step'[i] = step[i],
         toInitiator[i] # <<>>, toResponder'[i] = toResponder[i],
         waiting' = waiting, agreed' = agreed,
         NEW c \in 0 .. Whole, InitiatorHears(i, c),
         Cut(i, toInitiator[i], step[i], c)'
  PROVE  Core'
<1>0. /\ ConnectionInv(i) /\ SameAt(Responder) /\ peer' = peer
      /\ at'[i] \notin Sending \union {"start", "printed", "spinning"} /\ at[i] \notin Sending
  BY DEF IInv, OnlyInitiator, SameResponder, Reading, Sending
<1>1. i \notin waiting
  BY <1>0 DEF ConnectionInv, WaitingInv, Untouched
<1>2. InitiatorInv(i)'
  <2>1. (Serves(i, step[i]) => Sent(Responder, c))'
    BY <1>0 DEF InitiatorHears, Serves, Sent, SameAt
  <2>2. InitiatorHears(i, c)'
    BY <2>1 DEF InitiatorHears
  <2> QED
    BY <2>2, <1>0 DEF InitiatorInv
<1>3. WaitingInv(i)'
  BY <1>0, <1>1 DEF WaitingInv
<1>4. TurnInv(i)'
  <2>1. CASE peer = i /\ at[Responder] \in Reading
    <3>1. step[i] = step[Responder] - 1
      BY <2>1, <1>0 DEF ConnectionInv, TurnInv, Untouched
    <3>2. PICK d \in 0 .. Whole : ResponderHears(i, d)
      BY <2>1, <1>0 DEF ConnectionInv, TurnInv
    <3>3. ResponderHears(i, d)'
      BY <3>2, <1>0 DEF ResponderHears, Cut, Sent, SameAt, Sending
    <3>4. at'[Responder] \notin Sending
      BY <2>1, <1>0 DEF SameAt, Reading, Sending
    <3> QED
      BY <3>1, <3>3, <3>4, <1>0 DEF TurnInv, SameAt
  <2>2. CASE peer = i /\ at[Responder] \notin Reading
    BY <2>2, <1>0 DEF ConnectionInv, TurnInv, SameAt
  <2>3. CASE peer # i
    BY <2>3, <1>0 DEF TurnInv
  <2> QED
    BY <2>1, <2>2, <2>3
<1>5. AgreedInv(i)'
  BY <1>0 DEF ConnectionInv, AgreedInv, SameAt
<1>6. ConnectionInv(i)'
  BY <1>2, <1>3, <1>4, <1>5 DEF ConnectionInv
<1>7. (waiting' = {} \/ at[Responder] # "dead") /\ step'[i] \in {Y, V_S}
  BY DEF IInv, DeadInv, ProgramInv
<1> QED
  BY <1>0, <1>6, <1>7, InitiatorMoves DEF IInv, Core, OnlyInitiator

\* What a read of n bytes does to the stream and leaves alone.
LEMMA InitiatorReadOut ==
  ASSUME IInv, NEW i \in Initiators, NEW n \in Nat, n > 0, read(i, n)
  PROVE  /\ n <= Len(toInitiator[i]) /\ toInitiator[i] # <<>>
         /\ toInitiator' = [toInitiator EXCEPT ![i] = toInitiator'[i]]
         /\ toInitiator'[i] = SubSeq(toInitiator[i], n + 1, Len(toInitiator[i]))
         /\ toResponder' = [toResponder EXCEPT ![i] = toResponder'[i]]
         /\ toResponder'[i] = toResponder[i]
         /\ With(i, n) = got[i] \o SubSeq(toInitiator[i], 1, n)
<1>1. i # Responder /\ TypeOK /\ toInitiator[i] \in Seq(Byte)
  BY Names DEF IInv, TypeOK
<1>2. /\ n <= Len(toInitiator[i]) /\ toResponder' = toResponder
      /\ toInitiator' = [toInitiator EXCEPT ![i] = SubSeq(toInitiator[i], n + 1, Len(toInitiator[i]))]
      /\ With(i, n) = got[i] \o SubSeq(toInitiator[i], 1, n)
  BY <1>1 DEF read, Incoming, With
<1>3. toInitiator[i] # <<>>
  BY <1>1, <1>2
<1>4. toResponder' = [toResponder EXCEPT ![i] = toResponder'[i]] /\ toResponder'[i] = toResponder[i]
  BY <1>1, <1>2 DEF TypeOK
<1>5. toInitiator'[i] = SubSeq(toInitiator[i], n + 1, Len(toInitiator[i]))
  BY <1>1, <1>2 DEF TypeOK
<1> QED
  BY <1>2, <1>3, <1>4, <1>5

\* n more bytes of the size, or all that was missing of it and some of the body.
LEMMA SizeRead ==
  ASSUME NEW g, NEW s, NEW m \in 1 .. 4, NEW c, NEW n \in Nat,
         Reads("readSize", g, s, m, c), n <= Len(s)
  PROVE  /\ Len(g) + n < IntSize =>
              Reads("readSize", g \o SubSeq(s, 1, n), SubSeq(s, n + 1, Len(s)), m, c)
         /\ Len(g) + n >= IntSize =>
              Reads("readBody", <<>>, SubSeq(s, n + 1, Len(s)), m, c)
<1>1. PICK a, b \in 0 .. Whole : Window("readSize", g, s, m, a, b, c)
  BY DEF Reads
<1>2. /\ a = 0 /\ a <= b /\ b <= c /\ c \in {0, IntSize, Whole}
      /\ g = Part(m, a, b) /\ s = Part(m, b, c)
  BY <1>1 DEF Window
<1>3. /\ IntSize \in Nat /\ Whole \in Nat /\ a \in Nat /\ b \in Nat /\ c \in Nat /\ c <= Whole
      /\ a <= b /\ b <= c
  BY <1>2, Sizes
<1>4. /\ b + n <= c
      /\ Part(m, a, b) \o SubSeq(Part(m, b, c), 1, n) = Part(m, a, b + n)
      /\ Len(Part(m, a, b)) = b - a
      /\ SubSeq(Part(m, b, c), n + 1, Len(Part(m, b, c))) = Part(m, b + n, c)
  <2>1. n <= Len(Part(m, b, c))
    BY <1>2
  <2>2. /\ a \in Nat /\ b \in Nat /\ c \in Nat
        /\ a <= b /\ b <= c /\ c <= Whole
    BY <1>3
  <2>3. Taken(m, a, b, n, c)
    BY <2>1, <2>2, ReadCut
  <2> QED
    BY <2>3 DEF Taken
<1> DEFINE h == g \o SubSeq(s, 1, n)
           t == SubSeq(s, n + 1, Len(s))
           k == Len(g)
<1>5. h = Part(m, a, b + n) /\ t = Part(m, b + n, c) /\ k = b - a
  BY <1>2, <1>4
<1> HIDE DEF h, t, k
<1>6. b + n \in Nat /\ b + n <= Whole /\ a <= b + n /\ k = b /\ b + n <= b + n
  BY <1>2, <1>3, <1>4, <1>5
<1>7. Part(m, b + n, b + n) = <<>>
  BY <1>6, PartEmpty
<1>8. b + n \in 0 .. Whole
  BY <1>3, <1>6
<1>9. ASSUME k + n < IntSize PROVE Reads("readSize", h, t, m, c)
  <2>1. b + n < IntSize
    BY <1>6, <1>9
  <2>2. Window("readSize", h, t, m, a, b + n, c)
    BY <1>2, <1>4, <1>5, <1>6, <2>1 DEF Window
  <2> QED
    BY <1>8, <2>2 DEF Reads
<1>10. ASSUME k + n >= IntSize PROVE Reads("readBody", <<>>, t, m, c)
  <2>1. b + n >= IntSize
    BY <1>6, <1>10
  <2>2. Window("readBody", <<>>, t, m, b + n, b + n, c)
    BY <1>2, <1>4, <1>5, <1>6, <1>7, <2>1 DEF Window
  <2> QED
    BY <1>8, <2>2 DEF Reads
<1> QED
  BY <1>9, <1>10 DEF h, t, k

\* n more bytes of the body: where it is complete, the size has lost none of its bytes.
LEMMA BodyRead ==
  ASSUME NEW g, NEW s, NEW m \in 1 .. 4, NEW c, NEW n \in Nat,
         Reads("readBody", g, s, m, c), n <= Len(s)
  PROVE  /\ Len(g) + n < BodySize =>
              Reads("readBody", g \o SubSeq(s, 1, n), SubSeq(s, n + 1, Len(s)), m, c)
         /\ ~ (Len(g) + n < BodySize) =>
              /\ Reads("compute", g \o SubSeq(s, 1, n), SubSeq(s, n + 1, Len(s)), m, c)
              /\ c = Whole
<1>1. PICK a, b \in 0 .. Whole : Window("readBody", g, s, m, a, b, c)
  BY DEF Reads
<1>2. /\ a >= IntSize /\ a <= b /\ b <= c /\ c \in {0, IntSize, Whole}
      /\ g = Part(m, a, b) /\ s = Part(m, b, c)
  BY <1>1 DEF Window
<1>3. /\ IntSize \in Nat /\ BodySize \in Nat /\ Whole = IntSize + BodySize
      /\ Whole \in Nat /\ a \in Nat /\ b \in Nat /\ c \in Nat /\ c <= Whole
      /\ a <= b /\ b <= c
  BY <1>2, Sizes DEF Whole
<1>4. /\ b + n <= c
      /\ Part(m, a, b) \o SubSeq(Part(m, b, c), 1, n) = Part(m, a, b + n)
      /\ Len(Part(m, a, b)) = b - a
      /\ SubSeq(Part(m, b, c), n + 1, Len(Part(m, b, c))) = Part(m, b + n, c)
  <2>1. n <= Len(Part(m, b, c))
    BY <1>2
  <2>2. /\ a \in Nat /\ b \in Nat /\ c \in Nat
        /\ a <= b /\ b <= c /\ c <= Whole
    BY <1>3
  <2>3. Taken(m, a, b, n, c)
    BY <2>1, <2>2, ReadCut
  <2> QED
    BY <2>3 DEF Taken
<1> DEFINE h == g \o SubSeq(s, 1, n)
           t == SubSeq(s, n + 1, Len(s))
           k == Len(g)
<1>5. h = Part(m, a, b + n) /\ t = Part(m, b + n, c) /\ k = b - a
  BY <1>2, <1>4
<1> HIDE DEF h, t, k
<1>6. b + n \in Nat /\ b + n <= Whole /\ a <= b + n
  BY <1>3, <1>4
<1>7. b + n \in 0 .. Whole
  BY <1>3, <1>6
<1>8. ASSUME k + n < BodySize PROVE Reads("readBody", h, t, m, c)
  <2>1. Window("readBody", h, t, m, a, b + n, c)
    BY <1>2, <1>4, <1>5, <1>6 DEF Window
  <2> QED
    BY <1>7, <2>1 DEF Reads
<1>9. ASSUME ~ (k + n < BodySize) PROVE Reads("compute", h, t, m, c) /\ c = Whole
  <2>1. a = IntSize /\ b + n = Whole /\ c = Whole
    BY <1>2, <1>3, <1>4, <1>5, <1>9
  <2>2. Window("compute", h, t, m, a, b + n, c)
    BY <1>2, <1>4, <1>5, <1>6, <2>1 DEF Window
  <2> QED
    BY <1>7, <2>1, <2>2 DEF Reads
<1> QED
  BY <1>8, <1>9 DEF h, t, k

\* Who has a whole body has the body of the message, and nothing follows it.
LEMMA BodyComplete ==
  ASSUME NEW g, NEW s, NEW m \in 1 .. 4, NEW c, Reads("compute", g, s, m, c)
  PROVE  c = Whole /\ s = <<>> /\ g = BodyOf(m)
<1>1. PICK a, b \in 0 .. Whole : Window("compute", g, s, m, a, b, c)
  BY DEF Reads
<1>2. /\ a = IntSize /\ b = Whole /\ b <= c /\ c \in {0, IntSize, Whole}
      /\ g = Part(m, a, b) /\ s = Part(m, b, c)
  BY <1>1 DEF Window
<1>3. c = Whole
  BY <1>2, Sizes
<1> QED
  BY <1>2, <1>3, SendOn, PartsOfMessage

LEMMA InitiatorReadSizeKeeps ==
  ASSUME IInv, NEW i \in Initiators, ReadSize(i)
  PROVE  Core'
<1>0. /\ TypeOK /\ ProgramInv /\ ConnectionInv(i) /\ i \in Ends /\ i # Responder
      /\ at[i] = "readSize" /\ at[i] \in Reading
      /\ step[i] \in 1 .. 4 /\ got[i] \in Seq(Byte)
      /\ step' = step /\ agreed' = agreed
      /\ step' = [step EXCEPT ![i] = step'[i]]
  BY InitiatorSteps DEF IInv, ReadSize, Reading, TypeOK
<1>1. PICK n \in 1 .. IntSize :
        /\ read(i, n)
        /\ \/ /\ Len(got[i]) + n < IntSize
              /\ got' = [got EXCEPT ![i] = With(i, n)]
              /\ UNCHANGED <<at, waiting, peer>>
           \/ /\ Len(got[i]) + n >= IntSize
              /\ got' = [got EXCEPT ![i] = <<>>]
              /\ at' = [at EXCEPT ![i] = "readBody"]
              /\ UNCHANGED <<waiting, peer>>
           \/ Die(i)
  BY DEF ReadSize
<1>2. n \in Nat /\ n > 0
  BY Sizes
<1>3. /\ n <= Len(toInitiator[i]) /\ toInitiator[i] # <<>>
      /\ toInitiator' = [toInitiator EXCEPT ![i] = toInitiator'[i]]
      /\ toInitiator'[i] = SubSeq(toInitiator[i], n + 1, Len(toInitiator[i]))
      /\ toResponder' = [toResponder EXCEPT ![i] = toResponder'[i]]
      /\ toResponder'[i] = toResponder[i]
      /\ With(i, n) = got[i] \o SubSeq(toInitiator[i], 1, n)
  BY <1>1, <1>2, InitiatorReadOut
<1>4. PICK c \in 0 .. Whole : InitiatorHears(i, c)
  BY <1>0 DEF ConnectionInv, InitiatorInv
<1>5. Reads(at[i], got[i], toInitiator[i], step[i], c)
  BY <1>4 DEF InitiatorHears, Cut
<1>6. /\ Len(got[i]) + n < IntSize =>
           Reads("readSize", With(i, n), toInitiator'[i], step[i], c)
      /\ Len(got[i]) + n >= IntSize =>
           Reads("readBody", <<>>, toInitiator'[i], step[i], c)
  <2>1. Reads("readSize", got[i], toInitiator[i], step[i], c)
    BY <1>0, <1>5
  <2>2. step[i] \in 1 .. 4 /\ n \in Nat /\ n <= Len(toInitiator[i])
    BY <1>0, <1>2, <1>3
  <2>3. /\ Len(got[i]) + n < IntSize =>
             Reads("readSize", got[i] \o SubSeq(toInitiator[i], 1, n),
                   SubSeq(toInitiator[i], n + 1, Len(toInitiator[i])), step[i], c)
        /\ Len(got[i]) + n >= IntSize =>
             Reads("readBody", <<>>,
                   SubSeq(toInitiator[i], n + 1, Len(toInitiator[i])), step[i], c)
    BY <2>1, <2>2, SizeRead
  <2> QED
    BY <2>3, <1>3, Zenon
<1>7. CASE /\ Len(got[i]) + n < IntSize
           /\ got' = [got EXCEPT ![i] = With(i, n)]
           /\ UNCHANGED <<at, waiting, peer>>
  <2>1. at' = [at EXCEPT ![i] = at'[i]] /\ at'[i] = "readSize" /\ got'[i] = With(i, n)
    BY <1>0, <1>7 DEF TypeOK
  <2>2. OnlyInitiator(i)
    BY <1>0, <1>3, <1>7, <2>1, InitiatorAlone
  <2>3. Cut(i, toInitiator[i], step[i], c)'
    BY <1>0, <1>6, <1>7, <2>1 DEF Cut
  <2> QED
    BY <1>0, <1>3, <1>4, <1>6, <1>7, <2>1, <2>2, <2>3, InitiatorReads
<1>8. CASE /\ Len(got[i]) + n >= IntSize
           /\ got' = [got EXCEPT ![i] = <<>>]
           /\ at' = [at EXCEPT ![i] = "readBody"]
           /\ UNCHANGED <<waiting, peer>>
  <2>1. /\ at' = [at EXCEPT ![i] = at'[i]] /\ at'[i] = "readBody" /\ at'[i] \in Reading
        /\ got' = [got EXCEPT ![i] = got'[i]] /\ got'[i] = <<>>
    BY <1>0, <1>8 DEF TypeOK, Reading
  <2>2. OnlyInitiator(i)
    BY <1>0, <1>3, <1>8, <2>1, InitiatorAlone
  <2>3. Cut(i, toInitiator[i], step[i], c)'
    BY <1>0, <1>6, <1>8, <2>1 DEF Cut
  <2> QED
    BY <1>0, <1>3, <1>4, <1>6, <1>8, <2>1, <2>2, <2>3, InitiatorReads
<1>9. CASE Die(i)
  <2>1. /\ at' = [at EXCEPT ![i] = "exited"] /\ got' = [got EXCEPT ![i] = <<>>]
        /\ peer' = peer /\ waiting' = waiting
    BY <1>0, <1>9 DEF Die
  <2>2. at'[i] = "exited" /\ got'[i] = <<>>
    BY <1>0, <2>1 DEF TypeOK
  <2>3. OnlyInitiator(i)
    BY <1>0, <1>3, <2>1, <2>2, InitiatorAlone
  <2> QED
    BY <1>0, <1>3, <2>1, <2>2, <2>3, InitiatorExits
<1> QED
  BY <1>1, <1>7, <1>8, <1>9

LEMMA InitiatorReadBodyKeeps ==
  ASSUME IInv, NEW i \in Initiators, ReadBody(i)
  PROVE  Core'
<1>0. /\ TypeOK /\ ProgramInv /\ ConnectionInv(i) /\ i \in Ends /\ i # Responder
      /\ at[i] = "readBody" /\ at[i] \in Reading
      /\ step[i] \in 1 .. 4 /\ got[i] \in Seq(Byte)
      /\ step' = step /\ agreed' = agreed /\ waiting' = waiting /\ peer' = peer
      /\ step' = [step EXCEPT ![i] = step'[i]]
  BY InitiatorSteps DEF IInv, ReadBody, Reading, TypeOK
<1>1. PICK n \in 1 .. BodySize :
        /\ read(i, n)
        /\ got' = [got EXCEPT ![i] = With(i, n)]
        /\ at' = [at EXCEPT ![i] = IF Len(got[i]) + n < BodySize THEN at[i] ELSE "compute"]
  BY DEF ReadBody
<1>2. n \in Nat /\ n > 0
  BY Sizes
<1>3. /\ n <= Len(toInitiator[i]) /\ toInitiator[i] # <<>>
      /\ toInitiator' = [toInitiator EXCEPT ![i] = toInitiator'[i]]
      /\ toInitiator'[i] = SubSeq(toInitiator[i], n + 1, Len(toInitiator[i]))
      /\ toResponder' = [toResponder EXCEPT ![i] = toResponder'[i]]
      /\ toResponder'[i] = toResponder[i]
      /\ With(i, n) = got[i] \o SubSeq(toInitiator[i], 1, n)
  BY <1>1, <1>2, InitiatorReadOut
<1>4. PICK c \in 0 .. Whole : InitiatorHears(i, c)
  BY <1>0 DEF ConnectionInv, InitiatorInv
<1>5. Reads(at[i], got[i], toInitiator[i], step[i], c)
  BY <1>4 DEF InitiatorHears, Cut
<1>6. Reads(IF Len(got[i]) + n < BodySize THEN "readBody" ELSE "compute",
            With(i, n), toInitiator'[i], step[i], c)
  <2>1. Reads("readBody", got[i], toInitiator[i], step[i], c)
    BY <1>0, <1>5
  <2>2. step[i] \in 1 .. 4 /\ n \in Nat /\ n <= Len(toInitiator[i])
    BY <1>0, <1>2, <1>3
  <2>3. /\ Len(got[i]) + n < BodySize =>
             Reads("readBody", got[i] \o SubSeq(toInitiator[i], 1, n),
                   SubSeq(toInitiator[i], n + 1, Len(toInitiator[i])), step[i], c)
        /\ ~ (Len(got[i]) + n < BodySize) =>
             Reads("compute", got[i] \o SubSeq(toInitiator[i], 1, n),
                   SubSeq(toInitiator[i], n + 1, Len(toInitiator[i])), step[i], c)
    BY <2>1, <2>2, BodyRead
  <2> QED
    BY <2>3, <1>3, Zenon
<1>7. /\ at'[i] = IF Len(got[i]) + n < BodySize THEN "readBody" ELSE "compute"
      /\ got'[i] = With(i, n)
  BY <1>0, <1>1 DEF TypeOK
<1>8. /\ at' = [at EXCEPT ![i] = at'[i]] /\ got' = [got EXCEPT ![i] = got'[i]]
      /\ at'[i] \in Reading
  BY <1>0, <1>1, <1>7 DEF Reading
<1>9. OnlyInitiator(i)
  BY <1>0, <1>3, <1>8, InitiatorAlone
<1>10. Cut(i, toInitiator[i], step[i], c)'
  BY <1>0, <1>6, <1>7 DEF Cut
<1> QED
  BY <1>0, <1>3, <1>4, <1>6, <1>8, <1>9, <1>10, InitiatorReads

\* An initiator that ends, wherever it stands.
LEMMA InitiatorDies ==
  ASSUME IInv, NEW i \in Initiators, Die(i) \/ Done(i),
         step' = step, agreed' = agreed, UNCHANGED wire
  PROVE  Core'
<1>1. i # Responder /\ i \in Ends /\ TypeOK
  BY Names DEF IInv
<1>2. /\ at' = [at EXCEPT ![i] = "exited"] /\ got' = [got EXCEPT ![i] = <<>>]
      /\ peer' = peer /\ waiting' = waiting
      /\ toResponder' = toResponder /\ toInitiator' = toInitiator
  BY <1>1 DEF Die, Done, wire
<1>3. at'[i] = "exited" /\ got'[i] = <<>>
  BY <1>1, <1>2 DEF TypeOK
<1>4. /\ step' = [step EXCEPT ![i] = step'[i]]
      /\ toResponder' = [toResponder EXCEPT ![i] = toResponder'[i]]
      /\ toInitiator' = [toInitiator EXCEPT ![i] = toInitiator'[i]]
  BY <1>1, <1>2 DEF TypeOK
<1>5. OnlyInitiator(i)
  BY <1>1, <1>2, <1>3, <1>4, InitiatorAlone
<1> QED
  BY <1>2, <1>3, <1>5, InitiatorExits

LEMMA InitiatorReadEndsKeeps ==
  ASSUME IInv, NEW i \in Initiators, ReadEnds(i)
  PROVE  Core'
<1>1. CASE Done(i)
  BY <1>1, InitiatorDies DEF ReadEnds
<1>2. CASE /\ at' = [at EXCEPT ![i] = "spinning"]
           /\ got' = [got EXCEPT ![i] = <<>>]
           /\ UNCHANGED <<waiting, peer>>
  <2>1. /\ i # Responder /\ i \in Ends /\ TypeOK /\ at[i] \in Reading
        /\ at[Responder] = "dead"
    BY Names DEF IInv, ReadEnds, Reading, PeerGone
  <2>2. /\ step' = step /\ agreed' = agreed
        /\ toResponder' = toResponder /\ toInitiator' = toInitiator
    BY DEF ReadEnds, wire
  <2>3. at'[i] = "spinning" /\ got'[i] = <<>>
    BY <1>2, <2>1 DEF TypeOK
  <2>4. /\ step' = [step EXCEPT ![i] = step'[i]]
        /\ toResponder' = [toResponder EXCEPT ![i] = toResponder'[i]]
        /\ toInitiator' = [toInitiator EXCEPT ![i] = toInitiator'[i]]
    BY <2>1, <2>2 DEF TypeOK
  <2>5. OnlyInitiator(i)
    BY <1>2, <2>1, <2>2, <2>3, <2>4, InitiatorAlone
  <2> QED
    BY <1>2, <2>1, <2>2, <2>3, <2>5, InitiatorSpins
<1> QED
  BY <1>1, <1>2 DEF ReadEnds

\* Where an initiator has a whole message, its peer has nothing more to say.
LEMMA InitiatorComputeKeeps ==
  ASSUME IInv, NEW i \in Initiators, Compute(i)
  PROVE  Core'
<1>0. /\ TypeOK /\ ProgramInv /\ ConnectionInv(i) /\ i \in Ends /\ i # Responder
      /\ at[i] = "compute" /\ at[i] \in Reading /\ at[i] \notin Sending
      /\ step[i] \in {2, 4} /\ step[i] \in 1 .. 4
      /\ agreed' = agreed /\ toResponder' = toResponder /\ toInitiator' = toInitiator
  BY InitiatorSteps DEF IInv, Compute, Reading, Sending, wire
<1>1. PICK c \in 0 .. Whole : InitiatorHears(i, c)
  BY <1>0 DEF ConnectionInv, InitiatorInv
<1>2. c = Whole /\ toInitiator[i] = <<>>
  <2>1. Reads("compute", got[i], toInitiator[i], step[i], c)
    BY <1>0, <1>1 DEF InitiatorHears, Cut
  <2>2. step[i] \in 1 .. 4
    BY <1>0
  <2> QED
    BY <2>1, <2>2, BodyComplete
<1>3. i \notin waiting
  BY <1>0 DEF ConnectionInv, WaitingInv, Untouched
<1>4. peer = i => at[Responder] \notin Sending
  <2>1. ASSUME peer = i, at[Responder] \in Sending PROVE FALSE
    <3>1. Sent(Responder, Whole)
      BY <2>1, <1>0, <1>1, <1>2 DEF ConnectionInv, TurnInv, InitiatorHears, Serves
    <3>2. Whole # 0 /\ Whole # IntSize
      BY Sizes
    <3> QED
      BY <2>1, <3>1, <3>2 DEF Sent, Sending
  <2> QED
    BY <2>1
<1>5. peer = i /\ at[Responder] \in Reading =>
        step[i] = step[Responder] - 1 /\ at[Responder] # "compute" /\ ResponderHears(i, 0)
  <2>1. ASSUME peer = i, at[Responder] \in Reading
        PROVE  step[i] = step[Responder] - 1 /\ at[Responder] # "compute" /\ ResponderHears(i, 0)
    <3>1. step[i] = step[Responder] - 1
      BY <2>1, <1>0 DEF ConnectionInv, TurnInv, Untouched
    <3>2. step[Responder] \in 1 .. 4
      BY <1>0, Names DEF TypeOK
    <3>3. step[i] < step[Responder]
      <4>1. \A n \in 1 .. 4 : n - 1 < n
        OBVIOUS
      <4> QED
        BY <3>1, <3>2, <4>1
    <3>4. PICK d \in 0 .. Whole : ResponderHears(i, d)
      BY <2>1, <1>0 DEF ConnectionInv, TurnInv
    <3>5. d = 0
      BY <3>3, <3>4, <1>0 DEF ResponderHears
    <3>6. at[Responder] # "compute"
      <4>1. ASSUME at[Responder] = "compute" PROVE FALSE
        <5>1. Reads("compute", got[Responder], toResponder[i], step[Responder], 0)
          BY <3>4, <3>5, <4>1 DEF ResponderHears, Cut
        <5>2. 0 = Whole
          BY <5>1, <3>2, BodyComplete
        <5> QED
          BY <5>2, Sizes
      <4> QED
        BY <4>1
    <3> QED
      BY <3>1, <3>4, <3>5, <3>6
  <2> QED
    BY <2>1
<1>6. CASE Done(i) /\ UNCHANGED step
  BY <1>6, <1>0, InitiatorDies DEF Compute
<1>7. CASE Advance(i) /\ step[i] = 2
  <2>1. /\ got' = [got EXCEPT ![i] = <<>>] /\ peer' = peer /\ waiting' = waiting
        /\ step' = [step EXCEPT ![i] = 3] /\ at' = [at EXCEPT ![i] = "sendSize"]
    BY <1>0, <1>7, InitiatorAdvances
  <2>2. /\ at'[i] = "sendSize" /\ step'[i] = 3 /\ got'[i] = <<>>
        /\ toResponder'[i] = toResponder[i] /\ toInitiator'[i] = <<>>
    BY <1>0, <1>2, <2>1 DEF TypeOK
  <2>3. OnlyInitiator(i)
    <3>1. /\ toResponder' = [toResponder EXCEPT ![i] = toResponder'[i]]
          /\ toInitiator' = [toInitiator EXCEPT ![i] = toInitiator'[i]]
      BY <1>0 DEF TypeOK
    <3> QED
      BY <1>0, <2>1, <2>2, <3>1, InitiatorAlone
  <2>4. /\ at'[i] \in Sending
        /\ at'[i] \notin Reading \union {"start", "printed", "spinning", "sendBody"}
        /\ SameAt(Responder)
    BY <2>2, <2>3 DEF Sending, Reading, OnlyInitiator, SameResponder
  <2>5. InitiatorInv(i)'
    BY <2>2, <2>4 DEF InitiatorInv
  <2>6. WaitingInv(i)'
    BY <1>3, <2>1, <2>4 DEF WaitingInv
  <2>7. TurnInv(i)'
    <3>1. CASE peer = i /\ at[Responder] \in Reading
      <4>1. step[Responder] = 3 /\ at[Responder] # "compute"
        <5>1. \A n \in 1 .. 4 : 2 = n - 1 => n = 3
          OBVIOUS
        <5>2. step[Responder] \in 1 .. 4
          BY <1>0, Names DEF TypeOK
        <5> QED
          BY <1>5, <1>7, <3>1, <5>1, <5>2
      <4>2. ResponderHears(i, 0)'
        BY <1>5, <3>1, <2>2, <2>4 DEF ResponderHears, SameAt, Cut, Sent
      <4>3. 0 \in 0 .. Whole /\ at'[Responder] \notin Sending
        BY Sizes, <1>4, <3>1, <2>4 DEF SameAt
      <4> QED
        BY <2>2, <2>4, <4>1, <4>2, <4>3 DEF TurnInv, SameAt
    <3>2. CASE ~ (peer = i /\ at[Responder] \in Reading)
      BY <3>2, <1>4, <2>1, <2>4 DEF TurnInv, SameAt
    <3> QED
      BY <3>1, <3>2
  <2>8. AgreedInv(i)'
    BY <1>0, <2>1, <2>4 DEF ConnectionInv, AgreedInv, SameAt
  <2>9. ConnectionInv(i)'
    BY <2>5, <2>6, <2>7, <2>8 DEF ConnectionInv
  <2> QED
    BY <1>0, <2>1, <2>2, <2>3, <2>4, <2>9, InitiatorMoves DEF IInv, Core, OnlyInitiator, DeadInv
<1>8. CASE Advance(i) /\ step[i] = 4
  <2>1. /\ got' = [got EXCEPT ![i] = <<>>] /\ peer' = peer /\ waiting' = waiting
        /\ step' = step /\ at' = [at EXCEPT ![i] = "printed"]
    BY <1>0, <1>8, InitiatorAdvances
  <2>2. at'[i] = "printed" /\ got'[i] = <<>> /\ i \in agreed
    BY <1>0, <1>1, <1>2, <1>8, <2>1 DEF TypeOK, InitiatorHears
  <2>3. OnlyInitiator(i)
    <3>1. /\ toResponder' = [toResponder EXCEPT ![i] = toResponder'[i]]
          /\ toInitiator' = [toInitiator EXCEPT ![i] = toInitiator'[i]]
          /\ step' = [step EXCEPT ![i] = step'[i]]
      BY <1>0, <2>1 DEF TypeOK
    <3> QED
      BY <1>0, <2>1, <2>2, <3>1, InitiatorAlone
  <2>4. /\ at'[i] \notin Reading \union Sending \union {"start", "spinning"}
        /\ SameAt(Responder)
    BY <2>2, <2>3 DEF Sending, Reading, OnlyInitiator, SameResponder
  <2>5. InitiatorInv(i)'
    BY <2>4 DEF InitiatorInv
  <2>6. WaitingInv(i)'
    BY <1>3, <2>1, <2>4 DEF WaitingInv
  <2>7. peer = i => at[Responder] = "print"
    BY <1>0, <2>2 DEF ConnectionInv, AgreedInv
  <2>8. TurnInv(i)'
    BY <2>1, <2>4, <2>7 DEF TurnInv, SameAt, Reading, Sending
  <2>9. AgreedInv(i)'
    BY <1>0, <1>3, <2>1, <2>2, <2>4, <2>7 DEF AgreedInv, SameAt
  <2>10. ConnectionInv(i)'
    BY <2>5, <2>6, <2>8, <2>9 DEF ConnectionInv
  <2> QED
    BY <1>0, <2>1, <2>3, <2>4, <2>10, InitiatorMoves DEF IInv, Core, OnlyInitiator, DeadInv
<1> QED
  BY <1>0, <1>6, <1>7, <1>8 DEF Compute

LEMMA InitiatorKeeps ==
  ASSUME IInv, NEW i \in Initiators, Step(i) \/ Kill(i) \/ Connect(i)
  PROVE  Core'
<1>1. SendFails(i) => (Die(i) \/ Done(i)) /\ step' = step /\ agreed' = agreed /\ UNCHANGED wire
  BY DEF SendFails
<1>2. Kill(i) => Die(i) /\ step' = step /\ agreed' = agreed /\ UNCHANGED wire
  BY DEF Kill
<1> QED
  BY <1>1, <1>2, ConnectKeeps, InitiatorSendSizeKeeps, InitiatorSendBodyKeeps,
     InitiatorReadSizeKeeps, InitiatorReadBodyKeeps, InitiatorReadEndsKeeps,
     InitiatorComputeKeeps, InitiatorDies DEF Step

-----------------------------------------------------------------------------
(* Steps of the responder                                                  *)

OnlyResponder(p) == SameAt(p) /\ \A j \in Initiators \ {p} : SameLocal(j)

LEMMA ResponderSteps ==
  ASSUME TypeOK, ProgramInv
  PROVE  /\ Responder \in Ends
         /\ step[Responder] \in 1 .. 4 /\ Message(Responder) = step[Responder]
         /\ at[Responder] \in Reading => step[Responder] \in {1, 3}
         /\ at[Responder] \in Sending => step[Responder] \in {2, 4}
  BY Names, Programs DEF ProgramInv

\* The responder goes on with its program.
LEMMA ResponderAdvances ==
  ASSUME TypeOK, Advance(Responder)
  PROVE  /\ got' = [got EXCEPT ![Responder] = <<>>] /\ peer' = peer /\ waiting' = waiting
         /\ step[Responder] = 1 => /\ step' = [step EXCEPT ![Responder] = 2]
                                   /\ at' = [at EXCEPT ![Responder] = "sendSize"]
         /\ step[Responder] = 2 => /\ step' = [step EXCEPT ![Responder] = 3]
                                   /\ at' = [at EXCEPT ![Responder] = "readSize"]
         /\ step[Responder] = 3 => /\ step' = [step EXCEPT ![Responder] = 4]
                                   /\ at' = [at EXCEPT ![Responder] = "sendSize"]
         /\ step[Responder] = 4 => /\ step' = step
                                   /\ at' = [at EXCEPT ![Responder] = "print"]
<1>1. Len(Program(Responder)) = 4
  BY ResponderProgram
<1>2. \A n \in 1 .. 4 :
        Begin(Responder, n) = IF n \in {X, V_U} THEN "readSize" ELSE "sendSize"
  BY ResponderProgram
<1>3. /\ Begin(Responder, 2) = "sendSize" /\ Begin(Responder, 3) = "readSize"
      /\ Begin(Responder, 4) = "sendSize"
  <2>1. 2 \in 1 .. 4 /\ 3 \in 1 .. 4 /\ 4 \in 1 .. 4
    OBVIOUS
  <2>2. 2 \notin {X, V_U} /\ 3 \in {X, V_U} /\ 4 \notin {X, V_U}
    OBVIOUS
  <2> QED
    BY <1>2, <2>1, <2>2, Zenon
<1>4. got' = [got EXCEPT ![Responder] = <<>>] /\ peer' = peer /\ waiting' = waiting
  BY DEF Advance
<1>5. ASSUME NEW n \in 1 .. 3, step[Responder] = n
      PROVE  /\ step' = [step EXCEPT ![Responder] = n + 1]
             /\ at' = [at EXCEPT ![Responder] = Begin(Responder, n + 1)]
  BY <1>1, <1>5 DEF Advance
<1>6. step[Responder] = 1 => /\ step' = [step EXCEPT ![Responder] = 2]
                             /\ at' = [at EXCEPT ![Responder] = Begin(Responder, 2)]
  BY <1>5, 1 \in 1 .. 3, 1 + 1 = 2
<1>7. step[Responder] = 2 => /\ step' = [step EXCEPT ![Responder] = 3]
                             /\ at' = [at EXCEPT ![Responder] = Begin(Responder, 3)]
  BY <1>5, 2 \in 1 .. 3, 2 + 1 = 3
<1>8. step[Responder] = 3 => /\ step' = [step EXCEPT ![Responder] = 4]
                             /\ at' = [at EXCEPT ![Responder] = Begin(Responder, 4)]
  BY <1>5, 3 \in 1 .. 3, 3 + 1 = 4
<1>9. step[Responder] = 4 => step' = step /\ at' = [at EXCEPT ![Responder] = "print"]
  BY <1>1 DEF Advance
<1> QED
  BY <1>3, <1>4, <1>6, <1>7, <1>8, <1>9

\* What the actions of a responder that serves p share.
LEMMA ResponderAlone ==
  ASSUME TypeOK, NEW p \in Initiators,
         at' = [at EXCEPT ![Responder] = at'[Responder]],
         got' = [got EXCEPT ![Responder] = got'[Responder]],
         step' = [step EXCEPT ![Responder] = step'[Responder]],
         toResponder' = [toResponder EXCEPT ![p] = toResponder'[p]],
         toInitiator' = [toInitiator EXCEPT ![p] = toInitiator'[p]],
         waiting' \in {waiting, {}}, agreed' \in {agreed, agreed \union {p}}
  PROVE  OnlyResponder(p)
<1>1. p # Responder /\ Responder \in Ends /\ Responder \notin Initiators /\ Initiators \subseteq Ends
  BY Names
<1>2. ASSUME NEW j \in Initiators PROVE SameAt(j)
  BY <1>1, <1>2 DEF SameAt, TypeOK
<1>3. ASSUME NEW j \in Initiators \ {p} PROVE SameWire(j) /\ SameLists(j)
  BY <1>3 DEF SameWire, SameLists, TypeOK
<1> QED
  BY <1>2, <1>3 DEF OnlyResponder, SameLocal

\* What holds of the connection that is served.
LEMMA Served ==
  ASSUME IInv, NEW p \in Initiators, peer = p
  PROVE  /\ ConnectionInv(p) /\ at[p] # "start" /\ p \notin waiting
         /\ at[Responder] # "print" => p \notin agreed
         /\ at[Responder] \in Stages \union {"print"}
         /\ at[Responder] \notin {"dead", "accept"}
<1>1. ConnectionInv(p) /\ TypeOK
  BY DEF IInv
<1>2. at[Responder] \in Stages \union {"print"}
  BY <1>1, Names DEF TypeOK
<1> QED
  BY <1>1, <1>2 DEF ConnectionInv, WaitingInv, AgreedInv, Stages

\* The responder leaves a peer, whatever the reason: nobody looks at the bytes
\* that are still on their way to it.
LEMMA ResponderLeaves ==
  ASSUME IInv, NEW p \in Initiators, peer = p, peer' = None, OnlyResponder(p),
         at'[Responder] \in {"accept", "dead"},
         toInitiator'[p] = toInitiator[p], agreed' = agreed,
         IF at'[Responder] = "dead" THEN waiting' = {} ELSE waiting' = waiting
  PROVE  Core'
<1>1. /\ ConnectionInv(p) /\ at[p] # "start" /\ p \notin waiting /\ p \notin waiting'
      /\ at[Responder] # "dead" /\ peer' # p /\ SameAt(p)
  BY Served, Names DEF OnlyResponder
<1>2. at'[Responder] \notin Reading \union Sending
  BY DEF Reading, Sending
<1>3. InitiatorInv(p)'
  <2>1. CASE at[p] \in Reading
    <3>1. PICK c \in 0 .. Whole : InitiatorHears(p, c)
      BY <2>1, <1>1 DEF ConnectionInv, InitiatorInv
    <3>2. InitiatorHears(p, c)'
      BY <3>1, <1>1 DEF InitiatorHears, Cut, Serves, SameAt
    <3>3. at'[p] \notin Sending \union {"start"}
      BY <2>1, <1>1 DEF Reading, Sending, SameAt
    <3> QED
      BY <3>2, <3>3 DEF InitiatorInv
  <2>2. CASE at[p] \notin Reading
    BY <2>2, <1>1 DEF ConnectionInv, InitiatorInv, SameAt
  <2> QED
    BY <2>1, <2>2
<1>4. WaitingInv(p)' /\ TurnInv(p)'
  BY <1>1 DEF WaitingInv, TurnInv, SameAt
<1>5. AgreedInv(p)'
  BY <1>1 DEF ConnectionInv, AgreedInv, SameAt
<1>6. ConnectionInv(p)'
  BY <1>3, <1>4, <1>5 DEF ConnectionInv
<1> QED
  BY <1>1, <1>2, <1>6, ResponderMoves DEF IInv, Core, OnlyResponder

\* The responder ends, or goes back to accept, without having read.
LEMMA ResponderGivesUp ==
  ASSUME IInv, NEW p \in Initiators, peer = p, Die(Responder) \/ Done(Responder),
         step' = step, agreed' = agreed, UNCHANGED wire
  PROVE  Core'
<1>1. Responder \in Ends /\ TypeOK /\ p \in Ends
  BY Names DEF IInv
<1>2. PICK a \in {"accept", "dead"} :
        /\ at' = [at EXCEPT ![Responder] = a] /\ got' = [got EXCEPT ![Responder] = <<>>]
        /\ peer' = None
        /\ IF a = "dead" THEN waiting' = {} ELSE waiting' = waiting
  BY DEF Die, Done
<1>3. at'[Responder] = a /\ got'[Responder] = <<>>
  BY <1>1, <1>2 DEF TypeOK
<1>4. /\ step' = [step EXCEPT ![Responder] = step'[Responder]]
      /\ toResponder' = [toResponder EXCEPT ![p] = toResponder'[p]]
      /\ toInitiator' = [toInitiator EXCEPT ![p] = toInitiator'[p]]
      /\ toInitiator'[p] = toInitiator[p]
  BY <1>1 DEF TypeOK, wire
<1>5. OnlyResponder(p)
  BY <1>1, <1>2, <1>3, <1>4, ResponderAlone
<1> QED
  BY <1>2, <1>3, <1>4, <1>5, ResponderLeaves

LEMMA ResponderSendSizeKeeps ==
  ASSUME IInv, NEW p \in Initiators, peer = p, SendSize(Responder)
  PROVE  Core'
<1>0. /\ TypeOK /\ ProgramInv /\ ConnectionInv(p) /\ Responder \in Ends
      /\ at[Responder] = "sendSize" /\ at[Responder] \in Sending /\ at[Responder] \notin Reading
      /\ step[Responder] \in {2, 4} /\ step[Responder] \in 1 .. 4
      /\ Message(Responder) = step[Responder]
      /\ at[p] \notin Sending \union {"start"} /\ p \notin waiting /\ p \notin agreed
  BY ResponderSteps, Served DEF IInv, SendSize, Sending, Reading, ConnectionInv, TurnInv
<1>1. /\ step' = step /\ got' = got /\ waiting' = waiting /\ peer' = peer /\ agreed' = agreed
      /\ at' = [at EXCEPT ![Responder] = "sendBody"]
      /\ toResponder' = toResponder
      /\ toInitiator' = [toInitiator EXCEPT ![p] = toInitiator[p] \o SizeOf(step[Responder])]
  BY <1>0 DEF SendSize, write
<1>2. /\ at'[Responder] = "sendBody" /\ toResponder'[p] = toResponder[p]
      /\ toInitiator'[p] = toInitiator[p] \o SizeOf(step[Responder])
  BY <1>0, <1>1 DEF TypeOK
<1>3. OnlyResponder(p)
  <2>1. /\ got' = [got EXCEPT ![Responder] = got'[Responder]]
        /\ step' = [step EXCEPT ![Responder] = step'[Responder]]
        /\ toResponder' = [toResponder EXCEPT ![p] = toResponder'[p]]
    BY <1>0, <1>1 DEF TypeOK
  <2> QED
    BY <1>0, <1>1, <1>2, <2>1, ResponderAlone
<1>4. at'[Responder] \in Sending /\ at'[Responder] \notin Reading \union {"sendSize"} /\ SameAt(p)
  BY <1>2, <1>3 DEF Sending, Reading, OnlyResponder
<1>5. InitiatorInv(p)'
  <2>1. CASE at[p] \in Reading
    <3>1. PICK c \in 0 .. Whole : InitiatorHears(p, c)
      BY <1>0, <2>1 DEF ConnectionInv, InitiatorInv
    <3>2. step[p] = step[Responder]
      BY <1>0, <2>1 DEF ConnectionInv, TurnInv
    <3>3. c = 0
      BY <1>0, <3>1, <3>2 DEF InitiatorHears, Serves, Sent
    <3>4. Reads(at[p], got[p], toInitiator'[p], step[Responder], IntSize)
      <4>1. Reads(at[p], got[p], toInitiator[p], step[Responder], 0)
        BY <3>1, <3>2, <3>3 DEF InitiatorHears, Cut
      <4>2. step[Responder] \in 1 .. 4
        BY <1>0
      <4>3. Reads(at[p], got[p], toInitiator[p] \o SizeOf(step[Responder]),
                  step[Responder], IntSize)
        BY <4>1, <4>2, SizeArrives
      <4> QED
        BY <4>3, <1>2
    <3>5. Sent(Responder, IntSize)'
      BY <1>4 DEF Sent
    <3>6. IntSize # Whole /\ IntSize \in 0 .. Whole
      BY Sizes
    <3>7. InitiatorHears(p, IntSize)'
      BY <3>2, <3>4, <3>5, <3>6, <1>1, <1>4 DEF InitiatorHears, Cut, SameAt
    <3> QED
      BY <1>0, <1>4, <3>6, <3>7 DEF InitiatorInv, SameAt
  <2>2. CASE at[p] \notin Reading
    BY <2>2, <1>0, <1>4 DEF InitiatorInv, SameAt
  <2> QED
    BY <2>1, <2>2
<1>6. WaitingInv(p)'
  BY <1>0, <1>1, <1>4 DEF WaitingInv, SameAt
<1>7. TurnInv(p)'
  BY <1>0, <1>1, <1>2, <1>4 DEF ConnectionInv, TurnInv, SameAt
<1>8. AgreedInv(p)'
  BY <1>0, <1>1, <1>4 DEF ConnectionInv, AgreedInv, SameAt
<1>9. ConnectionInv(p)'
  BY <1>5, <1>6, <1>7, <1>8 DEF ConnectionInv
<1> QED
  BY <1>0, <1>1, <1>2, <1>3, <1>4, <1>9, ResponderMoves DEF IInv, Core, OnlyResponder

\* The whole message is on its way; with V_S the responder has agreed.
LEMMA ResponderSendBodyKeeps ==
  ASSUME IInv, NEW p \in Initiators, peer = p, SendBody(Responder)
  PROVE  Core'
<1>0. /\ TypeOK /\ ProgramInv /\ ConnectionInv(p) /\ Responder \in Ends
      /\ at[Responder] = "sendBody" /\ at[Responder] \in Sending /\ at[Responder] \notin Reading
      /\ step[Responder] \in {2, 4} /\ step[Responder] \in 1 .. 4
      /\ Message(Responder) = step[Responder] /\ Advance(Responder)
      /\ at[p] \notin Sending \union {"start", "spinning", "printed"}
      /\ p \notin waiting /\ p \notin agreed
      /\ toResponder[p] = <<>>
  BY ResponderSteps, Served DEF IInv, SendBody, Sending, Reading, ConnectionInv, TurnInv
<1>1. /\ toResponder' = toResponder /\ peer' = peer /\ waiting' = waiting
      /\ got' = [got EXCEPT ![Responder] = <<>>]
      /\ toInitiator' = [toInitiator EXCEPT ![p] = toInitiator[p] \o BodyOf(step[Responder])]
  BY <1>0 DEF SendBody, write, Advance
<1>2. /\ toResponder'[p] = toResponder[p] /\ got'[Responder] = <<>>
      /\ toInitiator'[p] = toInitiator[p] \o BodyOf(step[Responder])
  BY <1>0, <1>1 DEF TypeOK
<1>3. at[p] \in Reading =>
        /\ step[p] = step[Responder]
        /\ Reads(at[p], got[p], toInitiator'[p], step[p], Whole)
  <2>1. ASSUME at[p] \in Reading
        PROVE  /\ step[p] = step[Responder]
               /\ Reads(at[p], got[p], toInitiator'[p], step[p], Whole)
    <3>1. PICK c \in 0 .. Whole : InitiatorHears(p, c)
      BY <1>0, <2>1 DEF ConnectionInv, InitiatorInv
    <3>2. step[p] = step[Responder]
      BY <1>0, <2>1 DEF ConnectionInv, TurnInv
    <3>3. c = IntSize
      BY <1>0, <3>1, <3>2 DEF InitiatorHears, Serves, Sent
    <3>4. Reads(at[p], got[p], toInitiator[p], step[Responder], IntSize)
      BY <3>1, <3>2, <3>3 DEF InitiatorHears, Cut
    <3>5. step[Responder] \in 1 .. 4
      BY <1>0
    <3>6. Reads(at[p], got[p], toInitiator[p] \o BodyOf(step[Responder]),
                step[Responder], Whole)
      BY <3>4, <3>5, BodyArrives
    <3> QED
      BY <3>2, <3>6, <1>2
  <2> QED
    BY <2>1
<1>4. Whole \in 0 .. Whole /\ 0 \in 0 .. Whole
  BY Sizes
<1>5. CASE step[Responder] = 2
  <2>1. /\ step' = [step EXCEPT ![Responder] = 3] /\ at' = [at EXCEPT ![Responder] = "readSize"]
        /\ agreed' = agreed
    <3>1. Message(Responder) # V_S
      BY <1>0, <1>5
    <3>2. agreed' = agreed
      BY <3>1 DEF SendBody
    <3> QED
      BY <1>0, <1>5, <3>2, ResponderAdvances
  <2>2. at'[Responder] = "readSize" /\ step'[Responder] = 3
    BY <1>0, <2>1 DEF TypeOK
  <2>3. OnlyResponder(p)
    <3>1. toResponder' = [toResponder EXCEPT ![p] = toResponder'[p]]
      BY <1>0, <1>1 DEF TypeOK
    <3> QED
      BY <1>0, <1>1, <1>2, <2>1, <2>2, <3>1, ResponderAlone
  <2>4. at'[Responder] \in Reading /\ at'[Responder] \notin Sending \union {"compute"} /\ SameAt(p)
    BY <2>2, <2>3 DEF Sending, Reading, OnlyResponder
  <2>5. InitiatorInv(p)'
    <3>1. CASE at[p] \in Reading
      <4>1. step[p] = 2 /\ Reads(at[p], got[p], toInitiator'[p], step[p], Whole)
        BY <1>3, <1>5, <3>1
      <4>2. InitiatorHears(p, Whole)'
        BY <4>1, <2>2, <2>4 DEF InitiatorHears, Cut, Serves, SameAt
      <4> QED
        BY <1>0, <1>4, <2>4, <4>2 DEF InitiatorInv, SameAt
    <3>2. CASE at[p] \notin Reading
      BY <3>2, <1>0, <2>4 DEF InitiatorInv, SameAt
    <3> QED
      BY <3>1, <3>2
  <2>6. WaitingInv(p)'
    BY <1>0, <1>1, <2>4 DEF WaitingInv, SameAt
  <2>7. TurnInv(p)'
    <3>1. ResponderHears(p, 0)'
      <4>1. Reads("readSize", <<>>, <<>>, 3, 0)
        BY NothingRead, Numbers
      <4>2. Sent(p, 0)'
        BY <1>0, <2>4 DEF Sent, SameAt, Sending
      <4> QED
        BY <4>1, <4>2, <1>0, <1>2, <2>2 DEF ResponderHears, Cut
    <3>2. at'[p] \in Reading => step'[p] = step'[Responder] - 1
      BY <1>3, <1>5, <2>2, <2>4 DEF SameAt
    <3> QED
      BY <3>1, <3>2, <1>0, <1>4, <2>4 DEF TurnInv, SameAt
  <2>8. AgreedInv(p)'
    BY <1>0, <1>1, <2>1, <2>4 DEF ConnectionInv, AgreedInv, SameAt
  <2>9. ConnectionInv(p)'
    BY <2>5, <2>6, <2>7, <2>8 DEF ConnectionInv
  <2> QED
    BY <1>0, <1>1, <2>1, <2>2, <2>3, <2>4, <2>9, ResponderMoves DEF IInv, Core, OnlyResponder
<1>6. CASE step[Responder] = 4
  <2>1. /\ step' = step /\ at' = [at EXCEPT ![Responder] = "print"]
        /\ agreed' = agreed \union {p}
    <3>1. Message(Responder) = V_S
      BY <1>0, <1>6
    <3>2. agreed' = agreed \union {p}
      BY <3>1 DEF SendBody
    <3> QED
      BY <1>0, <1>6, <3>2, ResponderAdvances
  <2>2. at'[Responder] = "print" /\ p \in agreed'
    BY <1>0, <2>1 DEF TypeOK
  <2>3. OnlyResponder(p)
    <3>1. /\ toResponder' = [toResponder EXCEPT ![p] = toResponder'[p]]
          /\ step' = [step EXCEPT ![Responder] = step'[Responder]]
      BY <1>0, <1>1, <2>1 DEF TypeOK
    <3> QED
      BY <1>0, <1>1, <1>2, <2>1, <2>2, <3>1, ResponderAlone
  <2>4. at'[Responder] \notin Sending \union Reading \union {"dead"} /\ SameAt(p)
    BY <2>2, <2>3 DEF Sending, Reading, OnlyResponder
  <2>5. InitiatorInv(p)'
    <3>1. CASE at[p] \in Reading
      <4>1. Reads(at[p], got[p], toInitiator'[p], step[p], Whole)
        BY <1>3, <3>1
      <4>2. Sent(Responder, Whole)'
        BY <2>2 DEF Sent
      <4>3. InitiatorHears(p, Whole)'
        BY <4>1, <4>2, <2>2, <2>4 DEF InitiatorHears, Cut, SameAt
      <4> QED
        BY <1>0, <1>4, <2>4, <4>3 DEF InitiatorInv, SameAt
    <3>2. CASE at[p] \notin Reading
      BY <3>2, <1>0, <2>4 DEF InitiatorInv, SameAt
    <3> QED
      BY <3>1, <3>2
  <2>6. WaitingInv(p)' /\ TurnInv(p)'
    BY <1>0, <1>1, <2>4 DEF WaitingInv, TurnInv, SameAt
  <2>7. AgreedInv(p)'
    BY <1>0, <1>1, <2>2, <2>4 DEF AgreedInv, SameAt
  <2>8. ConnectionInv(p)'
    BY <2>5, <2>6, <2>7 DEF ConnectionInv
  <2> QED
    BY <1>0, <1>1, <2>1, <2>3, <2>4, <2>8, ResponderMoves DEF IInv, Core, OnlyResponder
<1> QED
  BY <1>0, <1>5, <1>6

\* The responder takes bytes from the stream of its peer.
LEMMA ResponderReads ==
  ASSUME IInv, NEW p \in Initiators, peer = p, peer' = p, OnlyResponder(p),
         at[Responder] \in Reading, at'[Responder] \in Reading,
         step'[Responder] = step[Responder], toInitiator'[p] = toInitiator[p],
         waiting' = waiting, agreed' = agreed,
         NEW c \in 0 .. Whole, ResponderHears(p, c),
         Reads(at'[Responder], got'[Responder], toResponder'[p], step[Responder], c)
  PROVE  Core'
<1>0. /\ ConnectionInv(p) /\ TypeOK /\ ProgramInv /\ SameAt(p)
      /\ at[p] # "start" /\ p \notin waiting /\ p \notin agreed
      /\ at'[Responder] \notin Sending \union {"dead", "print"}
      /\ at[Responder] \notin Sending \union {"dead", "print"}
      /\ step[Responder] \in 1 .. 4
  BY Served, ResponderSteps DEF IInv, OnlyResponder, Reading, Sending
<1>1. at[p] \in Sending => at'[Responder] # "compute"
  <2>1. ASSUME at[p] \in Sending, at'[Responder] = "compute" PROVE FALSE
    <3>1. Reads("compute", got'[Responder], toResponder'[p], step[Responder], c)
      BY <2>1
    <3>2. c = Whole
      BY <1>0, <3>1, BodyComplete
    <3>3. Whole # 0 /\ Whole # IntSize
      BY Sizes
    <3> QED
      BY <2>1, <3>2, <3>3 DEF ResponderHears, Sent, Sending
  <2> QED
    BY <2>1
<1>2. InitiatorInv(p)'
  <2>1. CASE at[p] \in Reading
    <3>1. PICK d \in 0 .. Whole : InitiatorHears(p, d)
      BY <1>0, <2>1 DEF ConnectionInv, InitiatorInv
    <3>2. Sent(Responder, d)'
      BY <1>0 DEF Sent, Sending
    <3>3. InitiatorHears(p, d)'
      BY <1>0, <3>1, <3>2 DEF InitiatorHears, Cut, SameAt
    <3>4. at'[p] \notin Sending \union {"start"}
      BY <1>0, <2>1 DEF Reading, Sending, SameAt
    <3> QED
      BY <3>3, <3>4 DEF InitiatorInv
  <2>2. CASE at[p] \notin Reading
    BY <2>2, <1>0 DEF ConnectionInv, InitiatorInv, SameAt
  <2> QED
    BY <2>1, <2>2
<1>3. WaitingInv(p)' /\ AgreedInv(p)'
  BY <1>0 DEF ConnectionInv, WaitingInv, AgreedInv, SameAt
<1>4. TurnInv(p)'
  <2>1. ResponderHears(p, c)'
    BY <1>0 DEF ResponderHears, Cut, Sent, SameAt
  <2>2. /\ at[p] \in Sending => step[p] = step[Responder]
        /\ at[p] \in Reading =>
             step[p] = step[Responder] - 1
               \/ (step[p] = step[Responder] + 1 /\ Untouched(p))
        /\ at[p] \notin {"spinning", "printed"}
    BY <1>0 DEF ConnectionInv, TurnInv
  <2>3. (step[p] = step[Responder] - 1
           \/ (step[p] = step[Responder] + 1 /\ Untouched(p)))
        => (step[p] = step[Responder] - 1
              \/ (step[p] = step[Responder] + 1 /\ Untouched(p)))'
    BY <1>0 DEF SameAt, Untouched
  <2>4. /\ at'[p] \in Sending =>
             step'[p] = step'[Responder] /\ at'[Responder] # "compute"
        /\ at'[p] \notin {"spinning", "printed"}
    BY <1>0, <1>1, <2>2 DEF SameAt
  <2> QED
    BY <1>0, <2>1, <2>2, <2>3, <2>4 DEF TurnInv, SameAt
<1>5. ConnectionInv(p)'
  BY <1>2, <1>3, <1>4 DEF ConnectionInv
<1>6. step'[Responder] \in {X, V_U}
  BY <1>0 DEF ProgramInv
<1> QED
  BY <1>0, <1>5, <1>6, ResponderMoves DEF IInv, Core, OnlyResponder

\* What a read of n bytes does to the stream and leaves alone.
LEMMA ResponderReadOut ==
  ASSUME IInv, NEW p \in Initiators, peer = p, NEW n \in Nat, read(Responder, n)
  PROVE  /\ n <= Len(toResponder[p])
         /\ toResponder' = [toResponder EXCEPT ![p] = toResponder'[p]]
         /\ toResponder'[p] = SubSeq(toResponder[p], n + 1, Len(toResponder[p]))
         /\ toInitiator' = [toInitiator EXCEPT ![p] = toInitiator'[p]]
         /\ toInitiator'[p] = toInitiator[p]
         /\ With(Responder, n) = got[Responder] \o SubSeq(toResponder[p], 1, n)
<1>1. TypeOK
  BY DEF IInv
<1>2. /\ n <= Len(toResponder[p]) /\ toInitiator' = toInitiator
      /\ toResponder' = [toResponder EXCEPT ![p] = SubSeq(toResponder[p], n + 1, Len(toResponder[p]))]
      /\ With(Responder, n) = got[Responder] \o SubSeq(toResponder[p], 1, n)
  BY DEF read, Incoming, With
<1>3. toInitiator' = [toInitiator EXCEPT ![p] = toInitiator'[p]] /\ toInitiator'[p] = toInitiator[p]
  BY <1>1, <1>2 DEF TypeOK
<1>4. toResponder'[p] = SubSeq(toResponder[p], n + 1, Len(toResponder[p]))
  BY <1>1, <1>2 DEF TypeOK
<1> QED
  BY <1>2, <1>3, <1>4

\* What is there for the responder where it reads.
LEMMA ResponderHearing ==
  ASSUME IInv, NEW p \in Initiators, peer = p, at[Responder] \in Reading
  PROVE  \E c \in 0 .. Whole :
           /\ ResponderHears(p, c)
           /\ Reads(at[Responder], got[Responder], toResponder[p], step[Responder], c)
<1>1. PICK c \in 0 .. Whole : ResponderHears(p, c)
  BY DEF IInv, ConnectionInv, TurnInv
<1> QED
  BY <1>1 DEF ResponderHears, Cut

LEMMA ResponderReadSizeKeeps ==
  ASSUME IInv, NEW p \in Initiators, peer = p, ReadSize(Responder)
  PROVE  Core'
<1>0. /\ TypeOK /\ ProgramInv /\ Responder \in Ends
      /\ at[Responder] = "readSize" /\ at[Responder] \in Reading
      /\ step[Responder] \in 1 .. 4 /\ step' = step /\ agreed' = agreed
      /\ step' = [step EXCEPT ![Responder] = step'[Responder]]
  BY ResponderSteps DEF IInv, ReadSize, Reading, TypeOK
<1>1. PICK n \in 1 .. IntSize :
        /\ read(Responder, n)
        /\ \/ /\ Len(got[Responder]) + n < IntSize
              /\ got' = [got EXCEPT ![Responder] = With(Responder, n)]
              /\ UNCHANGED <<at, waiting, peer>>
           \/ /\ Len(got[Responder]) + n >= IntSize
              /\ got' = [got EXCEPT ![Responder] = <<>>]
              /\ at' = [at EXCEPT ![Responder] = "readBody"]
              /\ UNCHANGED <<waiting, peer>>
           \/ Die(Responder)
  BY DEF ReadSize
<1>2. n \in Nat
  BY Sizes
<1>3. /\ n <= Len(toResponder[p])
      /\ toResponder' = [toResponder EXCEPT ![p] = toResponder'[p]]
      /\ toResponder'[p] = SubSeq(toResponder[p], n + 1, Len(toResponder[p]))
      /\ toInitiator' = [toInitiator EXCEPT ![p] = toInitiator'[p]]
      /\ toInitiator'[p] = toInitiator[p]
      /\ With(Responder, n) = got[Responder] \o SubSeq(toResponder[p], 1, n)
  BY <1>1, <1>2, ResponderReadOut
<1>4. PICK c \in 0 .. Whole :
        /\ ResponderHears(p, c)
        /\ Reads(at[Responder], got[Responder], toResponder[p], step[Responder], c)
  BY <1>0, ResponderHearing
<1>6. /\ Len(got[Responder]) + n < IntSize =>
           Reads("readSize", With(Responder, n), toResponder'[p], step[Responder], c)
      /\ Len(got[Responder]) + n >= IntSize =>
           Reads("readBody", <<>>, toResponder'[p], step[Responder], c)
  <2>1. Reads("readSize", got[Responder], toResponder[p], step[Responder], c)
    BY <1>0, <1>4
  <2>2. step[Responder] \in 1 .. 4 /\ n \in Nat /\ n <= Len(toResponder[p])
    BY <1>0, <1>2, <1>3
  <2>3. /\ Len(got[Responder]) + n < IntSize =>
             Reads("readSize", got[Responder] \o SubSeq(toResponder[p], 1, n),
                   SubSeq(toResponder[p], n + 1, Len(toResponder[p])), step[Responder], c)
        /\ Len(got[Responder]) + n >= IntSize =>
             Reads("readBody", <<>>,
                   SubSeq(toResponder[p], n + 1, Len(toResponder[p])), step[Responder], c)
    BY <2>1, <2>2, SizeRead
  <2> QED
    BY <2>3, <1>3, Zenon
<1>7. CASE /\ Len(got[Responder]) + n < IntSize
           /\ got' = [got EXCEPT ![Responder] = With(Responder, n)]
           /\ UNCHANGED <<at, waiting, peer>>
  <2>1. /\ at' = [at EXCEPT ![Responder] = at'[Responder]] /\ at'[Responder] = "readSize"
        /\ got'[Responder] = With(Responder, n)
    BY <1>0, <1>7 DEF TypeOK
  <2>2. OnlyResponder(p)
    BY <1>0, <1>3, <1>7, <2>1, ResponderAlone
  <2>3. Reads(at'[Responder], got'[Responder], toResponder'[p], step[Responder], c)
    BY <1>6, <1>7, <2>1
  <2> QED
    BY <1>0, <1>3, <1>4, <1>7, <2>1, <2>2, <2>3, ResponderReads
<1>8. CASE /\ Len(got[Responder]) + n >= IntSize
           /\ got' = [got EXCEPT ![Responder] = <<>>]
           /\ at' = [at EXCEPT ![Responder] = "readBody"]
           /\ UNCHANGED <<waiting, peer>>
  <2>1. /\ at' = [at EXCEPT ![Responder] = at'[Responder]] /\ at'[Responder] = "readBody"
        /\ got' = [got EXCEPT ![Responder] = got'[Responder]] /\ got'[Responder] = <<>>
        /\ at'[Responder] \in Reading
    BY <1>0, <1>8 DEF TypeOK, Reading
  <2>2. OnlyResponder(p)
    BY <1>0, <1>3, <1>8, <2>1, ResponderAlone
  <2>3. Reads(at'[Responder], got'[Responder], toResponder'[p], step[Responder], c)
    BY <1>6, <1>8, <2>1
  <2> QED
    BY <1>0, <1>3, <1>4, <1>8, <2>1, <2>2, <2>3, ResponderReads
<1>9. CASE Die(Responder)
  <2>1. /\ at' = [at EXCEPT ![Responder] = "dead"] /\ got' = [got EXCEPT ![Responder] = <<>>]
        /\ peer' = None /\ waiting' = {}
    BY <1>9 DEF Die
  <2>2. at'[Responder] = "dead" /\ got'[Responder] = <<>>
    BY <1>0, <2>1 DEF TypeOK
  <2>3. OnlyResponder(p)
    BY <1>0, <1>3, <2>1, <2>2, ResponderAlone
  <2> QED
    BY <1>0, <1>3, <2>1, <2>2, <2>3, ResponderLeaves
<1> QED
  BY <1>1, <1>7, <1>8, <1>9

LEMMA ResponderReadBodyKeeps ==
  ASSUME IInv, NEW p \in Initiators, peer = p, ReadBody(Responder)
  PROVE  Core'
<1>0. /\ TypeOK /\ ProgramInv /\ Responder \in Ends
      /\ at[Responder] = "readBody" /\ at[Responder] \in Reading
      /\ step[Responder] \in 1 .. 4 /\ step' = step /\ agreed' = agreed
      /\ waiting' = waiting /\ peer' = peer
      /\ step' = [step EXCEPT ![Responder] = step'[Responder]]
  BY ResponderSteps DEF IInv, ReadBody, Reading, TypeOK
<1>1. PICK n \in 1 .. BodySize :
        /\ read(Responder, n)
        /\ got' = [got EXCEPT ![Responder] = With(Responder, n)]
        /\ at' = [at EXCEPT ![Responder] =
                    IF Len(got[Responder]) + n < BodySize THEN at[Responder] ELSE "compute"]
  BY DEF ReadBody
<1>2. n \in Nat
  BY Sizes
<1>3. /\ n <= Len(toResponder[p])
      /\ toResponder' = [toResponder EXCEPT ![p] = toResponder'[p]]
      /\ toResponder'[p] = SubSeq(toResponder[p], n + 1, Len(toResponder[p]))
      /\ toInitiator' = [toInitiator EXCEPT ![p] = toInitiator'[p]]
      /\ toInitiator'[p] = toInitiator[p]
      /\ With(Responder, n) = got[Responder] \o SubSeq(toResponder[p], 1, n)
  BY <1>1, <1>2, ResponderReadOut
<1>4. PICK c \in 0 .. Whole :
        /\ ResponderHears(p, c)
        /\ Reads(at[Responder], got[Responder], toResponder[p], step[Responder], c)
  BY <1>0, ResponderHearing
<1>6. Reads(IF Len(got[Responder]) + n < BodySize THEN "readBody" ELSE "compute",
            With(Responder, n), toResponder'[p], step[Responder], c)
  <2>1. Reads("readBody", got[Responder], toResponder[p], step[Responder], c)
    BY <1>0, <1>4
  <2>2. step[Responder] \in 1 .. 4 /\ n \in Nat /\ n <= Len(toResponder[p])
    BY <1>0, <1>2, <1>3
  <2>3. /\ Len(got[Responder]) + n < BodySize =>
             Reads("readBody", got[Responder] \o SubSeq(toResponder[p], 1, n),
                   SubSeq(toResponder[p], n + 1, Len(toResponder[p])), step[Responder], c)
        /\ ~ (Len(got[Responder]) + n < BodySize) =>
             Reads("compute", got[Responder] \o SubSeq(toResponder[p], 1, n),
                   SubSeq(toResponder[p], n + 1, Len(toResponder[p])), step[Responder], c)
    BY <2>1, <2>2, BodyRead
  <2> QED
    BY <2>3, <1>3, Zenon
<1>7. /\ at'[Responder] = IF Len(got[Responder]) + n < BodySize THEN "readBody" ELSE "compute"
      /\ got'[Responder] = With(Responder, n)
  BY <1>0, <1>1 DEF TypeOK
<1>8. /\ at' = [at EXCEPT ![Responder] = at'[Responder]]
      /\ got' = [got EXCEPT ![Responder] = got'[Responder]]
      /\ at'[Responder] \in Reading
  BY <1>0, <1>1, <1>7 DEF Reading
<1>9. OnlyResponder(p)
  BY <1>0, <1>3, <1>8, ResponderAlone
<1>10. Reads(at'[Responder], got'[Responder], toResponder'[p], step[Responder], c)
  BY <1>6, <1>7
<1> QED
  BY <1>0, <1>3, <1>4, <1>8, <1>9, <1>10, ResponderReads

LEMMA ResponderReadEndsKeeps ==
  ASSUME IInv, NEW p \in Initiators, peer = p, ReadEnds(Responder)
  PROVE  Core'
<1>0. step' = step /\ agreed' = agreed /\ UNCHANGED wire
  BY DEF ReadEnds
<1>1. CASE Done(Responder)
  BY <1>0, <1>1, ResponderGivesUp
<1>2. CASE /\ at' = [at EXCEPT ![Responder] = "spinning"]
           /\ got' = [got EXCEPT ![Responder] = <<>>]
           /\ UNCHANGED <<waiting, peer>>
  <2>1. /\ Responder \in Ends /\ TypeOK /\ ProgramInv /\ ConnectionInv(p)
        /\ at[Responder] \in Reading /\ at[p] = "exited" /\ p \notin waiting /\ p \notin agreed
    BY Served, ResponderSteps
       DEF IInv, ReadEnds, Reading, PeerGone, ConnectionInv, TurnInv
  <2>2. at'[Responder] = "spinning" /\ got'[Responder] = <<>>
    BY <1>2, <2>1 DEF TypeOK
  <2>3. /\ step' = [step EXCEPT ![Responder] = step'[Responder]]
        /\ toResponder' = [toResponder EXCEPT ![p] = toResponder'[p]]
        /\ toInitiator' = [toInitiator EXCEPT ![p] = toInitiator'[p]]
    BY <1>0, <2>1 DEF TypeOK, wire
  <2>4. OnlyResponder(p)
    BY <1>0, <1>2, <2>1, <2>2, <2>3, ResponderAlone
  <2>5. /\ at'[Responder] \notin Reading \union Sending \union {"dead"}
        /\ at[Responder] # "dead"
        /\ at'[p] \notin Reading \union Sending \union {"start", "printed"}
        /\ SameAt(p)
    BY <2>1, <2>2, <2>4 DEF Reading, Sending, OnlyResponder, SameAt
  <2>6. InitiatorInv(p)' /\ WaitingInv(p)' /\ TurnInv(p)' /\ AgreedInv(p)'
    BY <1>0, <1>2, <2>1, <2>5 DEF InitiatorInv, WaitingInv, TurnInv, AgreedInv
  <2>7. ConnectionInv(p)'
    BY <2>6 DEF ConnectionInv
  <2> QED
    BY <1>2, <2>4, <2>5, <2>7, ResponderMoves DEF IInv, Core, OnlyResponder
<1> QED
  BY <1>1, <1>2 DEF ReadEnds

\* Of a message of which nothing has been read and nothing is on its way,
\* nothing has been sent.
LEMMA NothingSent ==
  ASSUME NEW m \in 1 .. 4, NEW c, Reads("readSize", <<>>, <<>>, m, c)
  PROVE  c = 0
<1>1. PICK a, b \in 0 .. Whole : Window("readSize", <<>>, <<>>, m, a, b, c)
  BY DEF Reads
<1>2. /\ a = 0 /\ a <= b /\ b <= c /\ c \in {0, IntSize, Whole}
      /\ <<>> = Part(m, a, b) /\ <<>> = Part(m, b, c)
  BY <1>1 DEF Window
<1>3. a \in Nat /\ b \in Nat /\ c \in Nat /\ b <= Whole /\ c <= Whole
  BY <1>2, Sizes
<1>4. a = b
  BY <1>2, <1>3, PartEmpty
<1>5. b = c
  BY <1>2, <1>3, PartEmpty
<1> QED
  BY <1>2, <1>4, <1>5

\* The peer of a responder that has a whole message waits for the answer.
LEMMA ResponderComputeKeeps ==
  ASSUME IInv, NEW p \in Initiators, peer = p, Compute(Responder)
  PROVE  Core'
<1>0. /\ TypeOK /\ ProgramInv /\ ConnectionInv(p) /\ Responder \in Ends
      /\ at[Responder] = "compute" /\ at[Responder] \in Reading
      /\ step[Responder] \in {1, 3} /\ step[Responder] \in 1 .. 4
      /\ agreed' = agreed /\ toResponder' = toResponder /\ toInitiator' = toInitiator
      /\ UNCHANGED wire
      /\ at[p] \notin Sending \union {"start", "spinning", "printed"}
      /\ p \notin waiting /\ p \notin agreed
  BY ResponderSteps, Served DEF IInv, Compute, Reading, ConnectionInv, TurnInv, wire
<1>1. PICK c \in 0 .. Whole :
        /\ ResponderHears(p, c)
        /\ Reads(at[Responder], got[Responder], toResponder[p], step[Responder], c)
  BY <1>0, ResponderHearing
<1>2. c = Whole /\ toResponder[p] = <<>>
  <2>1. Reads("compute", got[Responder], toResponder[p], step[Responder], c)
    BY <1>0, <1>1
  <2>2. step[Responder] \in 1 .. 4
    BY <1>0
  <2> QED
    BY <2>1, <2>2, BodyComplete
<1>3. at[p] \in Reading => step[p] = step[Responder] + 1 /\ Untouched(p)
  <2>1. ASSUME at[p] \in Reading, step[p] = step[Responder] - 1 PROVE FALSE
    <3>1. step[p] < step[Responder]
      BY <1>0, <2>1
    <3>2. c = 0
      BY <1>1, <2>1, <3>1 DEF ResponderHears
    <3> QED
      BY <1>2, <3>2, Sizes
  <2> QED
    BY <1>0, <2>1 DEF ConnectionInv, TurnInv
<1>4. CASE Done(Responder) /\ UNCHANGED step
  BY <1>0, <1>4, ResponderGivesUp
<1>5. CASE Advance(Responder)
  <2>1. /\ got' = [got EXCEPT ![Responder] = <<>>] /\ peer' = peer /\ waiting' = waiting
        /\ step' = [step EXCEPT ![Responder] = step[Responder] + 1]
        /\ at' = [at EXCEPT ![Responder] = "sendSize"]
    <3>1. /\ got' = [got EXCEPT ![Responder] = <<>>] /\ peer' = peer /\ waiting' = waiting
          /\ step[Responder] = 1 => /\ step' = [step EXCEPT ![Responder] = 2]
                                    /\ at' = [at EXCEPT ![Responder] = "sendSize"]
          /\ step[Responder] = 3 => /\ step' = [step EXCEPT ![Responder] = 4]
                                    /\ at' = [at EXCEPT ![Responder] = "sendSize"]
      BY <1>0, <1>5, ResponderAdvances
    <3>2. CASE step[Responder] = 1
      BY <3>1, <3>2, Numbers
    <3>3. CASE step[Responder] = 3
      BY <3>1, <3>3, Numbers
    <3> QED
      BY <1>0, <3>2, <3>3
  <2>2. /\ at'[Responder] = "sendSize" /\ step'[Responder] = step[Responder] + 1
        /\ got'[Responder] = <<>>
    BY <1>0, <2>1 DEF TypeOK
  <2>3. OnlyResponder(p)
    <3>1. /\ toResponder' = [toResponder EXCEPT ![p] = toResponder'[p]]
          /\ toInitiator' = [toInitiator EXCEPT ![p] = toInitiator'[p]]
      BY <1>0 DEF TypeOK
    <3> QED
      BY <1>0, <2>1, <2>2, <3>1, ResponderAlone
  <2>4. /\ at'[Responder] \in Sending /\ SameAt(p)
        /\ at'[Responder] \notin Reading \union {"sendBody", "dead", "print"}
        /\ step[Responder] + 1 \in {2, 4}
    <3>1. step[Responder] + 1 \in {2, 4}
      BY <1>0, Numbers, Zenon
    <3> QED
      BY <2>2, <2>3, <3>1 DEF Sending, Reading, OnlyResponder
  <2>5. InitiatorInv(p)'
    <3>1. CASE at[p] \in Reading
      <4>1. PICK d \in 0 .. Whole : InitiatorHears(p, d)
        BY <1>0, <3>1 DEF ConnectionInv, InitiatorInv
      <4>2. d = 0
        <5>1. Reads("readSize", <<>>, <<>>, step[p], d)
          BY <1>3, <3>1, <4>1 DEF InitiatorHears, Cut, Untouched
        <5>2. step[p] \in 1 .. 4
          BY <1>0 DEF TypeOK, Ends
        <5> QED
          BY <5>1, <5>2, NothingSent
      <4>3. Sent(Responder, 0)'
        BY <2>4 DEF Sent
      <4>4. InitiatorHears(p, d)'
        BY <1>0, <2>4, <4>1, <4>2, <4>3 DEF InitiatorHears, Cut, SameAt
      <4> QED
        BY <1>0, <2>4, <4>4 DEF InitiatorInv, SameAt
    <3>2. CASE at[p] \notin Reading
      BY <3>2, <1>0, <2>4 DEF InitiatorInv, SameAt
    <3> QED
      BY <3>1, <3>2
  <2>6. WaitingInv(p)' /\ AgreedInv(p)'
    BY <1>0, <2>1, <2>4 DEF ConnectionInv, WaitingInv, AgreedInv, SameAt
  <2>7. TurnInv(p)'
    BY <1>0, <1>2, <1>3, <2>2, <2>4 DEF TurnInv, SameAt
  <2>8. ConnectionInv(p)'
    BY <2>5, <2>6, <2>7 DEF ConnectionInv
  <2> QED
    BY <1>0, <2>1, <2>2, <2>3, <2>4, <2>8, ResponderMoves DEF IInv, Core, OnlyResponder
<1> QED
  BY <1>0, <1>4, <1>5 DEF Compute

\* Whatever the responder does where it serves p.
LEMMA ResponderKeeps ==
  ASSUME IInv, NEW p \in Initiators, peer = p, Step(Responder) \/ Kill(Responder) \/ PrintSK
  PROVE  Core'
<1>1. SendFails(Responder) =>
        /\ Die(Responder) \/ Done(Responder)
        /\ step' = step /\ agreed' = agreed /\ UNCHANGED wire
  BY DEF SendFails
<1>2. Kill(Responder) =>
        Die(Responder) /\ step' = step /\ agreed' = agreed /\ UNCHANGED wire
  BY DEF Kill
<1>3. ASSUME PrintSK PROVE Core'
  <2>1. /\ at' = [at EXCEPT ![Responder] = "accept"] /\ peer' = None
        /\ got' = got /\ step' = step /\ waiting' = waiting /\ agreed' = agreed
        /\ toResponder' = toResponder /\ toInitiator' = toInitiator
        /\ TypeOK /\ Responder \in Ends
    BY <1>3, Names DEF PrintSK, wire, IInv
  <2>2. /\ at'[Responder] = "accept" /\ toInitiator'[p] = toInitiator[p]
        /\ got' = [got EXCEPT ![Responder] = got'[Responder]]
        /\ step' = [step EXCEPT ![Responder] = step'[Responder]]
        /\ toResponder' = [toResponder EXCEPT ![p] = toResponder'[p]]
        /\ toInitiator' = [toInitiator EXCEPT ![p] = toInitiator'[p]]
    BY <2>1 DEF TypeOK
  <2>3. OnlyResponder(p)
    BY <2>1, <2>2, ResponderAlone
  <2> QED
    BY <2>1, <2>2, <2>3, ResponderLeaves
<1> QED
  BY <1>1, <1>2, <1>3, ResponderSendSizeKeeps, ResponderSendBodyKeeps, ResponderReadSizeKeeps,
     ResponderReadBodyKeeps, ResponderReadEndsKeeps, ResponderComputeKeeps, ResponderGivesUp
     DEF Step

-----------------------------------------------------------------------------
(* Between two connections                                                 *)

\* What the size of X is read from where a connection is accepted.
LEMMA FirstRead ==
  ASSUME NEW c \in {0, IntSize, Whole}
  PROVE  Reads("readSize", <<>>, Part(X, 0, c), X, c)
<1>1. 0 \in 0 .. Whole /\ 0 <= 0 /\ 0 <= c /\ 0 < IntSize
  BY Sizes
<1>2. <<>> = Part(X, 0, 0)
  BY SendOn, Numbers
<1>3. Window("readSize", <<>>, Part(X, 0, c), X, 0, 0, c)
  BY <1>1, <1>2 DEF Window
<1> QED
  BY <1>1, <1>3 DEF Reads

LEMMA AcceptKeeps ==
  ASSUME IInv, NEW i \in Initiators, Accept(i)
  PROVE  Core'
<1>0. /\ TypeOK /\ ProgramInv /\ DeadInv /\ ConnectionInv(i) /\ Responder \in Ends
      /\ at[Responder] = "accept" /\ got[Responder] = <<>> /\ peer = None
      /\ i \in waiting /\ i \notin agreed /\ None \notin Initiators
      /\ at[i] \notin {"start", "printed", "spinning"}
      /\ at[i] \in Sending => step[i] = X
      /\ at[i] \in Reading => step[i] = Y /\ Untouched(i)
  BY Names DEF IInv, Accept, TypeOK, ConnectionInv, WaitingInv, AgreedInv, Stages, Reading
<1>1. /\ got' = got /\ waiting' = waiting \ {i} /\ agreed' = agreed
      /\ toResponder' = toResponder /\ toInitiator' = toInitiator
  BY DEF Accept, wire
<1>2. CASE UNCHANGED <<at, step, peer>>
  <2>1. ASSUME NEW j \in Initiators PROVE ConnectionInv(j)'
    <3>1. SameLocal(j) /\ SameResponder
      BY <1>1, <1>2 DEF SameLocal, SameResponder, SameAt, SameWire, SameLists
    <3> QED
      BY <3>1, Frame DEF IInv
  <2>2. ProgramInv' /\ DeadInv'
    BY <1>0, <1>1, <1>2 DEF ProgramInv, DeadInv
  <2> QED
    BY <2>1, <2>2 DEF Core
<1>3. CASE /\ at' = [at EXCEPT ![Responder] = Begin(Responder, 1)]
           /\ step' = [step EXCEPT ![Responder] = 1]
           /\ peer' = i
  <2>1. Begin(Responder, 1) = "readSize"
    <3>1. 1 \in 1 .. 4 /\ 1 \in {X, V_U}
      OBVIOUS
    <3> QED
      BY <3>1, ResponderProgram, Zenon
  <2>2. at'[Responder] = "readSize" /\ step'[Responder] = 1 /\ got'[Responder] = <<>>
    BY <1>0, <1>1, <1>3, <2>1 DEF TypeOK
  <2>3. ASSUME NEW j \in Initiators PROVE SameLocal(j)
    <3>1. j # Responder /\ j \in Ends
      BY Names
    <3> QED
      BY <1>0, <1>1, <1>3, <3>1 DEF SameLocal, SameAt, SameWire, SameLists, TypeOK
  <2>4. ASSUME NEW j \in Initiators, j # i PROVE ConnectionInv(j)'
    <3>1. peer # j /\ peer' # j /\ SameLocal(j) /\ ConnectionInv(j)
      BY <1>0, <1>3, <2>3, <2>4 DEF IInv
    <3> QED
      BY <3>1, Frame
  <2>5. /\ SameLocal(i) /\ SameAt(i) /\ SameWire(i)
        /\ at'[Responder] \in Reading
        /\ at'[Responder] \notin Sending \union {"compute", "dead", "print"}
    BY <2>2, <2>3 DEF SameLocal, Reading, Sending
  <2>6. InitiatorInv(i)'
    <3>1. CASE at[i] \in Reading
      <4>1. PICK d \in 0 .. Whole : InitiatorHears(i, d)
        BY <1>0, <3>1 DEF ConnectionInv, InitiatorInv
      <4>2. Sent(Responder, d)'
        BY <2>5 DEF Sent, Sending
      <4>3. InitiatorHears(i, d)'
        BY <1>1, <2>5, <4>1, <4>2 DEF InitiatorHears, Cut, SameAt
      <4>4. at'[i] \notin Sending \union {"start"}
        BY <2>5, <3>1 DEF Reading, Sending, SameAt
      <4> QED
        BY <4>3, <4>4 DEF InitiatorInv
    <3>2. CASE at[i] \notin Reading
      BY <3>2, <1>0, <1>1, <2>5 DEF ConnectionInv, InitiatorInv, SameAt
    <3> QED
      BY <3>1, <3>2
  <2>7. WaitingInv(i)' /\ AgreedInv(i)'
    BY <1>0, <1>1, <2>5 DEF WaitingInv, AgreedInv, SameAt
  <2>8. TurnInv(i)'
    <3>1. PICK c \in {0, IntSize, Whole} : toResponder[i] = Part(X, 0, c) /\ Sent(i, c)
      BY <1>0 DEF ConnectionInv, WaitingInv
    <3>2. Reads("readSize", <<>>, Part(X, 0, c), X, c)
      BY FirstRead
    <3>3. ~ (2 < 1) /\ 1 + 1 = 2
      OBVIOUS
    <3>4. ResponderHears(i, c)'
      BY <1>0, <1>1, <2>2, <2>5, <3>1, <3>2, <3>3 DEF ResponderHears, Cut, Sent, SameAt
    <3>5. c \in 0 .. Whole
      BY Sizes
    <3>6. (at[i] \in Reading => step[i] = step[Responder] + 1 /\ Untouched(i))'
      BY <1>0, <1>1, <2>2, <2>5, <3>3 DEF SameAt, Untouched
    <3>7. (at[i] \in Sending => step[i] = step[Responder])'
      BY <1>0, <2>2, <2>5 DEF SameAt
    <3> QED
      BY <1>0, <2>5, <3>4, <3>5, <3>6, <3>7 DEF TurnInv, SameAt
  <2>9. \A j \in Initiators : ConnectionInv(j)'
    BY <2>4, <2>6, <2>7, <2>8 DEF ConnectionInv
  <2>10. ProgramInv' /\ DeadInv'
    BY <1>0, <2>2, <2>3, <2>5 DEF ProgramInv, DeadInv, SameLocal, SameAt
  <2> QED
    BY <2>9, <2>10 DEF Core
<1> QED
  BY <1>2, <1>3 DEF Accept

\* s_server is killed between two connections.
LEMMA KillKeeps ==
  ASSUME IInv, peer = None, Kill(Responder)
  PROVE  Core'
<1>0. /\ TypeOK /\ ProgramInv /\ DeadInv /\ Responder \in Ends
      /\ None \notin Initiators
  BY Names DEF IInv
<1>1. /\ at' = [at EXCEPT ![Responder] = "dead"] /\ got' = [got EXCEPT ![Responder] = <<>>]
      /\ peer' = None /\ waiting' = {} /\ step' = step /\ agreed' = agreed
      /\ toResponder' = toResponder /\ toInitiator' = toInitiator
  BY DEF Kill, Die, wire
<1>2. at'[Responder] = "dead"
  BY <1>0, <1>1 DEF TypeOK
<1>3. ASSUME NEW j \in Initiators PROVE SameLocal(j)
  <2>1. j # Responder /\ j \in Ends
    BY Names
  <2> QED
    BY <1>0, <1>1, <2>1 DEF SameLocal, SameAt, SameWire, SameLists, TypeOK
<1>4. ASSUME NEW j \in Initiators PROVE ConnectionInv(j)'
  <2>1. peer # j /\ peer' # j /\ SameLocal(j) /\ ConnectionInv(j)
    BY <1>0, <1>1, <1>3 DEF IInv
  <2> QED
    BY <2>1, Frame
<1>5. ProgramInv' /\ DeadInv'
  BY <1>0, <1>1, <1>2, <1>3 DEF ProgramInv, DeadInv, SameLocal, SameAt, Reading, Sending
<1> QED
  BY <1>4, <1>5 DEF Core

\* Nothing moves, except that an initiator may fall silent.
LEMMA RestKeeps ==
  ASSUME IInv, UNCHANGED <<at, step, got, wire, waiting, peer, agreed>>
  PROVE  Core'
<1>1. ASSUME NEW j \in Initiators PROVE ConnectionInv(j)'
  <2>1. SameLocal(j) /\ SameResponder
    BY DEF SameLocal, SameResponder, SameAt, SameWire, SameLists, wire
  <2> QED
    BY <2>1, Frame DEF IInv
<1>2. ProgramInv' /\ DeadInv'
  BY DEF IInv, ProgramInv, DeadInv
<1> QED
  BY <1>1, <1>2 DEF Core

-----------------------------------------------------------------------------
(* The invariant                                                           *)

LEMMA InitHolds == Init => IInv
<1> SUFFICES ASSUME Init PROVE IInv
  OBVIOUS
<1>0. /\ Responder \in Ends /\ Initiators \subseteq Ends
      /\ \A i \in Initiators : i # Responder /\ at[i] = "start" /\ step[i] = 1
                               /\ toResponder[i] = <<>> /\ toInitiator[i] = <<>>
      /\ at[Responder] = "accept" /\ waiting = {} /\ peer = None /\ agreed = {}
      /\ None \notin Initiators
  BY Names DEF Init
<1>1. TypeOK
  BY <1>0, HandshakeAssumption DEF Init, TypeOK, Stages
<1>2. ProgramInv /\ DeadInv
  BY <1>0 DEF ProgramInv, DeadInv, Reading, Sending
<1>3. ASSUME NEW i \in Initiators PROVE ConnectionInv(i)
  BY <1>0 DEF ConnectionInv, InitiatorInv, WaitingInv, TurnInv, AgreedInv, Reading, Sending
<1> QED
  BY <1>1, <1>2, <1>3 DEF IInv

LEMMA NextKeeps ==
  ASSUME IInv, [Next]_vars
  PROVE  IInv'
<1>1. TypeOK'
  BY TypeInductive DEF IInv
<1>2. peer = None => at[Responder] \notin Stages \union {"print"}
  BY DEF IInv, TypeOK
<1>3. peer \in Initiators \union {None}
  BY DEF IInv, TypeOK
<1>4. ASSUME PrintSK PROVE Core'
  BY <1>2, <1>3, <1>4, ResponderKeeps DEF PrintSK
<1>5. ASSUME Step(Responder) PROVE Core'
  <2>1. at[Responder] \in Stages
    BY <1>5 DEF Step, SendSize, SendBody, SendFails, ReadSize, ReadBody, ReadEnds, Compute, Active
  <2> QED
    BY <1>2, <1>3, <1>5, <2>1, ResponderKeeps
<1>6. ASSUME Kill(Responder) PROVE Core'
  BY <1>3, <1>6, ResponderKeeps, KillKeeps
<1>7. ASSUME NEW i \in Initiators, Step(i) \/ Kill(i) \/ Connect(i) PROVE Core'
  BY <1>7, InitiatorKeeps
<1>8. ASSUME NEW i \in Initiators, Accept(i) PROVE Core'
  BY <1>8, AcceptKeeps
<1>9. ASSUME NEW i \in Initiators, FallSilent(i) PROVE Core'
  BY <1>9, RestKeeps DEF FallSilent
<1>10. ASSUME UNCHANGED vars PROVE Core'
  BY <1>10, RestKeeps DEF vars, wire
<1>11. Core'
  BY <1>4, <1>5, <1>6, <1>7, <1>8, <1>9, <1>10 DEF Next, Ends
<1> QED
  BY <1>1, <1>11 DEF Core, IInv

\* The ends take turns: what is on its way in either direction is cut from the
\* one message its reader waits for, and a key is in use only where the
\* responder has agreed to it.
THEOREM InvariantHolds == Spec => []IInv
<1>1. IInv /\ [Next]_vars => IInv'
  BY NextKeeps
<1> QED
  BY InitHolds, <1>1, PTL DEF Spec

\* Type correctness of the handshake, with what got holds and where a peer is served.
THEOREM TypeCorrect == Spec => []TypeOK
<1>1. IInv => TypeOK
  BY DEF IInv
<1> QED
  BY InvariantHolds, <1>1, PTL

\* Whatever recvOrDone hands to the library is the message its peer sent, whole
\* and alone, however TCP cut the stream and whichever read took bytes of the
\* body for the size.
THEOREM WholeMessages == Spec => []WholeOrNothing
<1>1. IInv => WholeOrNothing
  <2> SUFFICES ASSUME IInv, NEW e \in Ends, at[e] = "compute"
               PROVE  got[e] = BodyOf(Message(e))
    BY DEF WholeOrNothing
  <2>1. TypeOK /\ step[e] \in 1 .. 4 /\ Message(e) = step[e] /\ at[e] \in Reading
    BY Programs DEF IInv, Reading
  <2>2. CASE e \in Initiators
    <3>1. PICK c \in 0 .. Whole : InitiatorHears(e, c)
      BY <2>1, <2>2 DEF IInv, ConnectionInv, InitiatorInv
    <3>2. Reads("compute", got[e], toInitiator[e], step[e], c)
      BY <3>1 DEF InitiatorHears, Cut
    <3> QED
      BY <2>1, <3>2, BodyComplete
  <2>3. CASE e = Responder
    <3>1. peer \in Initiators
      BY <2>1, <2>3 DEF TypeOK, Stages
    <3>2. PICK c \in 0 .. Whole :
            /\ ResponderHears(peer, c)
            /\ Reads(at[e], got[e], toResponder[peer], step[e], c)
      BY <2>1, <2>3, <3>1, ResponderHearing
    <3>3. Reads("compute", got[e], toResponder[peer], step[e], c)
      BY <3>2
    <3> QED
      BY <2>1, <3>3, BodyComplete
  <2> QED
    BY <2>2, <2>3 DEF Ends
<1> QED
  BY InvariantHolds, <1>1, PTL

-----------------------------------------------------------------------------
(* The handshake implements KeyAgreement                                   *)

parties == [i \in Initiators |-> Party(i)]

serves == [stage |-> Stage, peer |-> peer]

\* Where an initiator's steps lead it.
LEMMA InitiatorGoes ==
  ASSUME IInv, NEW i \in Initiators, Step(i) \/ Kill(i)
  PROVE  /\ \A e \in Ends \ {i} : at'[e] = at[e]
         /\ peer' = peer /\ agreed' = agreed
         /\ at[i] \in Stages \union {"accept", "print"}
         /\ at'[i] \in Stages \union {"printed", "exited"}
<1>0. /\ TypeOK /\ i # Responder /\ i \in Ends
      /\ at[i] \in Sending => step[i] \in {1, 3}
      /\ at[i] \in Reading => step[i] \in {2, 4}
      /\ Message(i) = step[i] /\ at[i] \in Stages \union Places
  BY InitiatorSteps DEF IInv, TypeOK, Places
<1>1. Advance(i) /\ step[i] \in 1 .. 4 =>
        /\ \A e \in Ends \ {i} : at'[e] = at[e]
        /\ peer' = peer /\ at'[i] \in Stages \union {"printed", "exited"}
  <2>1. ASSUME Advance(i), step[i] \in 1 .. 4
        PROVE  /\ \A e \in Ends \ {i} : at'[e] = at[e]
               /\ peer' = peer /\ at'[i] \in Stages \union {"printed", "exited"}
    <3>1. PICK a \in {"readSize", "sendSize", "printed"} :
            at' = [at EXCEPT ![i] = a] /\ peer' = peer
      BY <1>0, <2>1, InitiatorAdvances
    <3> QED
      BY <1>0, <3>1 DEF TypeOK, Stages
  <2> QED
    BY <2>1
<1>2. Die(i) \/ Done(i) =>
        /\ \A e \in Ends \ {i} : at'[e] = at[e]
        /\ peer' = peer /\ at'[i] \in Stages \union {"printed", "exited"}
  BY <1>0 DEF Die, Done, TypeOK
<1>3. step[i] \in 1 .. 4
  BY <1>0 DEF TypeOK
<1>4. CASE SendSize(i)
  BY <1>0, <1>4 DEF SendSize, Stages, TypeOK
<1>5. CASE SendBody(i)
  <2>1. Message(i) # V_S
    BY <1>0, <1>5 DEF SendBody, Sending
  <2> QED
    BY <1>1, <1>3, <1>5, <2>1 DEF SendBody, Stages
<1>6. CASE SendFails(i)
  BY <1>2, <1>6 DEF SendFails, Stages
<1>7. CASE ReadSize(i)
  BY <1>0, <1>2, <1>7 DEF ReadSize, Stages, TypeOK
<1>8. CASE ReadBody(i)
  BY <1>0, <1>8 DEF ReadBody, Stages, TypeOK
<1>9. CASE ReadEnds(i)
  BY <1>0, <1>2, <1>9 DEF ReadEnds, Stages, TypeOK
<1>10. CASE Compute(i)
  BY <1>1, <1>2, <1>3, <1>10 DEF Compute, Stages
<1>11. CASE Kill(i)
  BY <1>2, <1>11 DEF Kill
<1> QED
  BY <1>4, <1>5, <1>6, <1>7, <1>8, <1>9, <1>10, <1>11 DEF Step

\* Where the responder's steps lead it, and when it agrees.
LEMMA ResponderGoes ==
  ASSUME IInv, Step(Responder) \/ Kill(Responder) \/ PrintSK
  PROVE  /\ \A i \in Initiators : at'[i] = at[i]
         /\ \/ at'[Responder] \in {"accept", "dead"} /\ agreed' = agreed
            \/ /\ at[Responder] \in Stages /\ at'[Responder] \in Stages
               /\ agreed' = agreed /\ peer' = peer
            \/ /\ at[Responder] \in Sending /\ at'[Responder] = "print"
               /\ agreed' = agreed \union {peer} /\ peer' = peer
<1>0. /\ TypeOK /\ Responder \in Ends
      /\ \A i \in Initiators : i # Responder /\ i \in Ends
      /\ at[Responder] \in Sending => step[Responder] \in {2, 4}
      /\ at[Responder] \in Reading => step[Responder] \in {1, 3}
      /\ Message(Responder) = step[Responder]
  BY ResponderSteps, Names DEF IInv
<1> DEFINE Same == \A i \in Initiators : at'[i] = at[i]
           Ended == at'[Responder] \in {"accept", "dead"}
           Stays == at'[Responder] \in Stages /\ peer' = peer
<1>1. Advance(Responder) /\ step[Responder] \in {1, 2, 3} => Same /\ Stays
  <2>1. ASSUME Advance(Responder), step[Responder] \in {1, 2, 3} PROVE Same /\ Stays
    <3>1. PICK a \in {"readSize", "sendSize"} :
            at' = [at EXCEPT ![Responder] = a] /\ peer' = peer
      BY <1>0, <2>1, ResponderAdvances
    <3> QED
      BY <1>0, <3>1 DEF TypeOK, Stages
  <2> QED
    BY <2>1
<1>2. Advance(Responder) /\ step[Responder] = 4 =>
        Same /\ at'[Responder] = "print" /\ peer' = peer
  <2>1. ASSUME Advance(Responder), step[Responder] = 4
        PROVE  Same /\ at'[Responder] = "print" /\ peer' = peer
    <3>1. at' = [at EXCEPT ![Responder] = "print"] /\ peer' = peer
      BY <1>0, <2>1, ResponderAdvances
    <3> QED
      BY <1>0, <3>1 DEF TypeOK
  <2> QED
    BY <2>1
<1>3. Die(Responder) \/ Done(Responder) => Same /\ Ended
  BY <1>0 DEF Die, Done, TypeOK
<1>4. CASE SendSize(Responder)
  BY <1>0, <1>4 DEF SendSize, Stages, TypeOK
<1>5. CASE SendBody(Responder)
  <2>1. at[Responder] \in Sending /\ at[Responder] \in Stages /\ Advance(Responder)
    BY <1>5 DEF SendBody, Sending, Stages
  <2>2. CASE step[Responder] = 2
    <3>1. agreed' = agreed
      BY <1>0, <1>5, <2>2 DEF SendBody
    <3> QED
      BY <1>1, <2>1, <2>2, <3>1
  <2>3. CASE step[Responder] = 4
    <3>1. agreed' = agreed \union {peer}
      BY <1>0, <1>5, <2>3 DEF SendBody
    <3> QED
      BY <1>2, <2>1, <2>3, <3>1
  <2> QED
    BY <1>0, <2>1, <2>2, <2>3
<1>6. CASE SendFails(Responder)
  BY <1>3, <1>6 DEF SendFails
<1>7. CASE ReadSize(Responder)
  BY <1>0, <1>3, <1>7 DEF ReadSize, Stages, TypeOK
<1>8. CASE ReadBody(Responder)
  BY <1>0, <1>8 DEF ReadBody, Stages, TypeOK
<1>9. CASE ReadEnds(Responder)
  BY <1>0, <1>3, <1>9 DEF ReadEnds, Stages, TypeOK
<1>10. CASE Compute(Responder)
  <2>1. at[Responder] \in Reading /\ at[Responder] \in Stages /\ agreed' = agreed
    BY <1>10 DEF Compute, Reading, Stages
  <2>2. CASE Advance(Responder)
    BY <1>0, <1>1, <2>1, <2>2
  <2>3. CASE Done(Responder)
    BY <1>3, <2>1, <2>3
  <2> QED
    BY <1>10, <2>2, <2>3 DEF Compute
<1>11. CASE Kill(Responder)
  BY <1>3, <1>11 DEF Kill
<1>12. CASE PrintSK
  BY <1>0, <1>12 DEF PrintSK, TypeOK
<1> QED
  BY <1>4, <1>5, <1>6, <1>7, <1>8, <1>9, <1>10, <1>11, <1>12 DEF Step

\* An initiator's step is one of KeyAgreement's, or none.
LEMMA InitiatorImplements ==
  ASSUME IInv, IInv', NEW i \in Initiators, Step(i) \/ Kill(i) \/ Connect(i)
  PROVE  Agreement!Next \/ UNCHANGED Agreement!vars
<1>0. i # Responder /\ i \in Ends /\ Responder \in Ends /\ Initiators \subseteq Ends
  BY Names
<1>1. /\ \A e \in Ends \ {i} : at'[e] = at[e]
      /\ peer' = peer /\ agreed' = agreed
      /\ \/ at[i] = "start" /\ i \notin agreed
         \/ at[i] \in Stages \union {"accept", "print"}
      /\ at'[i] \in Stages \union {"printed", "exited"}
      /\ at[i] = "start" => at'[i] # "printed"
  <2>1. CASE Connect(i)
    <3>1. Begin(i, 1) = "sendSize"
      <4>1. 1 \in 1 .. 4 /\ 1 \in {X, V_U}
        OBVIOUS
      <4> QED
        BY <4>1, InitiatorProgram, Zenon
    <3>2. at[i] = "start" /\ i \notin agreed
      BY <2>1 DEF Connect, IInv, ConnectionInv, AgreedInv
    <3> QED
      BY <1>0, <2>1, <3>1, <3>2 DEF Connect, IInv, TypeOK, Stages
  <2>2. CASE Step(i) \/ Kill(i)
    <3>1. at[i] # "start"
      BY <2>2, InitiatorGoes DEF Stages
    <3> QED
      BY <2>2, <3>1, InitiatorGoes
  <2> QED
    BY <2>1, <2>2
<1>2. serves' = serves
  BY <1>0, <1>1 DEF serves, Stage
<1>3. parties' = [parties EXCEPT ![i] = Party(i)']
  <2>1. \A j \in Initiators \ {i} : Party(j)' = Party(j)
    BY <1>0, <1>1 DEF Party
  <2> QED
    BY <2>1 DEF parties
<1>4. parties[i] = Party(i)
  BY DEF parties
<1>5. CASE at[i] = "start"
  <2>1. Party(i) = "start" /\ Party(i)' \in {"connected", "exited"}
    BY <1>1, <1>5 DEF Party, Stages
  <2> QED
    BY <1>2, <1>3, <1>4, <2>1
       DEF Agreement!Next, Agreement!Arrive, Agreement!Become, serves, parties
<1>6. CASE at[i] # "start"
  <2>1. Party(i) = IF i \in agreed THEN "confirmed" ELSE "connected"
    BY <1>1, <1>6 DEF Party, Stages
  <2>2. CASE at'[i] \in Stages
    <3>1. Party(i)' = Party(i)
      BY <1>1, <2>1, <2>2 DEF Party, Stages
    <3>2. parties' = parties
      BY <1>3, <3>1 DEF parties
    <3> QED
      BY <1>2, <3>2 DEF Agreement!vars, serves, parties
  <2>3. CASE at'[i] = "printed"
    <3>1. i \in agreed
      BY <1>1, <2>3 DEF IInv, ConnectionInv, AgreedInv
    <3>2. Party(i) = "confirmed" /\ Party(i)' = "ready"
      BY <2>1, <2>3, <3>1 DEF Party
    <3> QED
      BY <1>2, <1>3, <1>4, <3>2
         DEF Agreement!Next, Agreement!Verify, Agreement!Become, serves, parties
  <2>4. CASE at'[i] = "exited"
    <3>1. Party(i) # "start" /\ Party(i)' = "exited"
      BY <2>1, <2>4 DEF Party
    <3> QED
      BY <1>2, <1>3, <1>4, <3>1
         DEF Agreement!Next, Agreement!Leave, Agreement!Become, serves, parties
  <2> QED
    BY <1>1, <2>2, <2>3, <2>4
<1> QED
  BY <1>5, <1>6

\* So is a step of the responder.
LEMMA ResponderImplements ==
  ASSUME IInv, IInv', Step(Responder) \/ Kill(Responder) \/ PrintSK
  PROVE  Agreement!Next \/ UNCHANGED Agreement!vars
<1>1. \A i \in Initiators : at'[i] = at[i]
  BY ResponderGoes
<1>2. CASE at'[Responder] \in {"accept", "dead"} /\ agreed' = agreed
  <2>1. parties' = parties
    BY <1>1, <1>2 DEF parties, Party
  <2>2. peer' = None
    BY <1>2 DEF IInv, TypeOK, Stages
  <2>3. serves' \in {[stage |-> "accept", peer |-> None], [stage |-> "dead", peer |-> None]}
    BY <1>2, <2>2 DEF serves, Stage
  <2> QED
    BY <2>1, <2>3 DEF Agreement!Next, Agreement!Return, Agreement!Idle, Agreement!Dead,
                      serves, parties
<1>3. CASE /\ at[Responder] \in Stages /\ at'[Responder] \in Stages
           /\ agreed' = agreed /\ peer' = peer
  <2>1. parties' = parties
    BY <1>1, <1>3 DEF parties, Party
  <2>2. serves' = serves
    BY <1>3 DEF serves, Stage, Stages
  <2> QED
    BY <2>1, <2>2 DEF Agreement!vars, serves, parties
<1>4. CASE /\ at[Responder] \in Sending /\ at'[Responder] = "print"
           /\ agreed' = agreed \union {peer} /\ peer' = peer
  <2>1. at[Responder] \in Stages /\ at[Responder] # "print"
    BY <1>4 DEF Sending, Stages
  <2>2. PICK p \in Initiators : peer = p
    BY <2>1 DEF IInv, TypeOK
  <2>3. p \notin agreed /\ at[p] \notin {"start", "printed"}
    BY <1>4, <2>1, <2>2, Served DEF ConnectionInv, TurnInv
  <2>4. /\ serves = [stage |-> "handshake", peer |-> p]
        /\ serves' = [stage |-> "print", peer |-> p]
    BY <1>4, <2>1, <2>2 DEF serves, Stage, Sending
  <2>5. parties' = [parties EXCEPT ![p] = Party(p)']
    <3>1. \A j \in Initiators \ {p} : Party(j)' = Party(j)
      BY <1>1, <1>4, <2>2 DEF Party
    <3> QED
      BY <3>1 DEF parties
  <2>6. /\ parties[p] = Party(p)
        /\ \/ Party(p) = "connected" /\ Party(p)' = "confirmed"
           \/ Party(p) = "exited" /\ Party(p)' = Party(p)
    BY <1>1, <1>4, <2>2, <2>3 DEF parties, Party
  <2>7. CASE Party(p) = "connected" /\ Party(p)' = "confirmed"
    BY <2>4, <2>5, <2>6, <2>7
       DEF Agreement!Next, Agreement!Agree, Agreement!Become, serves, parties
  <2>8. CASE Party(p) = "exited" /\ Party(p)' = Party(p)
    <3>1. parties' = parties
      BY <2>5, <2>8 DEF parties
    <3> QED
      BY <2>4, <2>6, <2>8, <3>1 DEF Agreement!Next, Agreement!Agree, serves, parties
  <2> QED
    BY <2>6, <2>7, <2>8
<1> QED
  BY <1>2, <1>3, <1>4, ResponderGoes

LEMMA AcceptImplements ==
  ASSUME IInv, NEW i \in Initiators, Accept(i)
  PROVE  Agreement!Next \/ UNCHANGED Agreement!vars
<1>0. /\ TypeOK /\ at[Responder] = "accept" /\ peer = None /\ at[i] # "start"
      /\ agreed' = agreed
  BY DEF IInv, Accept, TypeOK, ConnectionInv, WaitingInv, Stages
<1>1. CASE UNCHANGED <<at, step, peer>>
  BY <1>0, <1>1 DEF Agreement!vars, Party, Stage
<1>2. CASE /\ at' = [at EXCEPT ![Responder] = Begin(Responder, 1)]
           /\ peer' = i
  <2>1. \A j \in Initiators : Party(j)' = Party(j)
    <3>1. \A j \in Initiators : at'[j] = at[j]
      BY <1>0, <1>2, Names DEF TypeOK
    <3> QED
      BY <1>0, <3>1 DEF Party
  <2>2. at'[Responder] = "readSize"
    <3>1. 1 \in 1 .. 4 /\ 1 \in {X, V_U}
      OBVIOUS
    <3>2. Begin(Responder, 1) = "readSize"
      BY <3>1, ResponderProgram, Zenon
    <3> QED
      BY <1>0, <1>2, <3>2, Names DEF TypeOK
  <2>3. /\ serves = [stage |-> "accept", peer |-> None]
        /\ serves' = [stage |-> "handshake", peer |-> i]
    BY <1>0, <1>2, <2>2 DEF serves, Stage
  <2>4. parties' = parties /\ parties[i] # "start"
    BY <1>0, <2>1 DEF parties, Party
  <2> QED
    BY <2>3, <2>4 DEF Agreement!Next, Agreement!Serve, Agreement!Idle, serves, parties
<1> QED
  BY <1>1, <1>2 DEF Accept

\* The four messages of sample_header.h keep what KeyAgreement promises: an
\* initiator prints its key only after the responder has derived it and sent
\* V_S, each of them once, and the responder serves one peer at a time.
THEOREM ImplementsAgreement == Spec => AgreementSpec
<1>1. Init => Agreement!Init
  <2> SUFFICES ASSUME Init PROVE Agreement!Init
    OBVIOUS
  <2>1. at[Responder] = "accept" /\ peer = None /\ \A i \in Initiators : at[i] = "start"
    BY Names DEF Init
  <2> QED
    BY <2>1 DEF Agreement!Init, Agreement!Idle, Party, Stage
<1>2. IInv /\ IInv' /\ [Next]_vars => [Agreement!Next]_(Agreement!vars)
  <2> SUFFICES ASSUME IInv, IInv', [Next]_vars
               PROVE  Agreement!Next \/ UNCHANGED Agreement!vars
    OBVIOUS
  <2>1. CASE PrintSK
    BY <2>1, ResponderImplements
  <2>2. ASSUME NEW e \in Ends, Step(e) \/ Kill(e)
        PROVE  Agreement!Next \/ UNCHANGED Agreement!vars
    BY <2>2, InitiatorImplements, ResponderImplements DEF Ends
  <2>3. ASSUME NEW i \in Initiators, Connect(i) \/ Accept(i)
        PROVE  Agreement!Next \/ UNCHANGED Agreement!vars
    BY <2>3, InitiatorImplements, AcceptImplements
  <2>4. ASSUME UNCHANGED <<at, peer, agreed>> PROVE UNCHANGED Agreement!vars
    BY <2>4 DEF Agreement!vars, Party, Stage
  <2>5. ASSUME NEW i \in Initiators, FallSilent(i) PROVE UNCHANGED Agreement!vars
    BY <2>4, <2>5 DEF FallSilent
  <2>6. CASE UNCHANGED vars
    BY <2>4, <2>6 DEF vars
  <2> QED
    BY <2>1, <2>2, <2>3, <2>5, <2>6 DEF Next
<1> QED
  BY <1>1, <1>2, InvariantHolds, PTL DEF Spec, AgreementSpec, Agreement!Spec
=============================================================================
