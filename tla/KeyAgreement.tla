---------------------------- MODULE KeyAgreement ----------------------------
(***************************************************************************)
(* What the two ends of the handshake promise each other, without messages *)
(* or bytes.  One responder serves one initiator at a time.  An initiator  *)
(* is ready to use its key only after the responder has derived the same   *)
(* key for it; the other way round, the responder may be left alone with a *)
(* key.  Either end may give up or end at any time.                        *)
(***************************************************************************)
CONSTANTS
  Initiators,   \* each makes one handshake
  None          \* "no peer"

VARIABLES
  party,        \* where each initiator stands
  serving       \* the stage of the responder, and whom it serves

vars == <<party, serving>>

Idle == [stage |-> "accept", peer |-> None]
Dead == [stage |-> "dead", peer |-> None]

Init ==
  /\ party = [i \in Initiators |-> "start"]
  /\ serving = Idle

Become(i, state) == party' = [party EXCEPT ![i] = state]

Arrive(i) ==
  /\ party[i] = "start"
  /\ \E state \in {"connected", "exited"} : Become(i, state)
  /\ UNCHANGED serving

Serve(i) ==
  /\ serving = Idle
  /\ party[i] # "start"
  /\ serving' = [stage |-> "handshake", peer |-> i]
  /\ UNCHANGED party

\* The responder derives the key, once, and lets the initiator know.
Agree(i) ==
  /\ serving = [stage |-> "handshake", peer |-> i]
  /\ serving' = [stage |-> "print", peer |-> i]
  /\ \/ party[i] = "connected" /\ Become(i, "confirmed")
     \/ party[i] = "exited" /\ UNCHANGED party

\* The responder is done with a peer, or fails, ends or is started again.
Return ==
  /\ serving' \in {Idle, Dead}
  /\ UNCHANGED party

Verify(i) ==
  /\ party[i] = "confirmed"
  /\ Become(i, "ready")
  /\ UNCHANGED serving

Leave(i) ==
  /\ party[i] # "start"
  /\ Become(i, "exited")
  /\ UNCHANGED serving

Next ==
  Return \/ \E i \in Initiators :
              Arrive(i) \/ Serve(i) \/ Agree(i) \/ Verify(i) \/ Leave(i)

Spec == Init /\ [][Next]_vars
=============================================================================
