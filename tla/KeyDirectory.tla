---------------------------- MODULE KeyDirectory ----------------------------
(***************************************************************************)
(* What the key delivery chain promises, without processes or pipes: a     *)
(* session keeps the ID it drew, and what a client has learned under an ID *)
(* is the key of a session that drew this ID, and stays what it learned.   *)
(* Where no two sessions draw the same ID, all clients therefore learn the *)
(* one right key.  Restarts, lost keys and failed queries may keep a client *)
(* from learning; they may not teach it something wrong.                   *)
(***************************************************************************)
CONSTANTS
  Sessions,     \* the keys, each named by the session that negotiated it
  Subscribers,  \* the clients
  SessionIDs,   \* what a key is looked up by
  None          \* "not drawn", "not known"

VARIABLES
  drawn,        \* the ID of each session
  known         \* what each client has learned under each ID

vars == <<drawn, known>>

Init ==
  /\ drawn = [p \in Sessions |-> None]
  /\ known = [s \in Subscribers |-> [i \in SessionIDs |-> None]]

\* A handshake gives a session its ID.
Draw(p, i) ==
  /\ drawn[p] = None
  /\ drawn' = [drawn EXCEPT ![p] = i]
  /\ UNCHANGED known

Learn(s, p, i) ==
  /\ drawn[p] = i
  /\ known[s][i] = None
  /\ known' = [known EXCEPT ![s][i] = p]
  /\ UNCHANGED drawn

Next ==
  \E i \in SessionIDs, p \in Sessions :
    Draw(p, i) \/ \E s \in Subscribers : Learn(s, p, i)

Spec == Init /\ [][Next]_vars
=============================================================================
