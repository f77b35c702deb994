------------------------------- MODULE MCField -------------------------------
(* Games of two for as long as they like, and one round of a game of three.   *)
EXTENDS Strategies

VARIABLE crowd  \* "no", "start" or "played"

\* Three players have joined and a state with a coin was sent.
Crowd ==
  /\ crowd = "start"
  /\ players \in {[i \in 1..3 |-> [center |-> c[i], velocity |-> 0, score |-> 0]] :
                    c \in {d \in [1..3 -> Inside(PlayerRadius)] :
                             \A i, j \in 1..3 : i # j => Distance(d[i], d[j]) > 2 * PlayerRadius}}
  /\ coins \in {<<c>> : c \in Inside(CoinRadius)}
  /\ sent = TRUE /\ generated = 1

MCInit == (crowd = "no" /\ Init) \/ Crowd

MCNext ==
  \/ crowd = "no" /\ Next /\ UNCHANGED crowd
  \/ crowd = "start" /\ Emulate /\ crowd' = "played"

MCSpec == MCInit /\ [][MCNext]_<<vars, crowd>>
=============================================================================
