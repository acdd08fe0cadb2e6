---------------------------- MODULE MCCommuting -----------------------------
(***************************************************************************)
(* A small instance of Recovery where the hypotheses of                    *)
(* CommutingNeverLostOrDoubled hold.                                       *)
(***************************************************************************)
EXTENDS MCStorage

\* A counter to begin with.
CounterSeed == <<RecordOf(SetTo(k1, 0))>>

\* Two clients on one key, with commands that commute.
Commuting == [c \in Conns |->
  {IncrBy(k1, 1), IncrBy(k1, 2), PushOf(k1, w1), PushOf(k1, w2),
   R("GET", k1)}]

ASSUME CommutingAssumption == SoundLog /\ CommutingClients
=============================================================================
