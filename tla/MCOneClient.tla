---------------------------- MODULE MCOneClient -----------------------------
(***************************************************************************)
(* A small instance of Recovery where the hypotheses of                    *)
(* OneClientSeesADurableStore hold.                                        *)
(***************************************************************************)
EXTENDS MCStorage

\* One client; every command, with every way a well-formed one can fail.
WellFormed == [c \in Conns |->
  {SetTo(k1, 1), SetTo(k1, w1), SetTo(Empty, w1), IncrBy(k1, 1),
   IncrBy(k1, w1), PushOf(k1, w1), PushOf(k1, 1), R("LPOP", k1),
   R("RPOP", k1), R("LPOP", Absent), R("GET", k1), Flush}]

ASSUME OneClientAssumption ==
  SoundLog /\ FlushesAreAlone /\ AloneWithoutDeadlines
=============================================================================
