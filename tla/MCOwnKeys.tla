----------------------------- MODULE MCOwnKeys ------------------------------
(***************************************************************************)
(* A small instance of Recovery where the hypotheses of QuietKeysSurvive   *)
(* hold.                                                                   *)
(***************************************************************************)
EXTENDS MCStorage

\* Two clients that share no key; deadlines on one of them.
OwnKeys == (c1 :> {SetTo(k1, 1), SetFor(k1, w1, 1), IncrBy(k1, 1),
                   PushOf(k1, w1)})
        @@ (c2 :> {SetTo(k2, w1), PushOf(k2, w1), PushOf(k2, w2),
                   R("LPOP", k2), R("RPOP", k2)})

ASSUME OwnKeysAssumption ==
  SoundLog /\ FlushesAreAlone /\ NoSharedKey
=============================================================================
