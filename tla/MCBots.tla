------------------------------- MODULE MCBots -------------------------------
EXTENDS Bots, TLC

CONSTANTS n1, n2, r1, r2

MCRequests == {r1, r2}
MCNames == {n1, n2}
MCFold == (n1 :> 1) @@ (n2 :> 2)
MCSought == {1}
MCChoices ==
  {[name |-> x[1], script |-> x[2], enabled |-> x[3], rev |-> x[4]] : x \in
     {<<n1, "good", TRUE, "main">>, <<n1, "endless", TRUE, "main">>,
      <<n1, "good", TRUE, r1>>, <<n1, "good", FALSE, r1>>, <<n1, "broken", TRUE, r1>>,
      <<n2, "good", TRUE, r2>>, <<n2, "endless", TRUE, r2>>}}
=============================================================================
