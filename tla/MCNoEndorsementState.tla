------------------------ MODULE MCNoEndorsementState ------------------------
EXTENDS NoEndorsementState, TLC

CONSTANTS h1, h2, f1

(* Stakes 3, 2 and 2 (h1, h2, f1): 7*2/3 + 1 = 5 *)
ThreeValidators == {h1, h2, f1}
Fives == {{h1, h2}, {h1, f1}, {h1, h2, f1}}
=============================================================================
