--------------------------- MODULE MCAPIKeyUsage ---------------------------
(***************************************************************************)
(* Model-checking instance of APIKeyUsage: three requests, two of them to  *)
(* the same provider.                                                      *)
(***************************************************************************)
EXTENDS APIKeyUsage, FiniteSetsExt, TLC

CONSTANTS openai, claude, r1, r2, r3

MCRequests == {r1, r2, r3}
MCProviders == {openai, claude}
MCProviderOf == (r1 :> openai) @@ (r2 :> openai) @@ (r3 :> claude)
MCTokens == (r1 :> 1) @@ (r2 :> 2) @@ (r3 :> 1)
MCTotalTokens == [S \in SUBSET MCRequests |-> MapThenSumSet(LAMBDA r : MCTokens[r], S)]
=============================================================================
