------------------------ MODULE MCContractFreshness -------------------------
(* Small instances of ContractFreshness for TLC.                           *)
EXTENDS ContractFreshness

(* a sends to b; a has runtime contracts of its own.                       *)
Links == {<<"a", "b">>, <<"a", "a">>}
=============================================================================
