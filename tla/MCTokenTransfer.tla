-------------------------- MODULE MCTokenTransfer --------------------------
(***************************************************************************)
(* A bounded instance of TokenTransfer: rates of nothing, a fraction, nearly *)
(* everything and everything, with caps that bite and caps that do not.      *)
(***************************************************************************)
EXTENDS TokenTransfer

OfferedFees ==
    [transfer_fee_basis_points : {0, 1, 3, 9, MAX_FEE_BASIS_POINTS}, maximum_fee : {0, 2, 50}]
=============================================================================
