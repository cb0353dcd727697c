---------------------------- MODULE Multiplier -----------------------------
(***************************************************************************)
(* vsrc/pipeline/execute/multiplier.sv: the quarters of the operands are    *)
(* multiplied in one cycle, the products are added in the next.            *)
(***************************************************************************)
EXTENDS Registers

VARIABLES mstate,   \* "INIT" or "DOING"
          product   \* the registers p: one product for each pair of quarters

multiplierVars == <<mstate, product>>

\* The pairs of quarters whose product reaches the low W bits.
Pairs == {pair \in (0..3) \X (0..3) : pair[1] + pair[2] <= 3}

product_nxt(a, b) ==
  [pair \in Pairs |-> Bits(a, Q * pair[1], Q) * Bits(b, Q * pair[2], Q)]

\* q: the products, each at the weight of its quarters, and their sum.
Weighted(i, j) == product[<<i, j>>] * 2^(Q * (i + j))
cm == (Weighted(0, 0) + Weighted(0, 1) + Weighted(0, 2) + Weighted(0, 3)
        + Weighted(1, 0) + Weighted(1, 1) + Weighted(1, 2)
        + Weighted(2, 0) + Weighted(2, 1) + Weighted(3, 0)) % 2^W

done_multiply(valid) == mstate = "DOING" \/ ~valid

MultiplierInit == mstate = "INIT" /\ product = [pair \in Pairs |-> 0]

StartMultiply(valid, a, b) ==
  /\ ~done_multiply(valid)
  /\ mstate' = "DOING"
  /\ product' = product_nxt(a, b)

EndMultiply(valid) ==
  /\ done_multiply(valid)
  /\ mstate' = "INIT"
  /\ UNCHANGED product

MultiplierEdge(valid, a, b) == StartMultiply(valid, a, b) \/ EndMultiply(valid)

MultiplierTypeOK ==
  /\ mstate \in {"INIT", "DOING"}
  /\ product \in [Pairs -> Word(H)]
=============================================================================
