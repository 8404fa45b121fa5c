------------------------------- MODULE RamMarket -------------------------------
(******************************************************************************)
(* The price of RAM (shared/include/antelope/ram.cpp), from the reserves of   *)
(* the system's RAM market: base, the bytes it has left, and quote, the       *)
(* tokens it has taken in.                                                    *)
(*                                                                            *)
(* The code computes in doubles and truncates; the quotients here are exact.  *)
(* The two agree as long as the products stay below 2^53.                     *)
(******************************************************************************)
EXTENDS Integers

\* Where the doubles have a value: not when all there is is asked for.
Priced(outReserve, out) == out # outReserve

\* get_bancor_input: what to put in for out.  More than there is has a
\* negative price, which becomes none.
BancorInput(outReserve, inpReserve, out) ==
  IF out < outReserve THEN (inpReserve * out) \div (outReserve - out) ELSE 0

\* get_bancor_output: what inp buys.
BancorOutput(inpReserve, outReserve, inp) ==
  (inp * outReserve) \div (inpReserve + inp)

\* get_fee: half a percent, rounded up.
Fee(quantity) == (quantity + 199) \div 200

RamCost(market, bytes) == BancorInput(market.base, market.quote, bytes)

RamCostWithFee(market, bytes) == RamCost(market, bytes) + Fee(RamCost(market, bytes))

RamProceeds(market, bytes) == BancorOutput(market.base, market.quote, bytes)

RamProceedsMinusFee(market, bytes) ==
  RamProceeds(market, bytes) - Fee(RamProceeds(market, bytes))

\* bytes_cost_with_fee: the bytes a payment buys, which is how the system
\* contract's buyram computes them too.
BytesCostWithFee(market, quantity) ==
  BancorOutput(market.quote, market.base, quantity - Fee(quantity))
================================================================================
