-------------------------- MODULE MCPaperOperator ---------------------------
(* Small instances of PaperOperator for TLC. *)
EXTENDS PaperOperator

CONSTANTS usdc, sol, junk

MCMints == {usdc, sol, junk}
MCTracked == {usdc, sol}
MCAllTracked == {usdc, sol, junk}
MCSizes == {2}

Cond(regime, lanes) ==
  [status |-> "success", regime |-> regime, blocked |-> FALSE, lanes |-> lanes]

(* A condition that authorizes a long entry, one that is allowed but short, *)
(* and one on lanes that are not eligible.                                  *)
MCCondShapes ==
  {Cond("long_friendly", "eligible"), Cond("short_friendly", "eligible"),
   Cond("long_friendly", "ineligible")}

Buy(mint, in, out) ==
  [dir |-> "usdc_to_token", input |-> usdc, output |-> mint, in_amt |-> in, out_amt |-> out]
Sell(mint, in, out) ==
  [dir |-> "token_to_usdc", input |-> mint, output |-> usdc, in_amt |-> in, out_amt |-> out]

(* Entries: a buy, a buy with no output, and a buy of a mint whose decimals *)
(* nobody knows.                                                            *)
EntryQuotes == {Buy(sol, 2, 3), Buy(sol, 2, NoAmount), Buy(junk, 2, 3)}

(* Exits: a buy, its sale at a profit, and the sale of another quantity.    *)
ExitQuotes == {Buy(sol, 2, 3), Sell(sol, 3, 4), Sell(sol, 1, 1)}

(* The shortest round trip. *)
RoundTrip == {Buy(sol, 2, 3), Sell(sol, 3, 4)}
LongOnly == {Cond("long_friendly", "eligible")}
=============================================================================
