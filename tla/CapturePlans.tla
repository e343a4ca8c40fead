---- MODULE CapturePlans ----
(***************************************************************************)
(* The capture functions of capture/runner.py and the lanes their receipts *)
(* count for.  All of them run one pipeline: start an ingest run, ask the  *)
(* provider item by item, write raw files and raw rows, normalize, log one *)
(* health event, finish the run.  What distinguishes them is recorded here.*)
(*                                                                         *)
(*   lane, health   the lane of the run row and of the health event; NoLane*)
(*                  when lane_status.py maps them to none                  *)
(*   onFault        what an error of one request does: the capture fails   *)
(*                  ("raised") or the item is passed over ("skipped")      *)
(*   onMissing      the same for a 404 of one product                      *)
(*   addressed      refused before a run exists when no address is tracked *)
(*   perItem        items are committed one by one, so that a failed       *)
(*                  capture may leave rows behind                          *)
(***************************************************************************)
EXTENDS Integers

NoLane == "none"

Plan(lane, health, onFault, onMissing, addressed, perItem) ==
    [lane |-> lane, health |-> health, onFault |-> onFault,
     onMissing |-> onMissing, addressed |-> addressed, perItem |-> perItem]

(* One request, one commit: any error of the provider fails the capture.   *)
JupiterTokens == Plan("jupiter-tokens", "jupiter-tokens", "raised", "raised", FALSE, FALSE)
JupiterPrices == Plan("jupiter-prices", "jupiter-prices", "raised", "raised", FALSE, FALSE)
CoinbaseProducts == Plan("coinbase-products", "coinbase-products", "raised", "raised", FALSE, FALSE)
MassiveCrypto == Plan("massive-crypto", "massive-crypto", "raised", "raised", FALSE, FALSE)

(* The quote of one trade: a run of the quotes lane of its own.            *)
JupiterExactQuote == Plan("jupiter-quotes", "jupiter-quotes", "raised", "raised", FALSE, FALSE)

(* Every quote, and every series, is tried on its own and its error logged.*)
JupiterQuotes == Plan("jupiter-quotes", "jupiter-quotes", "skipped", "skipped", FALSE, TRUE)
FredObservations == Plan("fred-observations", "fred-observations", "skipped", "skipped", FALSE, TRUE)

(* Its run is of type series_registry, which is the type of no lane.       *)
FredSeries == Plan(NoLane, "fred-series", "skipped", "skipped", FALSE, TRUE)

(* Helius needs tracked addresses.                                         *)
HeliusTransactions == Plan("helius-transactions", "helius-transactions", "raised", "raised", TRUE, TRUE)
HeliusDiscovery == Plan("helius-discovery", "helius-discovery", "raised", "raised", TRUE, FALSE)
HeliusWsEvents == Plan("helius-ws-events", "helius-ws-events", "raised", "raised", TRUE, FALSE)

(* Coinbase market data: a product that answers 404 is passed over.        *)
CoinbaseCandles == Plan("coinbase-candles", "coinbase-candles", "raised", "skipped", FALSE, TRUE)
CoinbaseTrades == Plan("coinbase-market-trades", "coinbase-market-trades", "raised", "skipped", FALSE, TRUE)
CoinbaseBook == Plan("coinbase-book", "coinbase-book", "raised", "skipped", FALSE, TRUE)

(* Freshness windows in minutes, by lane.                                  *)
FreshnessWindow ==
    LET Quotes == {"jupiter-prices", "jupiter-quotes", "helius-ws-events"}
        Markets == {"helius-transactions", "coinbase-candles", "coinbase-market-trades",
                    "coinbase-book"}
        Registries == {"jupiter-tokens", "helius-discovery", "coinbase-products",
                       "massive-crypto"}
    IN  [l \in Quotes \cup Markets \cup Registries \cup {"fred-observations", "fred-series"} |->
            CASE l \in Quotes -> 15
              [] l \in Markets -> 30
              [] l \in Registries -> 24 * 60
              [] l = "fred-observations" -> 2 * 24 * 60
              [] l = "fred-series" -> 7 * 24 * 60]
====
