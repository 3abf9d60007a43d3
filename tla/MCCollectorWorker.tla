-------------------------- MODULE MCCollectorWorker --------------------------
(***************************************************************************)
(* CollectorWorker for TLC: one connection of each broker, a command and   *)
(* the scheduler.                                                          *)
(***************************************************************************)
EXTENDS CollectorWorker

MCBrokers == {"binance", "coinbase", "kraken", "wallet", "ibkr"}
MCWorkers == {"cli", "scheduler"}
MCNetworks == {"eth", "base"}
MCTokenNetworks == {"base"}

Line(table, asset, amt) == [table |-> table, asset |-> asset, amt |-> amt]
Move(table, asset, amt) == <<Line(table, asset, amt)>>

Ledger(type, asset, amt, fee) == [table |-> "ledger", type |-> type, asset |-> asset, amt |-> amt, fee |-> fee]
KrakenMoves ==
    {<<Line("trade", "A", 1) @@ [quote |-> "Q", cost |-> 2, fee |-> 1],
       Ledger("trade", "A", 1, 0), Ledger("trade", "Q", -2, 1)>>,
     <<Ledger("deposit", "A", 2, 1)>>,
     <<Ledger("spend", "A", -1, 0), Ledger("receive", "Q", 2, 1)>>,
     <<Ledger("transfer staking", "A", -1, 0), Ledger("transfer staking", "A", 1, 0)>>}
MCMoves(b) ==
    CASE b = "binance" -> {Move("trade", "A", 1), Move("reward", "A", 1)}
      [] b = "coinbase" -> {Move("fill", "A", 1), Move("move", "A", 2)}
      [] b = "kraken" -> KrakenMoves
      [] b = "wallet" -> {Move("transfer", <<k, n>>, 1) : k \in Credentials, n \in MCTokenNetworks}
                            \cup {Move("gas", <<k, n>>, -1) : k \in Credentials, n \in MCNetworks \ MCTokenNetworks}
                            \cup {Move("hidden", <<k, n>>, 1) : k \in Credentials, n \in MCTokenNetworks}
      [] b = "ibkr" -> {Move("flow", "total", 2), Move("gain", "total", 1), Move("trade", "S", 0)}
MCAllMoves == [b \in MCBrokers |-> MCMoves(b)]

\* A wallet needs three readings and one fact: a token that drops out of a
\* listing and comes back moves its balance by itself.
MCMaxClock == [b \in MCBrokers |-> CASE b \in {"binance", "coinbase", "kraken"} -> 1 [] b = "wallet" -> 3 [] OTHER -> 2]
MCMaxFacts == [b \in MCBrokers |-> CASE b = "wallet" -> 1 [] b = "kraken" -> 4 [] OTHER -> 2]
MCMaxFaults == [b \in MCBrokers |-> 1]
MCMaxStarts == [b \in MCBrokers |-> IF b = "wallet" THEN 3 ELSE 2]

=============================================================================
