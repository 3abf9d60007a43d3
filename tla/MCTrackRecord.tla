---------------------------- MODULE MCTrackRecord ----------------------------
(* An account with cash and coin, a second coin that may have no market of  *)
(* its own, days of two ticks and at most two events (four in the trade log).*)
EXTENDS TrackRecord

MCAssets == {"cash", "coin", "gem"}
MCMarket == [coincash |-> <<"coin", "cash">>, gemcoin |-> <<"gem", "coin">>]
MCSymbolOrder == [coincash |-> 1, gemcoin |-> 2]
MCOpening == {[cash |-> 2, coin |-> 2, gem |-> 0]}
Both == {"coin", "gem"}
MCListings == [performance |-> {Both, {"coin"}}, trades |-> {Both}, prove |-> {Both}]
Price(coin) == [coin |-> coin, gem |-> 2]
MCPrices == [performance |-> {Price(1), Price(2)}, trades |-> {Price(1)}, prove |-> {Price(1), Price(2)}]

Move(kind, symbol, asset, buy, qty, fee) ==
    [kind |-> kind, symbol |-> symbol, asset |-> asset, buy |-> buy, qty |-> qty, fee |-> fee,
     feeAsset |-> "cash", price |-> 0, time |-> 0, seq |-> 0, id |-> 0]

Buy(fee) == Move("trade", "coincash", "", TRUE, 1, fee)
Sell == Move("trade", "coincash", "", FALSE, 1, 0)
BuyGem == Move("trade", "gemcoin", "", TRUE, 1, 0)
Deposit(asset, qty) == Move("deposit", "", asset, FALSE, qty, 0)
Withdraw(asset, fee) == Move("withdrawal", "", asset, FALSE, 1, fee)

MCMoves ==
    [performance |-> {Buy(1), Sell, BuyGem, Deposit("cash", 2), Deposit("coin", 1),
                      Withdraw("cash", 1), Withdraw("coin", 0),
                      Move("reward", "", "coin", FALSE, 1, 0)},
     trades |-> {Buy(0), Sell, BuyGem},
     prove |-> {Buy(1), Deposit("cash", 2)}]

Query(symbol, from) == [symbol |-> symbol, from |-> from, until |-> 3, after |-> NoCursor, limit |-> 1]
MCQueries == {Query("any", 1), Query("coincash", 2)}

MCKeys == {"ours", "own"}
Trusted(revoked, until) == [revoked |-> revoked, from |-> 2, until |-> until]
MCTrustLists == {[ours |-> Trusted(FALSE, 9)], [ours |-> Trusted(TRUE, 9)], [ours |-> Trusted(FALSE, 3)]}
MCAnchors == {"anchored"}

MCMaxNow == [performance |-> 4, trades |-> 2, prove |-> 4]
MCMaxEvents == [performance |-> 2, trades |-> 4, prove |-> 1]
=============================================================================
