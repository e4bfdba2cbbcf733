----------------------------- MODULE MCStopLoss -----------------------------
(* Positions of both sides with prices on and off the grid, one smaller     *)
(* than a step, one flat, one of unknown side, one without identity, one of *)
(* unknown entry price; prices around the stop, unknown, stale, from the    *)
(* future and of another symbol.                                            *)
EXTENDS StopLoss

Position(side, quantity, entry, id) ==
    [symbol |-> "BTC", side |-> side, quantity |-> quantity, entry |-> entry, id |-> id]

Price(symbol, price, age) == [symbol |-> symbol, price |-> price, age |-> age]

MCPositions ==
    {Position("LONG", 3, 8, 1), Position("LONG", 6, 10, 3), Position("SHORT", 5, 10, 2),
     Position("LONG", 2, 8, 1),
     Position("FLAT", 0, None, None), Position("UNKNOWN", 3, 8, 1),
     Position("LONG", 3, 8, None), Position("SHORT", 3, None, 1)}

MCObservations ==
    {Price("BTC", 5, 0), Price("BTC", 6, 0), Price("BTC", 11, 0), Price("BTC", 14, 1),
     Price("BTC", None, 0), Price("BTC", 5, 2), Price("BTC", 14, -1), Price("ETH", 5, 0)}
=============================================================================
