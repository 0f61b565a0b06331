---------------------------- MODULE MCOrderBook ----------------------------
(***************************************************************************)
(* Bounded instances of OrderBook: at most MaxAdds orders are constructed, *)
(* and no modify_order begins whose re-add would be one too many.          *)
(***************************************************************************)
EXTENDS OrderBook

CONSTANT MaxAdds

WithinBound ==
    clock' <= IF readd' # NoMessage /\ incoming' = nullptr
              THEN MaxAdds ELSE MaxAdds + 1

MCNext == Next /\ WithinBound

MCSpec == Init /\ [][MCNext]_vars
============================================================================
