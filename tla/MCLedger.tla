----------------------------- MODULE MCLedger -----------------------------
(***************************************************************************)
(* Bounded instances of OrderBookLedger: at most MaxAdds orders are        *)
(* constructed, the re-adds of modify_order included, and at most the      *)
(* quantity MaxWithdrawn is taken out again.                               *)
(***************************************************************************)
EXTENDS OrderBookLedger

CONSTANTS MaxAdds, MaxWithdrawn

WithinBound ==
    /\ clock' <= IF readd' # NoMessage /\ incoming' = nullptr
                 THEN MaxAdds ELSE MaxAdds + 1
    /\ withdrawn' <= MaxWithdrawn

MCLedgerNext == LedgerNext /\ WithinBound

MCLedgerSpec ==
    /\ LedgerInit
    /\ [][MCLedgerNext]_ledgerVars
    /\ WF_ledgerVars(Running)
============================================================================
