------------------------------- MODULE Ledger -------------------------------
(***************************************************************************)
(* Package ledger: the accounts, their available and locked balances, and  *)
(* the methods of Ledger.  Every method holds l.mu from its first line to  *)
(* its last, so each is one step of its caller.  Balances are integers     *)
(* (the server uses float64) and, as in the code, nothing keeps them from  *)
(* becoming negative except where a method checks.                         *)
(***************************************************************************)
EXTENDS Integers

CONSTANTS Users,   \* every user ID a caller may name
          Funds    \* Funds[u]: the default funds u is registered with

Currencies == {"USDT", "ETH"}

ASSUME LedgerAssumption == Funds \in [Users -> [Currencies -> Nat]]

Balance == [available : Int, locked : Int]
NoFunds == [c \in Currencies |-> [available |-> 0, locked |-> 0]]

VARIABLES registered,   \* the keys of Ledger.accounts
          accounts      \* accounts[u][c]: the *Balance of u in currency c

ledgerVars == <<registered, accounts>>

\* NewLedger has no accounts; NewUserAccount makes one from the default funds.
LedgerEmpty == [u \in Users |-> NoFunds]
Endowment(u) == [c \in Currencies |-> [available |-> Funds[u][c], locked |-> 0]]

(* RegisterUser gives the default funds to a user it does not know yet.    *)
RegisterUser(u) ==
  /\ registered' = registered \cup {u}
  /\ accounts' = IF u \in registered THEN accounts
                 ELSE [accounts EXCEPT ![u] = Endowment(u)]

\* The accounts acc after adding a to what u has available in c and l to what is locked.
Add(acc, u, c, a, l) ==
  [acc EXCEPT ![u][c] = [available |-> @.available + a, locked |-> @.locked + l]]

(* LockFunds moves available funds into escrow, or returns an error.       *)
CanLock(u, c, amount) == u \in registered /\ accounts[u][c].available >= amount

LockFunds(u, c, amount) ==
  /\ accounts' = IF CanLock(u, c, amount) THEN Add(accounts, u, c, -amount, amount) ELSE accounts
  /\ UNCHANGED registered

(* UnlockFunds returns escrow to the available funds, or returns an error. *)
CanUnlock(u, c, amount) == u \in registered /\ accounts[u][c].locked >= amount

UnlockFunds(u, c, amount) ==
  /\ accounts' = IF CanUnlock(u, c, amount) THEN Add(accounts, u, c, amount, -amount) ELSE accounts
  /\ UNCHANGED registered

(* SettleTrade swaps base (ETH) and quote (USDT) between buyer and seller; *)
(* the maker pays out of its escrow, the taker out of its available funds. *)
SettleTradeUnpaid(buyer, seller, amount, price, isBuyerMaker) ==    \* mutant
  /\ accounts' = IF {buyer, seller} \subseteq registered
                 THEN Add(Add(accounts, buyer, "ETH", amount, 0), buyer, "USDT", -amount * price, 0)
                 ELSE accounts
  /\ UNCHANGED registered
SettleTrade(buyer, seller, amount, price, isBuyerMaker) ==
  LET quote == amount * price
      paid == IF isBuyerMaker THEN Add(accounts, buyer, "USDT", 0, -quote)
                              ELSE Add(accounts, buyer, "USDT", -quote, 0)
      received == Add(paid, buyer, "ETH", amount, 0)
      delivered == IF isBuyerMaker THEN Add(received, seller, "ETH", -amount, 0)
                                   ELSE Add(received, seller, "ETH", 0, -amount)
  IN  /\ accounts' = IF {buyer, seller} \subseteq registered
                     THEN Add(delivered, seller, "USDT", quote, 0) ELSE accounts
      /\ UNCHANGED registered

Holdings(u, c) == accounts[u][c].available + accounts[u][c].locked
=============================================================================
