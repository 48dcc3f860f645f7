------------------------------- MODULE Vendors -------------------------------
(***************************************************************************)
(* How each vendor's values are refreshed: its route module under api/ and *)
(* its entry in the registry that schedules it (sync/credential-vendors.ts *)
(* 150, sync/price-classes.ts 113, scheduler/index.ts 58).                 *)
(*                                                                         *)
(*   by       the loop that refreshes it: "credential", "price" or "class"  *)
(*            of the scheduler, or by "hand" only                          *)
(*   every    hours between two scheduled refreshes                        *)
(*   rows     "one" connection per user, or "many" wallets or holdings      *)
(*   connect  "store": what the user sends replaces the row's credential;  *)
(*            "add": a new row, and nothing when it is there already;      *)
(*            "exchange": the vendor is asked for tokens first;            *)
(*            "verify": the vendor is asked for the value first, which is  *)
(*            stored as a successful refresh that was not attempted        *)
(*   failure  what one row's failure does: "stop" records it and ends the  *)
(*            user's refresh, "next" records it and goes on with the other *)
(*            rows, "silent" goes on and records nothing                   *)
(*   skips    whether a row can be left as it was without being a failure  *)
(*   keyed    whether a missing key of ours ends the class for everyone    *)
(* No connect touches the health columns of a row that exists.             *)
(***************************************************************************)
EXTENDS Integers

Days == 24
Credential(every, rows, connect, failure, skips) ==
  [by |-> "credential", every |-> every, rows |-> rows, connect |-> connect, failure |-> failure,
   skips |-> skips, keyed |-> FALSE]
\* Holdings: a row that could not be priced is counted as an error and left as it was.
Holdings(by, every, keyed) ==
  [by |-> by, every |-> every, rows |-> "many", connect |-> "add", failure |-> "silent",
   skips |-> FALSE, keyed |-> keyed]
\* The cached classes: one cache row per user for all of the class's connections.
Class(every, connect) ==
  [by |-> "class", every |-> every, rows |-> "one", connect |-> connect, failure |-> "stop",
   skips |-> FALSE, keyed |-> FALSE]

\* One signed account.
kraken == Credential(6, "one", "store", "stop", FALSE)
alpaca == Credential(6, "one", "store", "stop", FALSE)
kalshi == Credential(12, "one", "verify", "stop", FALSE)
\* Accounts behind a grant. A TrueLayer account whose balance fails is left out of a sum that is
\* stored as a success; a YNAB or TrueLayer token that nears its end is renewed inside the sync.
truelayer == Credential(12, "one", "exchange", "stop", FALSE)
ynab == Credential(Days, "one", "exchange", "stop", FALSE)
discogs == Credential(7 * Days, "one", "exchange", "stop", FALSE)
\* Public addresses. A chain whose balance or price is unknown is left as it was.
hyperliquid == Credential(6, "many", "add", "stop", FALSE)
polymarket == Credential(12, "many", "add", "stop", FALSE)
chain_wallets == Credential(12, "many", "add", "stop", TRUE)
nft == Credential(Days, "many", "add", "next", FALSE)

metals == Holdings("price", Days, TRUE)
energy == Holdings("price", Days, FALSE)
farmland == Holdings("price", 30 * Days, FALSE)
sneakers == Holdings("price", 7 * Days, TRUE)
coins == Holdings("price", 7 * Days, FALSE)
trading_cards == Holdings("price", 7 * Days, FALSE)
\* All cards at once: the first failure ends the wait, the others are stored as they arrive.
pokemon_cards == Holdings("price", 7 * Days, FALSE)

crypto == Class(6, "store")
defi == Class(6, "add")
debts == Class(Days, "exchange")
investments == Class(Days, "exchange")

\* Nothing schedules these. A property without an AVM answer takes a value derived from its
\* purchase price; a vehicle whose VIN cannot be decoded is left out.
realEstate == [Holdings("hand", 0, FALSE) EXCEPT !.skips = TRUE]
vehicles == [Holdings("hand", 0, TRUE) EXCEPT !.skips = TRUE]

Vendors ==
  [by : {"credential", "price", "class", "hand"}, every : Nat, rows : {"one", "many"},
   connect : {"store", "add", "exchange", "verify"}, failure : {"stop", "next", "silent"},
   skips : BOOLEAN, keyed : BOOLEAN]
Profile ==
  [kraken |-> kraken, alpaca |-> alpaca, kalshi |-> kalshi, truelayer |-> truelayer, ynab |-> ynab,
   discogs |-> discogs, hyperliquid |-> hyperliquid, polymarket |-> polymarket,
   chain_wallets |-> chain_wallets, nft |-> nft, metals |-> metals, energy |-> energy,
   farmland |-> farmland, sneakers |-> sneakers, coins |-> coins, trading_cards |-> trading_cards,
   pokemon_cards |-> pokemon_cards, crypto |-> crypto, defi |-> defi, debts |-> debts,
   investments |-> investments, realEstate |-> realEstate, vehicles |-> vehicles]
=============================================================================
