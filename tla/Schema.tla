------------------------------- MODULE Schema --------------------------------
(***************************************************************************)
(* The database tables (db/schema.ts), each reduced to what other code     *)
(* relies on: the tables its rows are deleted with (references(), onDelete *)
(* 'cascade'), whether the user id is its whole key, and the columns that  *)
(* are written through encryptString (util/crypto.ts). Columns that hold   *)
(* plain data, defaults and indexes are left out.                          *)
(***************************************************************************)
EXTENDS FiniteSets, TLC

Table(parents, single, secret) ==
  [parents |-> parents, single |-> single, secret |-> secret]
One(secret) == Table({"users"}, TRUE, secret)    \* one row per user
Many(secret) == Table({"users"}, FALSE, secret)  \* any number of rows per user
Free(secret) == Table({}, FALSE, secret)         \* no user column at all

IdentityTables ==
  [users |-> Free({"appleRefreshToken"}), deleted_user_ids |-> Free({}),
   sessions |-> Many({}), pet_state |-> One({}),
   reaction_history |-> Many({"reaction"}), processed_events |-> Free({})]

BankTables ==
  [plaid_items |-> Many({"accessToken"}), plaid_removal_queue |-> Free({"accessToken"}),
   transactions |-> Many({"merchantName"}), investment_transactions |-> Many({})]

WalletTables ==
  [device_tokens |-> Many({}), category_overrides |-> Many({"merchantNameEnc"}),
   coinbase_connections |-> One({"accessToken", "refreshToken"}),
   zerion_wallets |-> Many({}), spinwheel_connections |-> One({"lastCreditScore"}),
   chain_wallets |-> Many({})]

PropertyTables ==
  [hyperliquid_accounts |-> Many({}), real_estate_assets |-> Many({}),
   vehicle_assets |-> Many({}), metal_holdings |-> Many({}),
   ynab_connections |-> One({"apiKey", "accessToken", "refreshToken"})]

CredentialTables ==
  [kraken_connections |-> One({"apiKey", "privateKey"}),
   discogs_connections |-> One({"accessToken", "accessTokenSecret"}),
   kalshi_connections |-> One({"privateKeyBase64"}),
   discogs_pending |-> One({"oauthTokenSecret"}),
   plaid_recurring_streams |-> Many({"merchantName", "description"}),
   plaid_liability_cache |-> Many({}), spinwheel_pending |-> One({}),
   alpaca_connections |-> One({"apiKeyId", "apiSecretKey"})]

DeclaredTables ==
  [nft_wallets |-> Many({}), manual_assets |-> Many({}), declared_assets |-> Many({}),
   truelayer_connections |-> One({"accessToken", "refreshToken"}),
   polymarket_accounts |-> Many({}), trading_card_holdings |-> Many({})]

HoldingTables ==
  [coin_holdings |-> Many({}), sneaker_holdings |-> Many({}),
   pokemon_card_holdings |-> Many({}), energy_positions |-> Many({}),
   farmland_parcels |-> Many({}), notification_log |-> Many({}),
   plaid_account_balances |-> Many({})]

SeriesTables ==
  [asset_class_cache |-> Many({}), net_worth_daily |-> Many({}), derived_state |-> One({}),
   request_samples |-> Free({}), ladder_state |-> One({})]

GoalTables ==
  [user_declarations |-> One({}), goals |-> Many({}), goal_periods |-> Many({}),
   entitlements |-> One({}), household_members |-> Many({}),
   app_store_notifications |-> Free({})]

TelemetryTables ==
  [pet_progression |-> One({}), ops_events |-> Free({}), crash_diagnostics |-> Many({}),
   analytics_events |-> Many({})]

DebtTables ==
  [goal_pace |-> Table({"users", "goals"}, FALSE, {}), debt_source_accounts |-> Many({}),
   debt_accounts |-> Many({}), debt_merge_decisions |-> Many({}),
   debt_plan_settings |-> One({})]

Tables ==
  IdentityTables @@ BankTables @@ WalletTables @@ PropertyTables @@ CredentialTables
  @@ DeclaredTables @@ HoldingTables @@ SeriesTables @@ GoalTables @@ TelemetryTables
  @@ DebtTables

\* The tables a deleted users row takes with it, through any chain of cascades.
\* No chain is longer than two, so two rounds reach the fixpoint.
DeletedWith(roots) == {t \in DOMAIN Tables : Tables[t].parents \cap roots # {}}
Cascading == DeletedWith({"users"} \cup DeletedWith({"users"}))

\* The columns a change of the encryption key has to reach.
EncryptedColumns == UNION {{t} \X Tables[t].secret : t \in DOMAIN Tables}

\* TARGETS: the columns the sweep was written for, by table.
SweptColumns ==
  {<<"users", "appleRefreshToken">>, <<"reaction_history", "reaction">>,
   <<"plaid_items", "accessToken">>, <<"plaid_removal_queue", "accessToken">>,
   <<"transactions", "merchantName">>, <<"discogs_pending", "oauthTokenSecret">>,
   <<"kalshi_connections", "privateKeyBase64">>}
  \cup ({"plaid_recurring_streams"} \X {"merchantName", "description"})
  \cup ({"coinbase_connections", "truelayer_connections"} \X {"accessToken", "refreshToken"})
  \cup ({"ynab_connections"} \X {"apiKey", "accessToken", "refreshToken"})
  \cup ({"kraken_connections"} \X {"apiKey", "privateKey"})
  \cup ({"discogs_connections"} \X {"accessToken", "accessTokenSecret"})
  \cup ({"alpaca_connections"} \X {"apiKeyId", "apiSecretKey"})
=============================================================================
