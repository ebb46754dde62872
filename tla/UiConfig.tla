------------------------------ MODULE UiConfig ------------------------------
(***************************************************************************)
(* What the query of the page's URL makes of the settings in               *)
(* runtime_config.js, which scripts init.js then asks for, and what        *)
(* config.js makes of the same query.  A parameter that is missing is "".  *)
(* RUNTIME_CONFIG.ENV is a constant; ACTIVE is the entry of ENVIRONMENTS   *)
(* that the settings are taken from.                                       *)
(***************************************************************************)
OrElse(x, default) == IF x = "" THEN default ELSE x

ENVIRONMENTS == {"development", "staging", "production"}

(* AUTH.PROVIDER follows the provider of the database. *)
JwtProviders == [postgres |-> "postgres_jwt", supabase |-> "supabase"]
AuthProviders == [postgres |-> "postgres_jwt", supabase |-> "supabase",
                  firebase |-> "firebase"]

(* The case of postgres sets no provider of authentication. *)
getActiveConfigLocal(url) ==
  LET env == OrElse(url.env, "development")
      db == OrElse(url.db, "none")
      known == db \in DOMAIN AuthProviders
  IN [ENV |-> "development",
      ACTIVE |-> IF env \in ENVIRONMENTS THEN env ELSE "development",
      DATABASE_PROVIDER |-> IF known THEN db ELSE "none",
      AUTH_PROVIDER |-> IF known /\ db # "postgres" THEN AuthProviders[db] ELSE "local"]

(* An unknown database changes nothing: the provider stays "none".         *)
getActiveConfig(url) ==
  LET env == OrElse(url.env, "development")
      db == OrElse(url.db, "none")
      known == db \in DOMAIN AuthProviders
  IN [ENV |-> "development",
      ACTIVE |-> IF env \in ENVIRONMENTS THEN env ELSE "development",
      DATABASE_PROVIDER |-> IF known THEN db ELSE "none",
      AUTH_PROVIDER |-> IF known THEN AuthProviders[db] ELSE "local"]

(* init.js: whether postgres_config.js is loaded.                          *)
postgresWanted(url, config) == OrElse(url.db, config.DATABASE_PROVIDER) = "postgres"

(* config.js, which no page of the repository loads; it starts from        *)
(* localhost without SSL, and ?vm= replaces the host whatever was chosen.  *)
loadFromUrl(url) ==
  LET db == OrElse(url.db, "postgres")
      env == IF url.env \in {"production", "staging"} THEN url.env ELSE "development"
      remote == db = "postgres" /\ env # "development"
  IN [ENV |-> env,
      DATABASE_PROVIDER |-> db,
      AUTH_PROVIDER |-> IF db \in DOMAIN JwtProviders THEN JwtProviders[db] ELSE "supabase",
      HOST |-> IF url.vm \in {"true", "1"} \/ (remote /\ env = "production") THEN "vm"
               ELSE IF remote THEN "staging-db" ELSE "localhost",
      SSL_MODE |-> remote]
=============================================================================
