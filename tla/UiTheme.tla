------------------------------ MODULE UiTheme ------------------------------
(***************************************************************************)
(* How the page starts and how it changes its theme: init.js, what         *)
(* runtime_config.js does when it is loaded, and theme_runtime.js, whose   *)
(* functions a page may call at any time once main.js is there.            *)
(***************************************************************************)
EXTENDS Integers, UiConfig

CONSTANTS
  Urls,                   \* the queries the page may be opened with
  Themes, NoTheme, DefaultTheme,  \* paths of theme files
  Lists, NoTokens,        \* lists of at least one token
  Tokens,                 \* ... those with a name and a value in every token
  Names, NoName,          \* what theme_name tokens hold
  NameOf,                 \* the name of a list of tokens, if it has one
  Holds,                  \* what a theme file may hold when it is read
  Unusable,               \* ... among it what has no valid token
  Switches,               \* the calls of handleSetTheme
  MaxChanges              \* bound: how often the network comes or goes

ASSUME UiThemeAssumption ==
  /\ DefaultTheme \in Themes /\ NoTheme \notin Themes
  /\ Tokens \subseteq Lists /\ NoTokens \notin Lists /\ Unusable \notin Lists
  /\ NameOf \in [Lists -> Names \cup {NoName}] /\ NoName \notin Names
  /\ Holds \in [Themes -> SUBSET (Tokens \cup {Unusable})]
  /\ MaxChanges \in Nat

VARIABLES
  url,
  stage,      \* the script init.js waits for; initialized, or its error screen
  config,     \* RUNTIME_CONFIG, as far as the URL decides it
  network,    \* navigator.onLine
  changes,    \* of the network, so far
  app,        \* uiState.app
  page,       \* the style element and data-theme; where the tokens come from
  themeCache,
  switches    \* each call: its phase, path, and tokens once loaded

startVars == <<url, stage, config>>
networkVars == <<network, changes>>
themeVars == <<page, themeCache, switches>>
uiThemeVars == <<startVars, networkVars, app, themeVars>>

NoConfig == [ENV |-> "", ACTIVE |-> "", DATABASE_PROVIDER |-> "", AUTH_PROVIDER |-> ""]

InitialApp(online) ==
  [online |-> online, initialized |-> FALSE, loading |-> TRUE, error |-> FALSE,
   currentTheme |-> NoTheme, themeTokens |-> NoTokens]

(* The listener of DOMContentLoaded.                                       *)
UiThemeInit ==
  /\ url \in Urls /\ stage = "runtime_config" /\ config = NoConfig
  /\ network \in BOOLEAN /\ changes = 0
  /\ app = InitialApp(network)
  /\ page = [tokens |-> NoTokens, from |-> NoTheme, name |-> NoName]
  /\ themeCache = [p \in {} |-> NoTokens]
  /\ switches = [s \in Switches |-> [phase |-> "idle", path |-> NoTheme, tokens |-> NoTokens]]

-----------------------------------------------------------------------------
(* Starting.                                                               *)

(* runtime_config.js runs: settings, the saved theme, network listeners.   *)
RuntimeConfigRuns ==
  /\ stage = "runtime_config"
  /\ config' = getActiveConfig(url)
  /\ stage' = IF postgresWanted(url, config') THEN "postgres" ELSE "main"
  /\ \E saved \in Themes : app' = [app EXCEPT !.currentTheme = saved]
  /\ UNCHANGED <<url, networkVars, themeVars>>

PostgresConfigRuns ==
  /\ stage = "postgres" /\ stage' = "main"
  /\ UNCHANGED <<url, config, networkVars, app, themeVars>>

(* main.js finds a uiState and keeps it.                                   *)
MainRuns ==
  /\ stage = "main" /\ stage' = "initialized"
  /\ app' = [app EXCEPT !.initialized = TRUE, !.loading = FALSE]
  /\ UNCHANGED <<url, config, networkVars, themeVars>>

showErrorScreen ==
  /\ stage \in {"runtime_config", "postgres", "main"} /\ stage' = "error"
  /\ app' = [app EXCEPT !.error = TRUE, !.loading = FALSE]
  /\ UNCHANGED <<url, config, networkVars, themeVars>>

(* The listeners of "online" and "offline", once runtime_config.js has run. *)
Network ==
  /\ changes < MaxChanges /\ changes' = changes + 1
  /\ network' = ~network
  /\ app' = IF config # NoConfig THEN [app EXCEPT !.online = network'] ELSE app
  /\ UNCHANGED <<startVars, themeVars>>

-----------------------------------------------------------------------------
(* handleSetTheme, up to its await, in loadTheme, and after it.            *)

(* The state names the new theme before it has been loaded. *)
handleSetThemeEarly(s, p) ==
  /\ stage = "initialized" /\ switches[s].phase = "idle"
  /\ app' = [app EXCEPT !.currentTheme = p]
  /\ switches' = [switches EXCEPT ![s] =
       IF p \in DOMAIN themeCache
       THEN [phase |-> "loaded", path |-> p, tokens |-> themeCache[p]]
       ELSE [phase |-> "loading", path |-> p, tokens |-> NoTokens]]
  /\ UNCHANGED <<startVars, networkVars, page, themeCache>>

handleSetTheme(s, p) ==
  /\ stage = "initialized" /\ switches[s].phase = "idle"
  /\ switches' = [switches EXCEPT ![s] =
       IF p \in DOMAIN themeCache
       THEN [phase |-> "loaded", path |-> p, tokens |-> themeCache[p]]
       ELSE [phase |-> "loading", path |-> p, tokens |-> NoTokens]]
  /\ UNCHANGED <<startVars, networkVars, app, page, themeCache>>

Cached(p, t) == [q \in DOMAIN themeCache \cup {p} |-> IF q = p THEN t ELSE themeCache[q]]

(* What has no list of tokens is cached and returned all the same. *)
loadThemeUnchecked(s) ==
  /\ switches[s].phase = "loading"
  /\ \/ \E t \in Holds[switches[s].path] :
          /\ themeCache' = Cached(switches[s].path, t)
          /\ switches' = [switches EXCEPT ![s].phase = "loaded", ![s].tokens = t]
     \/ /\ switches' = [switches EXCEPT ![s].phase = "failed"]
        /\ UNCHANGED themeCache
  /\ UNCHANGED <<startVars, networkVars, app, page>>

(* The file is read, from the network or from logLineCache: what comes is  *)
(* something the file held at some time, or an error.                      *)
loadTheme(s) ==
  /\ switches[s].phase = "loading"
  /\ \/ \E t \in Holds[switches[s].path] \ {Unusable} :
          /\ themeCache' = Cached(switches[s].path, t)
          /\ switches' = [switches EXCEPT ![s].phase = "loaded", ![s].tokens = t]
     \/ /\ switches' = [switches EXCEPT ![s].phase = "failed"]
        /\ UNCHANGED themeCache
  /\ UNCHANGED <<startVars, networkVars, app, page>>

(* A list without theme_name leaves data-theme as it is.                   *)
applyThemeToDOM(s) ==
  page' = [tokens |-> switches[s].tokens, from |-> switches[s].path,
           name |-> IF NameOf[switches[s].tokens] = NoName THEN page.name
                    ELSE NameOf[switches[s].tokens]]

(* logToConsole, called last, is defined nowhere: the catch adds a box to  *)
(* the page, after everything has been set.                                *)
ApplyTheme(s) ==
  /\ switches[s].phase = "loaded"
  /\ applyThemeToDOM(s)
  /\ app' = [app EXCEPT !.currentTheme = switches[s].path,
                        !.themeTokens = switches[s].tokens]
  /\ switches' = [switches EXCEPT ![s].phase = "applied"]
  /\ UNCHANGED <<startVars, networkVars, themeCache>>

(* Any list that is not empty: a token without a name or a value is cached *)
(* and served to every later switch to p.                                  *)
createThemeFile(p, t) ==
  /\ stage = "initialized"
  /\ themeCache' = Cached(p, t)
  /\ UNCHANGED <<startVars, networkVars, app, page, switches>>

(* Steps that tell nobody, and the one that triggers uiStateUpdated.       *)
Quiet ==
  \/ RuntimeConfigRuns \/ PostgresConfigRuns \/ MainRuns \/ showErrorScreen \/ Network
  \/ \E s \in Switches, p \in Themes : handleSetTheme(s, p)
  \/ \E s \in Switches : loadTheme(s)
  \/ \E p \in Themes, t \in Lists : createThemeFile(p, t)

UiThemeNext == Quiet \/ \E s \in Switches : ApplyTheme(s)
UiThemeSpec == UiThemeInit /\ [][UiThemeNext]_uiThemeVars

-----------------------------------------------------------------------------
Phases == {"idle", "loading", "loaded", "applied", "failed"}

UiThemeTypeOK ==
  /\ url \in Urls
  /\ stage \in {"runtime_config", "postgres", "main", "initialized", "error"}
  /\ config \in {NoConfig, getActiveConfig(url)}
  /\ network \in BOOLEAN /\ changes \in 0..MaxChanges
  /\ app \in [online : BOOLEAN, initialized : BOOLEAN, loading : BOOLEAN, error : BOOLEAN,
              currentTheme : Themes \cup {NoTheme}, themeTokens : Lists \cup {NoTokens}]
  /\ page \in [tokens : Lists \cup {NoTokens}, from : Themes \cup {NoTheme},
               name : Names \cup {NoName}]
  /\ DOMAIN themeCache \subseteq Themes
  /\ \A p \in DOMAIN themeCache : themeCache[p] \in Lists
  /\ switches \in [Switches -> [phase : Phases, path : Themes \cup {NoTheme},
                                tokens : Lists \cup {NoTokens}]]

(* Once a theme is on the page, uiState names it and holds its tokens, and *)
(* data-theme carries its name if it has one: with several switches under  *)
(* way, some of which fail, over files that change in between.             *)
ThemeAgrees ==
  page.tokens # NoTokens =>
    /\ app.themeTokens = page.tokens
    /\ app.currentTheme = page.from
    /\ NameOf[page.tokens] # NoName => page.name = NameOf[page.tokens]

(* What the programs that read the query make of it.  init.js asks for    *)
(* postgres_config.js iff the configuration has settled on postgres, and   *)
(* so does the provider of authentication.  config.js has the environment  *)
(* of ACTIVE; it has the same database iff the query names one, or "none", *)
(* and the same authentication iff it names one that both know: without    *)
(* ?db= the two are none and local here, postgres and postgres_jwt there.  *)
(* Unless ?vm= asks for it, it reaches other hosts, and only them, by SSL. *)
ConfigsAgree ==
  LET other == loadFromUrl(url) IN
  /\ config # NoConfig =>
       /\ postgresWanted(url, config) <=> config.DATABASE_PROVIDER = "postgres"
       /\ config.DATABASE_PROVIDER = "postgres" <=> config.AUTH_PROVIDER = "postgres_jwt"
       /\ config.ACTIVE = other.ENV
       /\ config.DATABASE_PROVIDER = other.DATABASE_PROVIDER
            <=> url.db \in DOMAIN AuthProviders \cup {"none"}
       /\ config.AUTH_PROVIDER = other.AUTH_PROVIDER <=> url.db \in DOMAIN JwtProviders
  /\ url.vm \notin {"true", "1"} => (other.HOST # "localhost" <=> other.SSL_MODE)
=============================================================================
