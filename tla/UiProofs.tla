------------------------------ MODULE UiProofs ------------------------------
(***************************************************************************)
(* What holds of the start of the page, of its themes, of uiState and of   *)
(* the loader, for any URLs, theme files, spans, calls and files.          *)
(***************************************************************************)
EXTENDS UiState, UiLoader, SequenceTheorems, NaturalsInduction, WellFoundedInduction, TLAPS

-----------------------------------------------------------------------------
(* The start and the themes.                                               *)

(* No theme is switched before the page is initialized, and a switch that  *)
(* waits has a path, one that is ready to be applied its tokens as well.   *)
SwitchesLate ==
  stage # "initialized" =>
    page.tokens = NoTokens /\ \A s \in Switches : switches[s].phase = "idle"

SwitchesHold ==
  \A s \in Switches :
    /\ switches[s].phase \in {"loading", "loaded"} => switches[s].path \in Themes
    /\ switches[s].phase = "loaded" => switches[s].tokens \in Lists

Apps ==
  [online : BOOLEAN, initialized : BOOLEAN, loading : BOOLEAN, error : BOOLEAN,
   currentTheme : Themes \cup {NoTheme}, themeTokens : Lists \cup {NoTokens}]
Pages == [tokens : Lists \cup {NoTokens}, from : Themes \cup {NoTheme}, name : Names \cup {NoName}]

Inv == UiThemeTypeOK /\ SwitchesLate /\ SwitchesHold

LEMMA InitInv ==
  ASSUME UiThemeInit
  PROVE  Inv /\ ThemeAgrees
<1>1. UiThemeTypeOK
  <2>1. DOMAIN themeCache = {}
    BY DEF UiThemeInit
  <2>2. app \in Apps
    BY DEF UiThemeInit, InitialApp, Apps
  <2>3. page \in Pages
    BY DEF UiThemeInit, Pages
  <2>4. switches \in [Switches -> [phase : Phases, path : Themes \cup {NoTheme},
                                   tokens : Lists \cup {NoTokens}]]
    BY DEF UiThemeInit, Phases
  <2>5. changes \in 0..MaxChanges
    BY UiThemeAssumption DEF UiThemeInit
  <2> QED  BY <2>1, <2>2, <2>3, <2>4, <2>5 DEF UiThemeInit, UiThemeTypeOK, Apps, Pages
<1>2. SwitchesLate /\ SwitchesHold /\ ThemeAgrees
  BY DEF UiThemeInit, SwitchesLate, SwitchesHold, ThemeAgrees
<1> QED  BY <1>1, <1>2 DEF Inv

(* The scripts that init.js waits for, and the network.                    *)
LEMMA StartStep ==
  ASSUME Inv, ThemeAgrees,
         RuntimeConfigRuns \/ PostgresConfigRuns \/ MainRuns \/ showErrorScreen \/ Network
  PROVE  Inv' /\ ThemeAgrees'
<1> USE DEF Inv, startVars, networkVars, themeVars
<1>1. UiThemeTypeOK'
  <2>1. CASE RuntimeConfigRuns
    BY <2>1 DEF RuntimeConfigRuns, UiThemeTypeOK
  <2>2. CASE PostgresConfigRuns
    BY <2>2 DEF PostgresConfigRuns, UiThemeTypeOK
  <2>3. CASE MainRuns
    BY <2>3 DEF MainRuns, UiThemeTypeOK
  <2>4. CASE showErrorScreen
    BY <2>4 DEF showErrorScreen, UiThemeTypeOK
  <2>5. CASE Network
    <3>1. changes' \in 0..MaxChanges /\ network' \in BOOLEAN
      BY <2>5, UiThemeAssumption DEF Network, UiThemeTypeOK
    <3>2. app' \in Apps
      BY <2>5, <3>1 DEF Network, UiThemeTypeOK, Apps
    <3> QED  BY <2>5, <3>1, <3>2 DEF Network, UiThemeTypeOK, Apps
  <2> QED  BY <2>1, <2>2, <2>3, <2>4, <2>5
<1>2. UNCHANGED <<page, switches>> /\ (stage' # "initialized" => stage # "initialized")
  BY DEF RuntimeConfigRuns, PostgresConfigRuns, MainRuns, showErrorScreen, Network
<1>3. SwitchesLate' /\ SwitchesHold'
  BY <1>2 DEF SwitchesLate, SwitchesHold
<1>4. ThemeAgrees'
  <2>1. CASE RuntimeConfigRuns
    BY <1>2, <2>1 DEF RuntimeConfigRuns, SwitchesLate, ThemeAgrees
  <2>2. CASE ~RuntimeConfigRuns
    <3>1. app'.themeTokens = app.themeTokens /\ app'.currentTheme = app.currentTheme
      BY <2>2 DEF PostgresConfigRuns, MainRuns, showErrorScreen, Network, UiThemeTypeOK
    <3> QED  BY <1>2, <3>1 DEF ThemeAgrees
  <2> QED  BY <2>1, <2>2
<1> QED  BY <1>1, <1>3, <1>4

(* The cache has tokens for the paths of theme files alone.                *)
LEMMA CachedType ==
  ASSUME UiThemeTypeOK, NEW p \in Themes, NEW t \in Lists
  PROVE  /\ DOMAIN Cached(p, t) \subseteq Themes
         /\ \A q \in DOMAIN Cached(p, t) : Cached(p, t)[q] \in Lists
BY DEF UiThemeTypeOK, Cached

LEMMA ReadStep ==
  ASSUME Inv, ThemeAgrees,
         \/ \E s \in Switches, p \in Themes : handleSetTheme(s, p)
         \/ \E s \in Switches : loadTheme(s)
         \/ \E p \in Themes, t \in Lists : createThemeFile(p, t)
  PROVE  Inv' /\ ThemeAgrees'
<1> USE DEF Inv, startVars, networkVars
<1>1. ASSUME NEW s \in Switches, NEW p \in Themes, handleSetTheme(s, p)
      PROVE  Inv' /\ ThemeAgrees'
  <2> DEFINE new == IF p \in DOMAIN themeCache
                    THEN [phase |-> "loaded", path |-> p, tokens |-> themeCache[p]]
                    ELSE [phase |-> "loading", path |-> p, tokens |-> NoTokens]
  <2>1. /\ new \in [phase : Phases, path : Themes \cup {NoTheme}, tokens : Lists \cup {NoTokens}]
        /\ new.phase \in {"loading", "loaded"} => new.path \in Themes
        /\ new.phase = "loaded" => new.tokens \in Lists
    BY DEF UiThemeTypeOK, Phases
  <2>2. /\ switches' = [switches EXCEPT ![s] = new]
        /\ stage = "initialized"
        /\ UNCHANGED <<startVars, networkVars, app, page, themeCache>>
    BY <1>1 DEF handleSetTheme
  <2> HIDE DEF new
  <2>3. UiThemeTypeOK'
    BY <2>1, <2>2 DEF UiThemeTypeOK
  <2>4. SwitchesLate' /\ ThemeAgrees'
    BY <2>2 DEF SwitchesLate, ThemeAgrees
  <2>5. SwitchesHold'
    BY <2>1, <2>2 DEF SwitchesHold, UiThemeTypeOK
  <2> QED  BY <2>3, <2>4, <2>5
<1>2. ASSUME NEW s \in Switches, loadTheme(s) PROVE Inv' /\ ThemeAgrees'
  <2>1. stage = "initialized"
    BY <1>2 DEF loadTheme, SwitchesLate
  <2>2. CASE /\ switches' = [switches EXCEPT ![s].phase = "failed"]
             /\ UNCHANGED <<themeCache, startVars, networkVars, app, page>>
    <3>1. UiThemeTypeOK'
      BY <2>2 DEF UiThemeTypeOK, Phases
    <3>2. SwitchesLate' /\ ThemeAgrees'
      BY <2>1, <2>2 DEF SwitchesLate, ThemeAgrees
    <3>3. SwitchesHold'
      BY <2>2 DEF SwitchesHold, UiThemeTypeOK
    <3> QED  BY <3>1, <3>2, <3>3
  <2>3. ASSUME NEW t \in Holds[switches[s].path] \ {Unusable},
               themeCache' = Cached(switches[s].path, t),
               switches' = [switches EXCEPT ![s].phase = "loaded", ![s].tokens = t],
               UNCHANGED <<startVars, networkVars, app, page>>
        PROVE  Inv' /\ ThemeAgrees'
    <3>1. switches[s].path \in Themes
      BY <1>2 DEF loadTheme, SwitchesHold
    <3>2. t \in Lists
      BY <2>3, <3>1, UiThemeAssumption
    <3>3. /\ DOMAIN themeCache' \subseteq Themes
          /\ \A q \in DOMAIN themeCache' : themeCache'[q] \in Lists
      BY <2>3, <3>1, <3>2, CachedType
    <3>4. UiThemeTypeOK'
      <4> DEFINE Moves == [phase : Phases, path : Themes \cup {NoTheme},
                           tokens : Lists \cup {NoTokens}]
                 new == [switches[s] EXCEPT !.phase = "loaded", !.tokens = t]
      <4>1. switches \in [Switches -> Moves]
        BY DEF UiThemeTypeOK
      <4>2. switches' = [switches EXCEPT ![s] = new]
        BY <2>3, <4>1
      <4>3. switches[s] \in Moves
        BY <4>1
      <4>4. new \in Moves
        BY <3>2, <4>3 DEF Phases
      <4> HIDE DEF Moves, new
      <4>5. switches' \in [Switches -> Moves]
        BY <4>1, <4>2, <4>4
      <4> QED  BY <2>3, <3>3, <4>5 DEF UiThemeTypeOK, Moves
    <3>5. SwitchesLate' /\ ThemeAgrees'
      BY <2>1, <2>3 DEF SwitchesLate, ThemeAgrees
    <3>6. SwitchesHold'
      BY <2>3, <3>1, <3>2 DEF SwitchesHold, UiThemeTypeOK
    <3> QED  BY <3>4, <3>5, <3>6
  <2> QED  BY <1>2, <2>2, <2>3 DEF loadTheme
<1>3. ASSUME NEW p \in Themes, NEW t \in Lists, createThemeFile(p, t)
      PROVE  Inv' /\ ThemeAgrees'
  <2>1. /\ DOMAIN themeCache' \subseteq Themes
        /\ \A q \in DOMAIN themeCache' : themeCache'[q] \in Lists
    BY <1>3, CachedType DEF createThemeFile
  <2>2. UNCHANGED <<startVars, networkVars, app, page, switches>>
    BY <1>3 DEF createThemeFile
  <2>3. UiThemeTypeOK'
    BY <2>1, <2>2 DEF UiThemeTypeOK
  <2> QED  BY <2>2, <2>3 DEF SwitchesLate, SwitchesHold, ThemeAgrees
<1> QED  BY <1>1, <1>2, <1>3

(* The one step that changes the page.                                     *)
LEMMA ApplyStep ==
  ASSUME Inv, ThemeAgrees, NEW s \in Switches, ApplyTheme(s)
  PROVE  Inv' /\ ThemeAgrees'
<1> DEFINE t == switches[s].tokens
<1> USE DEF Inv, startVars, networkVars
<1>1. /\ switches[s].path \in Themes /\ t \in Lists /\ stage = "initialized"
      /\ NameOf[t] \in Names \cup {NoName}
  BY UiThemeAssumption DEF ApplyTheme, SwitchesLate, SwitchesHold
<1>2. /\ page' = [tokens |-> t, from |-> switches[s].path,
                  name |-> IF NameOf[t] = NoName THEN page.name ELSE NameOf[t]]
      /\ app' = [app EXCEPT !.currentTheme = switches[s].path, !.themeTokens = t]
      /\ switches' = [switches EXCEPT ![s].phase = "applied"]
      /\ UNCHANGED <<startVars, networkVars, themeCache>>
  BY DEF ApplyTheme, applyThemeToDOM
<1> HIDE DEF t
<1>3. UiThemeTypeOK'
  <2>1. app' \in Apps
    BY <1>1, <1>2 DEF UiThemeTypeOK, Apps
  <2>2. page' \in Pages
    BY <1>1, <1>2 DEF UiThemeTypeOK, Pages
  <2>3. switches' \in [Switches -> [phase : Phases, path : Themes \cup {NoTheme},
                                    tokens : Lists \cup {NoTokens}]]
    BY <1>2 DEF UiThemeTypeOK, Phases
  <2> QED  BY <1>2, <2>1, <2>2, <2>3 DEF UiThemeTypeOK, Apps, Pages
<1>4. SwitchesLate'
  BY <1>1, <1>2 DEF SwitchesLate
<1>5. SwitchesHold'
  BY <1>2 DEF SwitchesHold, UiThemeTypeOK
<1>6. ThemeAgrees'
  <2>1. /\ app'.currentTheme = switches[s].path /\ app'.themeTokens = t
        /\ page'.tokens = t /\ page'.from = switches[s].path
        /\ page'.name = IF NameOf[t] = NoName THEN page.name ELSE NameOf[t]
    BY <1>2 DEF UiThemeTypeOK
  <2> QED  BY <2>1 DEF ThemeAgrees
<1> QED  BY <1>3, <1>4, <1>5, <1>6

LEMMA InvCorrect == UiThemeSpec => [](Inv /\ ThemeAgrees)
<1>1. UiThemeInit => Inv /\ ThemeAgrees
  BY InitInv
<1>2. Inv /\ ThemeAgrees /\ [UiThemeNext]_uiThemeVars => Inv' /\ ThemeAgrees'
  <2> SUFFICES ASSUME Inv, ThemeAgrees, [UiThemeNext]_uiThemeVars PROVE Inv' /\ ThemeAgrees'
    OBVIOUS
  <2>1. CASE UNCHANGED uiThemeVars
    <3>1. UiThemeTypeOK'
      BY <2>1 DEF uiThemeVars, startVars, networkVars, themeVars, Inv, UiThemeTypeOK
    <3> QED  BY <2>1, <3>1 DEF uiThemeVars, startVars, themeVars, Inv, SwitchesLate,
                               SwitchesHold, ThemeAgrees
  <2> QED  BY <2>1, StartStep, ReadStep, ApplyStep DEF UiThemeNext, Quiet
<1> QED  BY <1>1, <1>2, PTL DEF UiThemeSpec

(***************************************************************************)
(* The variables of the start and of the themes keep their types.          *)
(***************************************************************************)
THEOREM ThemeTypeCorrect == UiThemeSpec => []UiThemeTypeOK
<1>1. Inv => UiThemeTypeOK
  BY DEF Inv
<1> QED  BY <1>1, InvCorrect, PTL

(***************************************************************************)
(* The tokens on the page are those uiState names, with any number of      *)
(* switches under way, of which any may fail.                              *)
(***************************************************************************)
THEOREM ThemeAgreesAlways == UiThemeSpec => []ThemeAgrees
BY InvCorrect, PTL

(* What the programs that read a query make of it, whatever it holds.      *)
LEMMA QueryRead ==
  ASSUME NEW u
  PROVE  LET c == getActiveConfig(u)
             other == loadFromUrl(u)
         IN /\ postgresWanted(u, c) <=> c.DATABASE_PROVIDER = "postgres"
            /\ c.DATABASE_PROVIDER = "postgres" <=> c.AUTH_PROVIDER = "postgres_jwt"
            /\ c.ACTIVE = other.ENV
            /\ c.DATABASE_PROVIDER = other.DATABASE_PROVIDER
                 <=> u.db \in DOMAIN AuthProviders \cup {"none"}
            /\ c.AUTH_PROVIDER = other.AUTH_PROVIDER <=> u.db \in DOMAIN JwtProviders
            /\ u.vm \notin {"true", "1"} => (other.HOST # "localhost" <=> other.SSL_MODE)
<1>1. /\ DOMAIN AuthProviders = {"postgres", "supabase", "firebase"}
      /\ AuthProviders["postgres"] = "postgres_jwt"
      /\ AuthProviders["supabase"] = "supabase"
      /\ AuthProviders["firebase"] = "firebase"
      /\ DOMAIN JwtProviders = {"postgres", "supabase"}
      /\ JwtProviders["postgres"] = "postgres_jwt"
      /\ JwtProviders["supabase"] = "supabase"
  BY DEF AuthProviders, JwtProviders
<1> HIDE DEF AuthProviders, JwtProviders
<1>2. /\ getActiveConfig(u).ACTIVE = IF OrElse(u.env, "development") \in ENVIRONMENTS
                                     THEN OrElse(u.env, "development") ELSE "development"
      /\ getActiveConfig(u).DATABASE_PROVIDER =
           IF OrElse(u.db, "none") \in DOMAIN AuthProviders THEN OrElse(u.db, "none") ELSE "none"
      /\ getActiveConfig(u).AUTH_PROVIDER =
           IF OrElse(u.db, "none") \in DOMAIN AuthProviders
           THEN AuthProviders[OrElse(u.db, "none")] ELSE "local"
  BY DEF getActiveConfig
<1> DEFINE env == IF u.env \in {"production", "staging"} THEN u.env ELSE "development"
           remote == OrElse(u.db, "postgres") = "postgres" /\ env # "development"
<1>3. /\ loadFromUrl(u).ENV = env
      /\ loadFromUrl(u).DATABASE_PROVIDER = OrElse(u.db, "postgres")
      /\ loadFromUrl(u).AUTH_PROVIDER =
           IF OrElse(u.db, "postgres") \in DOMAIN JwtProviders
           THEN JwtProviders[OrElse(u.db, "postgres")] ELSE "supabase"
      /\ loadFromUrl(u).HOST =
           IF u.vm \in {"true", "1"} \/ (remote /\ env = "production") THEN "vm"
           ELSE IF remote THEN "staging-db" ELSE "localhost"
      /\ loadFromUrl(u).SSL_MODE = remote
  BY DEF loadFromUrl
<1>4. postgresWanted(u, getActiveConfig(u)) <=> getActiveConfig(u).DATABASE_PROVIDER = "postgres"
  BY <1>1, <1>2 DEF postgresWanted, OrElse
<1>5. getActiveConfig(u).DATABASE_PROVIDER = "postgres"
        <=> getActiveConfig(u).AUTH_PROVIDER = "postgres_jwt"
  BY <1>1, <1>2 DEF OrElse
<1>6. getActiveConfig(u).ACTIVE = loadFromUrl(u).ENV
  BY <1>2, <1>3 DEF OrElse, ENVIRONMENTS
<1>7. getActiveConfig(u).DATABASE_PROVIDER = loadFromUrl(u).DATABASE_PROVIDER
        <=> u.db \in DOMAIN AuthProviders \cup {"none"}
  BY <1>1, <1>2, <1>3 DEF OrElse
<1>8. getActiveConfig(u).AUTH_PROVIDER = loadFromUrl(u).AUTH_PROVIDER
        <=> u.db \in DOMAIN JwtProviders
  <2>1. CASE u.db = ""
    BY <1>1, <1>2, <1>3, <2>1 DEF OrElse
  <2>2. CASE u.db = "firebase"
    BY <1>1, <1>2, <1>3, <2>2 DEF OrElse
  <2>3. CASE u.db \in {"postgres", "supabase"}
    BY <1>1, <1>2, <1>3, <2>3 DEF OrElse
  <2>4. CASE u.db \notin {"", "postgres", "supabase", "firebase"}
    BY <1>1, <1>2, <1>3, <2>4 DEF OrElse
  <2> QED  BY <2>1, <2>2, <2>3, <2>4
<1>9. u.vm \notin {"true", "1"} => (loadFromUrl(u).HOST # "localhost" <=> loadFromUrl(u).SSL_MODE)
  BY <1>3
<1> QED  BY <1>4, <1>5, <1>6, <1>7, <1>8, <1>9

(***************************************************************************)
(* What the programs that read the query of the page make of it, from the  *)
(* moment runtime_config.js has settled on a configuration: for which      *)
(* queries they agree, and that they differ for the others.                *)
(***************************************************************************)
THEOREM ConfigsAgreeAlways == UiThemeSpec => []ConfigsAgree
<1>1. Inv => ConfigsAgree
  <2> SUFFICES ASSUME Inv PROVE ConfigsAgree
    OBVIOUS
  <2>1. config # NoConfig => config = getActiveConfig(url)
    BY DEF Inv, UiThemeTypeOK
  <2> QED  BY <2>1, QueryRead DEF ConfigsAgree
<1> QED  BY <1>1, InvCorrect, PTL

-----------------------------------------------------------------------------
(* Induction, in the forms that loops over paths and listeners need: on    *)
(* the least number, up to a number, and for the values of a loop.         *)
LEMMA LeastNatural ==
  ASSUME NEW T \in SUBSET Nat, T # {}
  PROVE  \E x \in T : \A y \in T : x =< y
<1> DEFINE R == {p \in Nat \X Nat : p[1] < p[2]}
<1>1. OpToRel(<, Nat) = R
  BY DEF OpToRel
<1>2. IsWellFoundedOn(R, Nat)
  BY <1>1, NatLessThanWellFounded
<1>3. \E x \in T : \A y \in T : ~(<<y, x>> \in R)
  <2> HIDE DEF R
  <2> QED  BY <1>2, WFMin
<1>4. PICK x \in T : \A y \in T : ~(<<y, x>> \in R)
  BY <1>3
<1>5. \A y \in T : ~(y < x)
  BY <1>4
<1> QED  BY <1>5

LEMMA UpTo ==
  ASSUME NEW n \in Nat, NEW P, 0 \in P, \A i \in 1..n : i - 1 \in P => i \in P
  PROVE  \A i \in 0..n : i \in P
<1> DEFINE T == {i \in 0..n : i \notin P}
<1>1. SUFFICES ASSUME T # {} PROVE FALSE
  OBVIOUS
<1>2. T \in SUBSET Nat
  OBVIOUS
<1>3. PICK k \in T : \A y \in T : k =< y
  <2> HIDE DEF T
  <2> QED  BY <1>1, <1>2, LeastNatural
<1>4. k \in 1..n
  OBVIOUS
<1>5. k - 1 \in 0..n /\ k - 1 \notin T
  <2>1. k - 1 \in 0..n /\ ~(k =< k - 1)
    BY <1>4
  <2> HIDE DEF T
  <2> QED  BY <1>3, <2>1
<1> QED  BY <1>4, <1>5

Runs(g, n, a, step) == g[0] = a /\ \A i \in 1..n : g[i] = step[<<g[i - 1], i>>]

LEMMA Iterated ==
  ASSUME NEW n \in Nat, NEW S, NEW a \in S, NEW step \in [S \X (1..n) -> S]
  PROVE  \E g \in [0..n -> S] : Runs(g, n, a, step)
<1> DEFINE Loop(g, m) == g[0] = a /\ \A i \in 1..m : g[i] = step[<<g[i - 1], i>>]
           P == {m \in 0..n : \E g \in [0..m -> S] : Loop(g, m)}
<1>1. 0 \in P
  <2>1. PICK g : g = [i \in 0..0 |-> a]
    OBVIOUS
  <2>2. g \in [0..0 -> S] /\ Loop(g, 0)
    BY <2>1
  <2> QED  BY <2>2
<1>2. ASSUME NEW m \in 1..n, m - 1 \in P PROVE m \in P
  <2>1. PICK f \in [0..(m - 1) -> S] : Loop(f, m - 1)
    BY <1>2
  <2>2. PICK b : b = step[<<f[m - 1], m>>]
    OBVIOUS
  <2>3. b \in S
    BY <2>1, <2>2
  <2>4. PICK g : g = [i \in 0..m |-> IF i = m THEN b ELSE f[i]]
    OBVIOUS
  <2>5. \A i \in 0..m : i = m \/ i \in 0..(m - 1)
    OBVIOUS
  <2>6. g \in [0..m -> S] /\ g[m] = b /\ \A i \in 0..(m - 1) : g[i] = f[i]
    BY <2>3, <2>4, <2>5
  <2>7. Loop(g, m)
    <3>1. ASSUME NEW i \in 1..m PROVE g[i] = step[<<g[i - 1], i>>]
      <4>1. i - 1 \in 0..(m - 1) /\ m - 1 \in 0..(m - 1)
        OBVIOUS
      <4>2. CASE i = m
        BY <2>2, <2>6, <4>1, <4>2
      <4>3. CASE i # m
        <5>1. i \in 1..(m - 1) /\ i \in 0..(m - 1)
          BY <4>3
        <5> QED  BY <2>1, <2>6, <4>1, <5>1
      <4> QED  BY <4>2, <4>3
    <3>2. g[0] = a
      BY <2>1, <2>6
    <3> QED  BY <3>1, <3>2
  <2> QED  BY <2>6, <2>7
<1>3. n \in 0..n
  OBVIOUS
<1>4. n \in P
  <2> HIDE DEF P
  <2> QED  BY <1>1, <1>2, <1>3, UpTo
<1> QED  BY <1>4 DEF Runs

-----------------------------------------------------------------------------
(* uiState: objects whose references lead to objects that there are.       *)
Whats == {""} \cup Texts \cup Themes \cup {NoTheme} \cup Nat
Vals == {"undefined", "null", "text", "object"} \X Whats
ValuesIn(n) == {v \in Vals : v[1] = "object" => v[2] \in 1..n}
Heaps ==
  {h \in Seq([Fields -> Vals]) :
     Len(h) \in Nat \ {0} /\ \A i \in 1..Len(h) : h[i] \in [Fields -> ValuesIn(Len(h))]}

LEMMA SimpleValues ==
  ASSUME NEW n \in Nat
  PROVE  /\ Undefined \in ValuesIn(n) /\ Null \in ValuesIn(n)
         /\ \A i \in 1..n : Ref(i) \in ValuesIn(n)
         /\ \A t \in Texts \cup Themes \cup {NoTheme} : Text(t) \in ValuesIn(n)
         /\ \A m \in Nat : n =< m => ValuesIn(n) \subseteq ValuesIn(m)
<1>1. \A i \in 1..n : i \in Nat
  OBVIOUS
<1>2. \A m \in Nat : n =< m => \A i \in 1..n : i \in 1..m
  OBVIOUS
<1>3. \A m \in Nat : n =< m => ValuesIn(n) \subseteq ValuesIn(m)
  BY <1>2 DEF ValuesIn
<1>4. Undefined \in ValuesIn(n) /\ Null \in ValuesIn(n)
  BY DEF ValuesIn, Vals, Whats, Undefined, Null
<1>5. ASSUME NEW i \in 1..n PROVE Ref(i) \in ValuesIn(n)
  BY <1>1 DEF ValuesIn, Vals, Whats, Ref
<1>6. ASSUME NEW t \in Texts \cup Themes \cup {NoTheme} PROVE Text(t) \in ValuesIn(n)
  BY DEF ValuesIn, Vals, Whats, Text
<1> QED  BY <1>3, <1>4, <1>5, <1>6

LEMMA PutIn ==
  ASSUME NEW h \in Heaps, NEW i \in 1..Len(h), NEW f \in Fields, NEW v \in ValuesIn(Len(h))
  PROVE  [h EXCEPT ![i][f] = v] \in Heaps /\ Len([h EXCEPT ![i][f] = v]) = Len(h)
<1>1. /\ h \in Seq([Fields -> Vals]) /\ Len(h) \in Nat \ {0}
      /\ \A k \in 1..Len(h) : h[k] \in [Fields -> ValuesIn(Len(h))]
  BY DEF Heaps
<1>2. PICK o : o = [h[i] EXCEPT ![f] = v]
  OBVIOUS
<1>3. o \in [Fields -> ValuesIn(Len(h))]
  BY <1>1, <1>2
<1>4. o \in [Fields -> Vals]
  BY <1>3 DEF ValuesIn
<1>5. PICK g : g = [h EXCEPT ![i] = o]
  OBVIOUS
<1>6. g \in Seq([Fields -> Vals]) /\ Len(g) = Len(h) /\ \A k \in 1..Len(h) : g[k] = IF k = i THEN o ELSE h[k]
  BY <1>1, <1>4, <1>5, ExceptSeq
<1>7. g \in Heaps
  BY <1>1, <1>3, <1>6 DEF Heaps
<1> QED  BY <1>2, <1>5, <1>6, <1>7

LEMMA GrowIn ==
  ASSUME NEW h \in Heaps, NEW i \in 1..Len(h), NEW f \in Fields
  PROVE  LET g == Append([h EXCEPT ![i][f] = Ref(Len(h) + 1)], Empty)
         IN g \in Heaps /\ Len(g) = Len(h) + 1
<1>1. /\ h \in Seq([Fields -> Vals]) /\ Len(h) \in Nat \ {0}
      /\ \A k \in 1..Len(h) : h[k] \in [Fields -> ValuesIn(Len(h))]
  BY DEF Heaps
<1>2. PICK n \in Nat : n = Len(h)
  BY <1>1
<1>3. /\ Ref(n + 1) \in ValuesIn(n + 1) /\ Undefined \in ValuesIn(n + 1)
      /\ ValuesIn(n) \subseteq ValuesIn(n + 1)
  BY SimpleValues
<1>4. PICK o : o = [h[i] EXCEPT ![f] = Ref(n + 1)]
  OBVIOUS
<1>5. /\ o \in [Fields -> ValuesIn(n + 1)] /\ Empty \in [Fields -> ValuesIn(n + 1)]
      /\ \A k \in 1..n : h[k] \in [Fields -> ValuesIn(n + 1)]
  BY <1>1, <1>2, <1>3, <1>4 DEF Empty
<1>6. o \in [Fields -> Vals] /\ Empty \in [Fields -> Vals]
  BY <1>5 DEF ValuesIn
<1>7. PICK e : e = [h EXCEPT ![i] = o]
  OBVIOUS
<1>8. e \in Seq([Fields -> Vals]) /\ Len(e) = n /\ \A k \in 1..n : e[k] = IF k = i THEN o ELSE h[k]
  BY <1>1, <1>2, <1>6, <1>7, ExceptSeq
<1>9. PICK g : g = Append(e, Empty)
  OBVIOUS
<1>10. g \in Seq([Fields -> Vals]) /\ Len(g) = n + 1 /\ g[n + 1] = Empty /\ \A k \in 1..n : g[k] = e[k]
  BY <1>6, <1>8, <1>9, AppendProperties
<1>11. \A k \in 1..(n + 1) : k = n + 1 \/ k \in 1..n
  OBVIOUS
<1>12. \A k \in 1..(n + 1) : g[k] \in [Fields -> ValuesIn(n + 1)]
  BY <1>5, <1>8, <1>10, <1>11
<1>13. g \in Heaps
  BY <1>10, <1>12 DEF Heaps
<1> QED  BY <1>2, <1>4, <1>7, <1>9, <1>10, <1>13

(* What is read of a path is a value of uiState.                           *)
LEMMA ReadIn ==
  ASSUME NEW h \in Heaps, NEW path \in Seq(Fields)
  PROVE  getValueByPath(h, path) \in ValuesIn(Len(h))
<1>1. PICK n \in Nat : n = Len(path)
  BY LenProperties
<1>2. /\ Len(h) \in Nat \ {0} /\ \A k \in 1..Len(h) : h[k] \in [Fields -> ValuesIn(Len(h))]
  BY DEF Heaps
<1>3. PICK S : S = ValuesIn(Len(h))
  OBVIOUS
<1>4. Ref(1) \in S /\ Undefined \in S
  BY <1>2, <1>3, SimpleValues
<1>5. ASSUME NEW v \in S, NEW i \in 1..n
      PROVE  (IF v[1] = "object" THEN h[v[2]][path[i]] ELSE Undefined) \in S
  <2>1. path[i] \in Fields
    BY <1>1, ElementOfSeq
  <2>2. v[1] = "object" => v[2] \in 1..Len(h)
    BY <1>3 DEF ValuesIn
  <2> QED  BY <1>2, <1>3, <1>4, <2>1, <2>2
<1> DEFINE Loop(at) == [i \in 0..n |->
             IF i = 0 THEN Ref(1)
             ELSE IF at[i - 1][1] = "object" THEN h[at[i - 1][2]][path[i]] ELSE Undefined]
<1>6. \E at : at = Loop(at)
  <2>1. PICK step : step = [p \in S \X (1..n) |->
          IF p[1][1] = "object" THEN h[p[1][2]][path[p[2]]] ELSE Undefined]
    OBVIOUS
  <2>2. step \in [S \X (1..n) -> S]
    BY <1>5, <2>1
  <2>3. PICK g \in [0..n -> S] : g[0] = Ref(1) /\ \A i \in 1..n : g[i] = step[<<g[i - 1], i>>]
    <3> HIDE DEF Loop
    <3>1. n \in Nat /\ Ref(1) \in S
      BY <1>1, <1>4
    <3>2. \E g \in [0..n -> S] : Runs(g, n, Ref(1), step)
      BY <2>2, <3>1, Iterated
    <3> QED  BY <3>2 DEF Runs
  <2>4. ASSUME NEW i \in 1..n
        PROVE  g[i] = IF g[i - 1][1] = "object" THEN h[g[i - 1][2]][path[i]] ELSE Undefined
    <3>1. g[i - 1] \in S
      BY <2>3
    <3> QED  BY <2>1, <2>3, <3>1
  <2>5. \A i \in 0..n : i = 0 \/ i \in 1..n
    OBVIOUS
  <2>6. g = Loop(g)
    BY <2>3, <2>4, <2>5
  <2> QED  BY <2>6
<1>7. PICK at : at = (CHOOSE f : f = Loop(f))
  OBVIOUS
<1>8. at = Loop(at)
  BY <1>6, <1>7
<1>9. getValueByPath(h, path) = at[n]
  BY <1>1, <1>7, Zenon DEF getValueByPath
<1>10. at[0] = Ref(1) /\ \A i \in 1..n :
         at[i] = IF at[i - 1][1] = "object" THEN h[at[i - 1][2]][path[i]] ELSE Undefined
  <2>1. at[0] = Ref(1)
    <3>1. 0 \in 0..n
      BY <1>1
    <3> QED  BY <1>8, <3>1
  <2>2. ASSUME NEW i \in 1..n
        PROVE  at[i] = IF at[i - 1][1] = "object" THEN h[at[i - 1][2]][path[i]] ELSE Undefined
    <3>1. i \in 0..n /\ i # 0
      BY <1>1
    <3> QED  BY <1>8, <3>1
  <2> QED  BY <2>1, <2>2
<1>11. at[n] \in S
  <2>1. PICK P : P = {i \in 0..n : at[i] \in S}
    OBVIOUS
  <2>2. 0 \in P
    BY <1>4, <1>10, <2>1
  <2>3. ASSUME NEW i \in 1..n, i - 1 \in P PROVE i \in P
    <3>1. PICK v \in S : v = at[i - 1]
      BY <2>1, <2>3
    <3>2. at[i] \in S
      BY <1>5, <1>10, <2>3, <3>1
    <3> QED  BY <1>1, <2>1, <2>3, <3>2
  <2>4. \A i \in 0..n : i \in P
    BY <1>1, <2>2, <2>3, UpTo
  <2>5. n \in 0..n
    BY <1>1
  <2> QED  BY <2>1, <2>4, <2>5
<1> QED  BY <1>3, <1>9, <1>11

(* A value that is written leaves uiState with references that lead        *)
(* somewhere, and no object disappears.                                    *)
LEMMA DescendIn ==
  ASSUME NEW h \in Heaps, NEW at \in 1..Len(h), NEW f \in Fields
  PROVE  LET w == Descend([heap |-> h, at |-> at], f)
         IN w = [heap |-> w.heap, at |-> w.at] /\ w.heap \in Heaps /\ w.at \in 1..Len(w.heap)
            /\ Len(w.heap) \in Nat /\ Len(h) =< Len(w.heap)
<1>1. /\ Len(h) \in Nat \ {0} /\ \A k \in 1..Len(h) : h[k] \in [Fields -> ValuesIn(Len(h))]
  BY DEF Heaps
<1>2. PICK next : next = h[at][f]
  OBVIOUS
<1>3. next[1] = "object" => next[2] \in 1..Len(h)
  BY <1>1, <1>2 DEF ValuesIn
<1>4. PICK g : g = Append([h EXCEPT ![at][f] = Ref(Len(h) + 1)], Empty)
  OBVIOUS
<1>5. g \in Heaps /\ Len(g) = Len(h) + 1
  BY <1>4, GrowIn
<1>6. PICK w : w = Descend([heap |-> h, at |-> at], f)
  OBVIOUS
<1>7. w = IF next[1] = "object" THEN [heap |-> h, at |-> next[2]]
          ELSE [heap |-> g, at |-> Len(h) + 1]
  BY <1>2, <1>4, <1>6 DEF Descend
<1>8. CASE next[1] = "object"
  <2>1. w.heap = h /\ w.at = next[2] /\ w = [heap |-> w.heap, at |-> w.at]
    BY <1>7, <1>8
  <2> QED  BY <1>1, <1>3, <1>6, <1>8, <2>1
<1>9. CASE next[1] # "object"
  <2>1. w.heap = g /\ w.at = Len(h) + 1 /\ w = [heap |-> w.heap, at |-> w.at]
    BY <1>7, <1>9
  <2>2. Len(h) + 1 \in 1..(Len(h) + 1) /\ Len(h) + 1 \in Nat /\ Len(h) =< Len(h) + 1
    BY <1>1
  <2> QED  BY <1>5, <1>6, <2>1, <2>2
<1> QED  BY <1>8, <1>9

LEMMA WriteIn ==
  ASSUME NEW h \in Heaps, NEW path \in Seq(Fields), path # <<>>, NEW v \in ValuesIn(Len(h))
  PROVE  setValueByPath(h, path, v) \in Heaps
<1> DEFINE n == Len(path) - 1
           start == [heap |-> h, at |-> 1]
<1>1. n \in Nat /\ n = Len(path) - 1
  BY EmptySeq, LenProperties
<1>2. Len(h) \in Nat \ {0}
  BY DEF Heaps
<1>3. PICK S : S = {w \in [heap : Heaps, at : Nat] :
                      w.at \in 1..Len(w.heap) /\ Len(w.heap) \in Nat /\ Len(h) =< Len(w.heap)}
  OBVIOUS
<1>4. start = [heap |-> h, at |-> 1]
  OBVIOUS
<1> HIDE DEF n, start
<1>5. start \in S
  BY <1>2, <1>3, <1>4
<1>6. Len(path) = n + 1
  BY <1>1, LenProperties
<1>7. ASSUME NEW w \in S, NEW i \in 1..n PROVE Descend(w, path[i]) \in S
  <2>1. path[i] \in Fields
    <3>1. i \in 1..Len(path)
      BY <1>1, <1>6
    <3> QED  BY <3>1, ElementOfSeq
  <2>2. PICK g \in Heaps, k \in Nat : w = [heap |-> g, at |-> k] /\ k \in 1..Len(g)
                                      /\ Len(g) \in Nat /\ Len(h) =< Len(g)
    BY <1>3
  <2>3. PICK x : x = Descend(w, path[i])
    OBVIOUS
  <2>4. /\ x = [heap |-> x.heap, at |-> x.at] /\ x.heap \in Heaps /\ x.at \in 1..Len(x.heap)
        /\ Len(x.heap) \in Nat /\ Len(g) =< Len(x.heap)
    BY <2>1, <2>2, <2>3, DescendIn
  <2>5. Len(h) =< Len(x.heap) /\ x.at \in Nat
    BY <1>2, <2>2, <2>4
  <2>6. x \in [heap : Heaps, at : Nat]
    BY <2>4, <2>5
  <2> QED  BY <1>3, <2>3, <2>4, <2>5, <2>6
<1> DEFINE Loop(walk) == [i \in 0..n |-> IF i = 0 THEN start ELSE Descend(walk[i - 1], path[i])]
<1>8. \E walk : walk = Loop(walk)
  <2>1. PICK step : step = [p \in S \X (1..n) |-> Descend(p[1], path[p[2]])]
    OBVIOUS
  <2>2. step \in [S \X (1..n) -> S]
    BY <1>7, <2>1
  <2>3. PICK g \in [0..n -> S] : Runs(g, n, start, step)
    BY <1>1, <1>5, <2>2, Iterated
  <2>4. ASSUME NEW i \in 1..n PROVE g[i] = Descend(g[i - 1], path[i])
    <3>1. g[i - 1] \in S
      BY <1>1, <2>3
    <3> QED  BY <2>1, <2>3, <3>1 DEF Runs
  <2>5. \A i \in 0..n : i = 0 \/ i \in 1..n
    OBVIOUS
  <2>6. g[0] = start
    BY <2>3 DEF Runs
  <2>7. g = Loop(g)
    BY <2>3, <2>4, <2>5, <2>6
  <2> QED  BY <2>7
<1>9. PICK walk : walk = (CHOOSE f : f = Loop(f))
  OBVIOUS
<1>10. walk = Loop(walk)
  BY <1>8, <1>9
<1>11. setValueByPath(h, path, v) = [walk[n].heap EXCEPT ![walk[n].at][path[Len(path)]] = v]
  BY <1>9, Zenon DEF setValueByPath, n, start
<1>12. walk[n] \in S
  <2>1. PICK P : P = {i \in 0..n : walk[i] \in S}
    OBVIOUS
  <2>2. 0 \in 0..n /\ n \in 0..n
    BY <1>1
  <2>3. 0 \in P
    BY <1>5, <1>10, <2>1, <2>2
  <2>4. ASSUME NEW i \in 1..n, i - 1 \in P PROVE i \in P
    <3>1. i \in 0..n /\ i # 0
      OBVIOUS
    <3>2. walk[i] = Descend(walk[i - 1], path[i])
      BY <1>10, <3>1
    <3> QED  BY <1>7, <2>1, <2>4, <3>1, <3>2
  <2>5. \A i \in 0..n : i \in P
    BY <1>1, <2>3, <2>4, UpTo
  <2> QED  BY <2>1, <2>2, <2>5
<1>13. PICK g, k : g = walk[n].heap /\ k = walk[n].at
  OBVIOUS
<1>14. g \in Heaps /\ k \in 1..Len(g) /\ Len(g) \in Nat /\ Len(h) =< Len(g)
  BY <1>3, <1>12, <1>13
<1>15. v \in ValuesIn(Len(g)) /\ path[Len(path)] \in Fields
  <2>1. v \in ValuesIn(Len(g))
    BY <1>2, <1>14, SimpleValues
  <2>2. Len(path) \in 1..Len(path)
    BY <1>1, <1>6
  <2> QED  BY <2>1, <2>2, ElementOfSeq
<1>16. PICK f \in Fields : f = path[Len(path)]
  BY <1>15
<1>17. [g EXCEPT ![k][f] = v] \in Heaps
  BY <1>14, <1>15, PutIn
<1> QED  BY <1>11, <1>13, <1>16, <1>17

-----------------------------------------------------------------------------
(* Those that listen to uiStateUpdated, and what an event makes of them.   *)
Listeners(W) == [key : Readable, assign_to : Keys \cup {NoKey}, shows : W]
Listening(obs) == obs \in Seq(Listeners({obs[i].shows : i \in DOMAIN obs}))

LEMMA ListeningIf ==
  ASSUME NEW W, NEW obs \in Seq(Listeners(W))
  PROVE  Listening(obs)
<1>1. PICK V : V = {obs[i].shows : i \in DOMAIN obs}
  OBVIOUS
<1>2. Len(obs) \in Nat /\ DOMAIN obs = 1..Len(obs)
  BY LenProperties
<1>3. ASSUME NEW i \in 1..Len(obs) PROVE obs[i] \in Listeners(V)
  <2>1. obs[i] \in Listeners(W) /\ obs[i].shows \in V
    BY <1>1, <1>2, ElementOfSeq
  <2> QED  BY <2>1 DEF Listeners
<1>4. obs \in [1..Len(obs) -> Listeners(V)]
  <2>1. obs \in [1..Len(obs) -> Listeners(W)]
    BY SeqDef, LenProperties
  <2> QED  BY <1>3, <2>1
<1>5. obs \in Seq(Listeners(V))
  BY <1>2, <1>4, SeqDef
<1> QED  BY <1>1, <1>5 DEF Listening

LEMMA KeyRead ==
  ASSUME NEW h \in Heaps, NEW a, a.currentTheme \in Themes \cup {NoTheme}, NEW key \in Readable
  PROVE  Read(h, a, key) \in ValuesIn(Len(h))
<1>1. CASE key = ThemeKey
  <2>1. Len(h) \in Nat
    BY DEF Heaps
  <2> QED  BY <1>1, <2>1, SimpleValues DEF Read
<1>2. CASE key # ThemeKey
  <2>1. key \in Seq(Fields)
    BY <1>2, UiStateAssumption DEF Readable
  <2> QED  BY <1>2, <2>1, ReadIn DEF Read
<1> QED  BY <1>1, <1>2

LEMMA ListenedIn ==
  ASSUME NEW h \in Heaps, NEW a, a.currentTheme \in Themes \cup {NoTheme},
         NEW W, NEW o \in Listeners(W)
  PROVE  Listened(h, a, o) \in Heaps
<1>1. o.key \in Readable /\ o.assign_to \in Keys \cup {NoKey}
  BY DEF Listeners
<1>2. Read(h, a, o.key) \in ValuesIn(Len(h))
  BY <1>1, KeyRead
<1>3. CASE o.assign_to # NoKey
  <2>1. o.assign_to \in Seq(Fields) /\ o.assign_to # <<>>
    BY <1>1, <1>3, UiStateAssumption
  <2>2. setValueByPath(h, o.assign_to, Read(h, a, o.key)) \in Heaps
    BY <1>2, <2>1, WriteIn
  <2> QED  BY <1>3, <2>2 DEF Listened
<1> QED  BY <1>3 DEF Listened

LEMMA HeardIs ==
  ASSUME NEW h, NEW a, NEW W, NEW o \in Listeners(W)
  PROVE  LET v == Read(h, a, o.key)
             p == Heard(h, a, o)
         IN /\ p \in Listeners(W \cup {Updated(h, v)})
            /\ p.key = o.key /\ p.assign_to = o.assign_to
            /\ o.assign_to = NoKey /\ ~Cyclic(h, v) => p.shows = Updated(h, v)
<1>1. PICK v : v = Read(h, a, o.key)
  OBVIOUS
<1>2. PICK u : u = Updated(h, v)
  OBVIOUS
<1>3. PICK p : p = Heard(h, a, o)
  OBVIOUS
<1>4. p = IF o.assign_to # NoKey \/ Cyclic(h, v) THEN o ELSE [o EXCEPT !.shows = u]
  BY <1>1, <1>2, <1>3 DEF Heard
<1>5. o = [key |-> o.key, assign_to |-> o.assign_to, shows |-> o.shows]
      /\ o.key \in Readable /\ o.assign_to \in Keys \cup {NoKey} /\ o.shows \in W
  BY DEF Listeners
<1>6. CASE o.assign_to # NoKey \/ Cyclic(h, v)
  <2>1. p = o
    BY <1>4, <1>6
  <2>2. p \in Listeners(W \cup {u})
    BY <1>5, <2>1 DEF Listeners
  <2> QED  BY <1>1, <1>2, <1>3, <1>6, <2>1, <2>2
<1>7. CASE ~(o.assign_to # NoKey \/ Cyclic(h, v))
  <2>1. p = [key |-> o.key, assign_to |-> o.assign_to, shows |-> u]
    BY <1>4, <1>5, <1>7
  <2>2. p \in Listeners(W \cup {u}) /\ p.key = o.key /\ p.assign_to = o.assign_to /\ p.shows = u
    BY <1>5, <2>1 DEF Listeners
  <2> QED  BY <1>1, <1>2, <1>3, <2>2
<1> QED  BY <1>6, <1>7

(* The heap that each listener finds.                                      *)
LEMMA NotifiedIs ==
  ASSUME NEW h \in Heaps, NEW a, a.currentTheme \in Themes \cup {NoTheme}, Listening(observers)
  PROVE  \E run :
           /\ \A i \in 0..Len(observers) : run[i] \in Heaps
           /\ \A i \in 1..Len(observers) : run[i] = Listened(run[i - 1], a, observers[i])
           /\ Notified(h, a).heap = run[Len(observers)]
           /\ Notified(h, a).observers =
                [i \in 1..Len(observers) |-> Heard(run[i - 1], a, observers[i])]
<1> DEFINE n == Len(observers)
<1>1. n \in Nat
  BY LenProperties DEF Listening
<1>2. PICK W : observers \in Seq(Listeners(W))
  BY DEF Listening
<1>3. ASSUME NEW i \in 1..n, NEW g \in Heaps PROVE Listened(g, a, observers[i]) \in Heaps
  <2>1. observers[i] \in Listeners(W)
    BY <1>2, ElementOfSeq
  <2> QED  BY <2>1, ListenedIn
<1> HIDE DEF n
<1> DEFINE Loop(run) == [i \in 0..n |-> IF i = 0 THEN h ELSE Listened(run[i - 1], a, observers[i])]
<1>4. \E run : run = Loop(run)
  <2>1. PICK step : step = [p \in Heaps \X (1..n) |-> Listened(p[1], a, observers[p[2]])]
    OBVIOUS
  <2>2. step \in [Heaps \X (1..n) -> Heaps]
    BY <1>3, <2>1
  <2>3. PICK g \in [0..n -> Heaps] : Runs(g, n, h, step)
    BY <1>1, <2>2, Iterated
  <2>4. ASSUME NEW i \in 1..n PROVE g[i] = Listened(g[i - 1], a, observers[i])
    <3>1. g[i - 1] \in Heaps
      BY <1>1, <2>3
    <3> QED  BY <2>1, <2>3, <3>1 DEF Runs
  <2>5. \A i \in 0..n : i = 0 \/ i \in 1..n
    OBVIOUS
  <2>6. g[0] = h
    BY <2>3 DEF Runs
  <2>7. g = Loop(g)
    BY <2>3, <2>4, <2>5, <2>6
  <2> QED  BY <2>7
<1> DEFINE run == CHOOSE f : f = Loop(f)
<1>5. Notified(h, a) = [heap |-> run[n], observers |-> [i \in 1..n |-> Heard(run[i - 1], a, observers[i])]]
  BY Zenon DEF Notified, n
<1>6. run = Loop(run)
  BY <1>4
<1> HIDE DEF run
<1>8. 0 \in 0..n /\ \A i \in 1..n : i \in 0..n /\ i # 0
  BY <1>1
<1>9. run[0] = h /\ \A i \in 1..n : run[i] = Listened(run[i - 1], a, observers[i])
  <2>1. run[0] = h
    BY <1>6, <1>8
  <2>2. ASSUME NEW i \in 1..n PROVE run[i] = Listened(run[i - 1], a, observers[i])
    <3>1. i \in 0..n /\ i # 0
      BY <1>8
    <3> QED  BY <1>6, <3>1
  <2> QED  BY <2>1, <2>2
<1>10. \A i \in 0..n : run[i] \in Heaps
  <2>1. PICK P : P = {i \in 0..n : run[i] \in Heaps}
    OBVIOUS
  <2>2. 0 \in P
    BY <1>8, <1>9, <2>1
  <2>3. ASSUME NEW i \in 1..n, i - 1 \in P PROVE i \in P
    BY <1>3, <1>8, <1>9, <2>1, <2>3
  <2>4. \A i \in 0..n : i \in P
    BY <1>1, <2>2, <2>3, UpTo
  <2> QED  BY <2>1, <2>4
<1>11. /\ Notified(h, a).heap = run[n]
       /\ Notified(h, a).observers = [i \in 1..n |-> Heard(run[i - 1], a, observers[i])]
  BY <1>5
<1> QED  BY <1>9, <1>10, <1>11 DEF n

(* An event leaves uiState in order; and where no listener that follows    *)
(* writes, what a display was told is still what is at its path.           *)
Quieted(obs, i) == \A j \in i..Len(obs) : obs[j].assign_to = NoKey
Told(h, a, o) == LET v == Read(h, a, o.key) IN ~Cyclic(h, v) => o.shows = Updated(h, v)

LEMMA EventTold ==
  ASSUME NEW h \in Heaps, NEW a, a.currentTheme \in Themes \cup {NoTheme}, Listening(observers)
  PROVE  LET n == Notified(h, a) IN
         /\ n.heap \in Heaps /\ Listening(n.observers) /\ Len(n.observers) = Len(observers)
         /\ \A i \in 1..Len(observers) :
              /\ n.observers[i].key = observers[i].key
              /\ n.observers[i].assign_to = observers[i].assign_to
              /\ Quieted(observers, i) => Told(n.heap, a, n.observers[i])
<1>1. PICK L \in Nat : L = Len(observers)
  BY LenProperties DEF Listening
<1>2. PICK run :
        /\ \A i \in 0..L : run[i] \in Heaps
        /\ \A i \in 1..L : run[i] = Listened(run[i - 1], a, observers[i])
        /\ Notified(h, a).heap = run[L]
        /\ DOMAIN Notified(h, a).observers = 1..L
        /\ Notified(h, a).observers = [i \in 1..L |-> Notified(h, a).observers[i]]
        /\ \A i \in 1..L : Notified(h, a).observers[i] = Heard(run[i - 1], a, observers[i])
  <2>1. PICK run :
          /\ \A i \in 0..Len(observers) : run[i] \in Heaps
          /\ \A i \in 1..Len(observers) : run[i] = Listened(run[i - 1], a, observers[i])
          /\ Notified(h, a).heap = run[Len(observers)]
          /\ Notified(h, a).observers =
               [i \in 1..Len(observers) |-> Heard(run[i - 1], a, observers[i])]
    BY NotifiedIs
  <2> QED  BY <1>1, <2>1
<1>3. PICK obs : obs = Notified(h, a).observers
  OBVIOUS
<1>4. PICK W : observers \in Seq(Listeners(W))
  BY DEF Listening
<1>5. PICK V : V = W \cup {Updated(run[i - 1], Read(run[i - 1], a, observers[i].key)) : i \in 1..L}
  OBVIOUS
<1>6. \A i \in 1..L : obs[i] = Heard(run[i - 1], a, observers[i])
  BY <1>2, <1>3
<1>7. ASSUME NEW i \in 1..L
      PROVE  /\ obs[i] \in Listeners(V)
             /\ obs[i].key = observers[i].key /\ obs[i].assign_to = observers[i].assign_to
             /\ observers[i].assign_to = NoKey => Told(run[i - 1], a, obs[i])
  <2>1. PICK o \in Listeners(W) : o = observers[i]
    BY <1>1, <1>4, ElementOfSeq
  <2>2. PICK g, v : g = run[i - 1] /\ v = Read(run[i - 1], a, o.key)
    OBVIOUS
  <2>3. PICK p : p = obs[i]
    OBVIOUS
  <2>4. p = Heard(g, a, o)
    BY <1>6, <2>1, <2>2, <2>3
  <2>5. v = Read(g, a, o.key)
    BY <2>2
  <2>6. /\ p \in Listeners(W \cup {Updated(g, v)}) /\ p.key = o.key /\ p.assign_to = o.assign_to
        /\ o.assign_to = NoKey /\ ~Cyclic(g, v) => p.shows = Updated(g, v)
    BY <2>4, <2>5, HeardIs
  <2>7. Updated(g, v) \in V
    BY <1>5, <2>1, <2>2
  <2>8. p \in Listeners(V)
    BY <1>5, <2>6, <2>7 DEF Listeners
  <2>9. o.assign_to = NoKey => Told(g, a, p)
    BY <2>5, <2>6 DEF Told
  <2> QED  BY <2>1, <2>2, <2>3, <2>6, <2>8, <2>9
<1>8. obs \in Seq(Listeners(V)) /\ Len(obs) = L
  <2>1. obs \in [1..L -> Listeners(V)]
    BY <1>2, <1>3, <1>7
  <2>2. obs \in Seq(Listeners(V))
    BY <1>1, <2>1, SeqDef
  <2> QED  BY <1>1, <2>1, <2>2, LenProperties
<1>9. ASSUME NEW i \in 1..L, Quieted(observers, i) PROVE Told(run[L], a, obs[i])
  <2>1. PICK P : P = {m \in 0..(L - i) : run[i + m] = run[i - 1]}
    OBVIOUS
  <2>2. ASSUME NEW j \in i..L PROVE run[j] = run[j - 1]
    <3>1. j \in 1..L /\ observers[j].assign_to = NoKey
      BY <1>1, <1>9 DEF Quieted
    <3> QED  BY <1>2, <3>1 DEF Listened
  <2>3. 0 \in P
    <3>1. i \in i..L /\ 0 \in 0..(L - i) /\ i + 0 = i
      BY <1>1
    <3> QED  BY <2>1, <2>2, <3>1
  <2>4. ASSUME NEW m \in 1..(L - i), m - 1 \in P PROVE m \in P
    <3>1. i + m \in i..L /\ (i + m) - 1 = i + (m - 1) /\ m \in 0..(L - i)
      BY <1>1
    <3> QED  BY <2>1, <2>2, <2>4, <3>1
  <2>5. L - i \in Nat /\ L - i \in 0..(L - i) /\ i + (L - i) = L
    BY <1>1
  <2>6. L - i \in P
    BY <2>3, <2>4, <2>5, UpTo
  <2>7. run[L] = run[i - 1]
    BY <2>1, <2>5, <2>6
  <2>8. observers[i].assign_to = NoKey
    BY <1>1, <1>9 DEF Quieted
  <2> QED  BY <1>7, <2>7, <2>8
<1>10. Listening(obs)
  BY <1>8, ListeningIf
<1>11. run[L] \in Heaps
  BY <1>1, <1>2
<1> QED  BY <1>1, <1>2, <1>3, <1>7, <1>8, <1>9, <1>10, <1>11

(* Nobody listens before the page is initialized.                          *)
StateInv ==
  /\ heap \in Heaps /\ Listening(observers)
  /\ observers # <<>> => stage = "initialized"

LEMMA EventStep ==
  ASSUME Inv, StateInv, Inv', stage' = stage, NEW h \in Heaps, triggerStateUpdate(h, app')
  PROVE  StateInv' /\ DisplaysCurrent'
<1>1. PICK a : a = app'
  OBVIOUS
<1>2. a.currentTheme \in Themes \cup {NoTheme}
  BY <1>1 DEF Inv, UiThemeTypeOK
<1>3. PICK L \in Nat : L = Len(observers)
  BY LenProperties DEF StateInv, Listening
<1>4. heap' = Notified(h, a).heap /\ observers' = Notified(h, a).observers
  BY <1>1 DEF triggerStateUpdate
<1>5. /\ heap' \in Heaps /\ Listening(observers') /\ Len(observers') = L
      /\ \A i \in 1..L :
           /\ observers'[i].key = observers[i].key
           /\ observers'[i].assign_to = observers[i].assign_to
           /\ Quieted(observers, i) => Told(heap', a, observers'[i])
  BY <1>2, <1>3, <1>4, EventTold DEF StateInv
<1>6. observers' # <<>> => observers # <<>>
  BY <1>3, <1>5, EmptySeq, LenProperties DEF StateInv, Listening
<1>7. StateInv'
  BY <1>5, <1>6 DEF StateInv, Listening
<1>8. ASSUME NEW i \in DOMAIN observers', observers'[i].assign_to = NoKey,
             \A j \in (i + 1)..Len(observers') : observers'[j].assign_to = NoKey
      PROVE  Told(heap', a, observers'[i])
  <2>1. i \in 1..L
    BY <1>5, LenProperties DEF Listening
  <2>2. ASSUME NEW j \in i..L PROVE observers[j].assign_to = NoKey
    <3>1. j \in 1..L /\ (j = i \/ j \in (i + 1)..L)
      BY <1>3, <2>1
    <3> QED  BY <1>5, <1>8, <3>1
  <2> QED  BY <1>3, <1>5, <2>1, <2>2 DEF Quieted
<1>9. DisplaysCurrent'
  BY <1>1, <1>8 DEF DisplaysCurrent, Told
<1> QED  BY <1>7, <1>9

(* A get_state span adds a listener, after those that are there.           *)
LEMMA OneMoreListens ==
  ASSUME NEW obs, Listening(obs), NEW key \in Readable, NEW target \in Keys \cup {NoKey}, NEW shows
  PROVE  LET nx == Append(obs, Observer(key, target, shows)) IN
         /\ Listening(nx) /\ nx # <<>> /\ Len(nx) = Len(obs) + 1 /\ Len(obs) \in Nat
         /\ \A i \in 1..Len(obs) : nx[i] = obs[i]
         /\ nx[Len(obs) + 1] = Observer(key, target, shows)
<1>1. PICK W : obs \in Seq(Listeners(W))
  BY DEF Listening
<1>2. PICK V : V = W \cup {shows}
  OBVIOUS
<1>3. PICK o : o = Observer(key, target, shows)
  OBVIOUS
<1>4. o \in Listeners(V)
  BY <1>2, <1>3 DEF Observer, Listeners
<1>5. obs \in Seq(Listeners(V)) /\ Len(obs) \in Nat
  <2>1. Listeners(W) \subseteq Listeners(V)
    BY <1>2 DEF Listeners
  <2>2. obs \in [1..Len(obs) -> Listeners(W)] /\ Len(obs) \in Nat
    BY <1>1, SeqDef, LenProperties
  <2>3. obs \in [1..Len(obs) -> Listeners(V)]
    BY <2>1, <2>2
  <2> QED  BY <2>2, <2>3, SeqDef
<1>6. PICK nx : nx = Append(obs, o)
  OBVIOUS
<1>7. /\ nx \in Seq(Listeners(V)) /\ Len(nx) = Len(obs) + 1 /\ nx[Len(obs) + 1] = o
      /\ \A i \in 1..Len(obs) : nx[i] = obs[i]
  BY <1>4, <1>5, <1>6, AppendProperties
<1>8. nx # <<>>
  BY <1>5, <1>7
<1>9. Listening(nx)
  BY <1>7, ListeningIf
<1> QED  BY <1>3, <1>5, <1>6, <1>7, <1>8, <1>9

LEMMA GetStep ==
  ASSUME Inv, StateInv, DisplaysCurrent, NEW key \in Readable, handleGetState(key)
  PROVE  StateInv' /\ DisplaysCurrent'
<1>1. PICK v : v = Read(heap, app, key)
  OBVIOUS
<1>2. PICK shows : shows = Rendered(heap, v)
  OBVIOUS
<1>3. /\ stage = "initialized" /\ stage' = stage /\ heap' = heap /\ app' = app
      /\ observers' = Append(observers, Observer(key, NoKey, shows))
  BY <1>1, <1>2 DEF handleGetState, uiThemeVars, startVars
<1>4. /\ Listening(observers') /\ Len(observers') = Len(observers) + 1 /\ Len(observers) \in Nat
      /\ \A i \in 1..Len(observers) : observers'[i] = observers[i]
      /\ observers'[Len(observers) + 1] = Observer(key, NoKey, shows)
  BY <1>3, OneMoreListens DEF StateInv
<1>5. StateInv'
  BY <1>3, <1>4 DEF StateInv, Listening
<1>6. ASSUME NEW i \in DOMAIN observers', observers'[i].assign_to = NoKey,
             \A j \in (i + 1)..Len(observers') : observers'[j].assign_to = NoKey,
             ~Cyclic(heap', Read(heap', app', observers'[i].key))
      PROVE  observers'[i].shows \in {Rendered(heap', Read(heap', app', observers'[i].key)),
                                      Updated(heap', Read(heap', app', observers'[i].key))}
  <2>1. i \in 1..(Len(observers) + 1)
    BY <1>4, LenProperties DEF Listening
  <2>2. CASE i = Len(observers) + 1
    <3>1. observers'[i].key = key /\ observers'[i].shows = shows
      BY <1>4, <2>2 DEF Observer
    <3> QED  BY <1>1, <1>2, <1>3, <3>1
  <2>3. CASE i # Len(observers) + 1
    <3>1. i \in 1..Len(observers) /\ i \in DOMAIN observers
      BY <1>4, <2>1, <2>3, LenProperties DEF StateInv, Listening
    <3>2. ASSUME NEW j \in (i + 1)..Len(observers) PROVE observers[j].assign_to = NoKey
      <4>1. j \in 1..Len(observers) /\ j \in (i + 1)..Len(observers')
        BY <1>4, <3>1
      <4> QED  BY <1>4, <1>6, <4>1
    <3>3. observers'[i] = observers[i]
      BY <1>4, <3>1
    <3> QED  BY <1>3, <1>6, <3>1, <3>2, <3>3 DEF DisplaysCurrent
  <2> QED  BY <2>2, <2>3
<1>7. DisplaysCurrent'
  BY <1>6 DEF DisplaysCurrent
<1> QED  BY <1>5, <1>7

LEMMA AssignStep ==
  ASSUME Inv, StateInv, NEW key \in Readable, NEW target \in Keys, handleGetStateAssign(key, target)
  PROVE  StateInv' /\ DisplaysCurrent'
<1>1. PICK h : h = setValueByPath(heap, target, Read(heap, app, key))
  OBVIOUS
<1>2. PICK n : n = Notified(h, app)
  OBVIOUS
<1>3. /\ stage = "initialized" /\ stage' = stage
      /\ heap' = n.heap /\ observers' = Append(n.observers, Observer(key, target, Fallback))
  BY <1>1, <1>2 DEF handleGetStateAssign, uiThemeVars, startVars
<1>4. app.currentTheme \in Themes \cup {NoTheme}
  BY DEF Inv, UiThemeTypeOK
<1>5. h \in Heaps
  <2>1. Read(heap, app, key) \in ValuesIn(Len(heap))
    BY <1>4, KeyRead DEF StateInv
  <2>2. target \in Seq(Fields) /\ target # <<>>
    BY UiStateAssumption
  <2> QED  BY <1>1, <2>1, <2>2, WriteIn DEF StateInv
<1>6. n.heap \in Heaps /\ Listening(n.observers)
  BY <1>2, <1>4, <1>5, EventTold DEF StateInv
<1>7. PICK obs : obs = n.observers
  OBVIOUS
<1>8. /\ Listening(observers') /\ Len(observers') = Len(obs) + 1 /\ Len(obs) \in Nat
      /\ observers'[Len(obs) + 1] = Observer(key, target, Fallback)
  BY <1>3, <1>6, <1>7, OneMoreListens
<1>9. StateInv'
  BY <1>3, <1>6, <1>8 DEF StateInv, Listening
<1>10. observers'[Len(observers')].assign_to # NoKey
  BY <1>8, UiStateAssumption DEF Observer
<1>11. ASSUME NEW i \in DOMAIN observers', observers'[i].assign_to = NoKey,
              \A j \in (i + 1)..Len(observers') : observers'[j].assign_to = NoKey
       PROVE  FALSE
  <2>1. i \in 1..Len(observers') /\ Len(observers') \in Nat
    BY <1>8, LenProperties DEF Listening
  <2>2. i = Len(observers') \/ Len(observers') \in (i + 1)..Len(observers')
    BY <2>1
  <2> QED  BY <1>10, <1>11, <2>2
<1>12. DisplaysCurrent'
  BY <1>11 DEF DisplaysCurrent
<1> QED  BY <1>9, <1>12

LEMMA SetStep ==
  ASSUME Inv, StateInv, Inv', NEW k \in Keys, NEW v \in Values, handleSetState(k, v)
  PROVE  StateInv' /\ DisplaysCurrent'
<1>1. v \in ValuesIn(Len(heap))
  <2>1. CASE v \in {Text(t) : t \in Texts}
    <3>1. Len(heap) \in Nat
      BY DEF StateInv, Heaps
    <3> QED  BY <2>1, <3>1, SimpleValues
  <2>2. CASE v \in {getValueByPath(heap, p) : p \in Keys}
    BY <2>2, ReadIn, UiStateAssumption DEF StateInv
  <2> QED  BY <2>1, <2>2 DEF Values
<1>2. PICK h \in Heaps : h = setValueByPath(heap, k, v)
  <2>1. k \in Seq(Fields) /\ k # <<>>
    BY UiStateAssumption
  <2> QED  BY <1>1, <2>1, WriteIn DEF StateInv
<1>3. app' = app /\ stage' = stage
  BY DEF handleSetState, uiThemeVars, startVars
<1>4. triggerStateUpdate(h, app')
  <2>1. triggerStateUpdate(h, app)
    BY <1>2 DEF handleSetState
  <2> QED  BY <1>3, <2>1
<1> QED  BY <1>2, <1>3, <1>4, EventStep

(* Steps that tell nobody change what nobody displays.                     *)
LEMMA QuietStep ==
  ASSUME Inv, StateInv, DisplaysCurrent, UNCHANGED <<heap, observers>>, Quiet \/ UNCHANGED uiThemeVars
  PROVE  StateInv' /\ DisplaysCurrent'
<1>1. stage = "initialized" => stage' = "initialized" /\ app'.currentTheme = app.currentTheme
  BY DEF Quiet, RuntimeConfigRuns, PostgresConfigRuns, MainRuns, showErrorScreen, Network,
         handleSetTheme, loadTheme, createThemeFile, uiThemeVars, startVars, Inv, UiThemeTypeOK
<1>2. StateInv'
  BY <1>1 DEF StateInv
<1>3. CASE observers = <<>>
  <2>1. \A i \in 1..Len(observers') : FALSE
    BY <1>3
  <2>2. DisplaysCurrent'
    BY <2>1 DEF DisplaysCurrent
  <2> QED  BY <1>2, <2>2
<1>4. CASE observers # <<>>
  <2>1. \A key : Read(heap', app', key) = Read(heap, app, key)
    BY <1>1, <1>4 DEF StateInv, Read
  <2>2. DisplaysCurrent'
    BY <2>1 DEF DisplaysCurrent
  <2> QED  BY <1>2, <2>2
<1> QED  BY <1>3, <1>4

LEMMA UiStateStep ==
  ASSUME Inv, StateInv, DisplaysCurrent, Inv', [UiStateNext]_uiStateVars
  PROVE  StateInv' /\ DisplaysCurrent'
<1>1. CASE UNCHANGED uiStateVars
  BY <1>1, QuietStep DEF uiStateVars
<1>2. CASE Quiet /\ UNCHANGED <<heap, observers>>
  BY <1>2, QuietStep
<1>3. CASE ThemeApplied
  <2>1. stage' = stage /\ triggerStateUpdate(heap, app')
    BY <1>3 DEF ThemeApplied, ApplyTheme, startVars
  <2> QED  BY <2>1, EventStep DEF StateInv
<1> QED  BY <1>1, <1>2, <1>3, SetStep, GetStep, AssignStep DEF UiStateNext

LEMMA UiStateStart ==
  ASSUME UiStateInit
  PROVE  StateInv /\ DisplaysCurrent
<1>1. PICK o : o = [Empty EXCEPT !["user"] = Null, !["data"] = Ref(2)]
  OBVIOUS
<1>2. Null \in ValuesIn(2) /\ Ref(2) \in ValuesIn(2) /\ Undefined \in ValuesIn(2)
  BY SimpleValues
<1>3. Empty \in [Fields -> ValuesIn(2)] /\ o \in [Fields -> ValuesIn(2)]
  BY <1>1, <1>2 DEF Empty
<1>4. Empty \in [Fields -> Vals] /\ o \in [Fields -> Vals]
  BY <1>3 DEF ValuesIn
<1>5. PICK h : h = <<o, Empty>>
  OBVIOUS
<1>6. h \in Seq([Fields -> Vals]) /\ Len(h) = 2 /\ h[1] = o /\ h[2] = Empty
  BY <1>4, <1>5
<1>7. h \in Heaps
  <2>1. \A i \in 1..2 : h[i] \in [Fields -> ValuesIn(2)]
    <3>1. \A i \in 1..2 : i = 1 \/ i = 2
      OBVIOUS
    <3> QED  BY <1>3, <1>6, <3>1
  <2>2. \A i \in 1..Len(h) : h[i] \in [Fields -> ValuesIn(Len(h))]
    BY <1>6, <2>1
  <2>3. Len(h) \in Nat \ {0}
    BY <1>6
  <2> QED  BY <1>6, <2>2, <2>3 DEF Heaps
<1>8. heap = h /\ observers = <<>>
  BY <1>1, <1>5 DEF UiStateInit
<1>9. Listening(observers)
  BY <1>8 DEF Listening
<1> QED  BY <1>7, <1>8, <1>9 DEF StateInv, DisplaysCurrent

(***************************************************************************)
(* Whatever spans do to uiState, the start and the themes go their way: a  *)
(* page with spans implements UiTheme, and all that holds of it holds.     *)
(***************************************************************************)
THEOREM PageThemes == UiStateSpec => UiThemeSpec
<1>1. UiStateInit => UiThemeInit
  BY DEF UiStateInit
<1>2. [UiStateNext]_uiStateVars => [UiThemeNext]_uiThemeVars
  BY DEF UiStateNext, UiThemeNext, ThemeApplied, handleSetState, handleGetState,
         handleGetStateAssign, uiStateVars
<1> QED  BY <1>1, <1>2, PTL DEF UiStateSpec, UiThemeSpec

LEMMA UiStateCorrect == UiStateSpec => [](Inv /\ StateInv /\ DisplaysCurrent)
<1>1. UiStateInit => StateInv /\ DisplaysCurrent
  BY UiStateStart
<1>2. Inv /\ Inv' /\ StateInv /\ DisplaysCurrent /\ [UiStateNext]_uiStateVars
        => StateInv' /\ DisplaysCurrent'
  BY UiStateStep
<1> QED  BY <1>1, <1>2, PageThemes, InvCorrect, PTL DEF UiStateSpec

(***************************************************************************)
(* Types: whatever paths are written and copied, and in whichever order,   *)
(* every reference in uiState leads to an object that is there.            *)
(***************************************************************************)
THEOREM UiStateTypeCorrect == UiStateSpec => []UiStateTypeOK
<1>1. Inv /\ StateInv => UiStateTypeOK
  <2> SUFFICES ASSUME Inv, StateInv PROVE UiStateTypeOK
    OBVIOUS
  <2>1. /\ heap \in Seq([Fields -> Vals]) /\ Len(heap) \in Nat
        /\ \A i \in 1..Len(heap) : heap[i] \in [Fields -> ValuesIn(Len(heap))]
    BY DEF StateInv, Heaps
  <2>2. DOMAIN heap = 1..Len(heap)
    BY <2>1, LenProperties
  <2>3. ASSUME NEW i \in DOMAIN heap, NEW f \in Fields, heap[i][f][1] = "object"
        PROVE  heap[i][f][2] \in DOMAIN heap
    <3>1. heap[i][f] \in ValuesIn(Len(heap))
      BY <2>1, <2>2
    <3> QED  BY <2>2, <2>3, <3>1 DEF ValuesIn
  <2>4. ASSUME NEW i \in DOMAIN observers
        PROVE  observers[i].key \in Readable /\ observers[i].assign_to \in Keys \cup {NoKey}
    <3>1. PICK W : observers \in Seq(Listeners(W))
      BY DEF StateInv, Listening
    <3>2. observers[i] \in Listeners(W)
      BY <3>1, ElementOfSeq, LenProperties
    <3> QED  BY <3>2 DEF Listeners
  <2> QED  BY <2>3, <2>4 DEF UiStateTypeOK, Inv
<1> QED  BY <1>1, UiStateCorrect, PTL

(***************************************************************************)
(* A display shows what is at its path, whichever way it was written, for  *)
(* any paths, any number of listeners that copy from one to another, and   *)
(* any graph of objects that they make of uiState.                         *)
(***************************************************************************)
THEOREM DisplaysAreCurrent == UiStateSpec => []DisplaysCurrent
BY UiStateCorrect, PTL

-----------------------------------------------------------------------------
(* The loader.                                                             *)

USE DEF Versions, Times, Entries, Nothing

(* The effective TTL is positive: `|| 3600' does away with 0. *)
LEMMA TTLPositive == TTL \in Nat \ {0}
  BY UiLoaderAssumption DEF TTL

(* The variables keep their types. *)
LEMMA TypeStep == TypeOK /\ BodyIsThere /\ [Next]_vars => TypeOK'
<1> SUFFICES ASSUME TypeOK, BodyIsThere, [Next]_vars PROVE TypeOK'
  OBVIOUS
<1> USE UiLoaderAssumption DEF TypeOK, BodyIsThere
<1>1. CASE Tick
  BY <1>1 DEF Tick, serverVars, callVars
<1>2. ASSUME NEW f \in Files, Edit(f) PROVE TypeOK'
  BY <1>2 DEF Edit, callVars
<1>3. ASSUME NEW c \in Calls, Serve(c) PROVE TypeOK'
  BY <1>3 DEF Serve, serverVars
<1>4. ASSUME NEW c \in Calls, Hit(c) PROVE TypeOK'
  BY <1>4 DEF Hit, Settle, Valid, serverVars
<1>5. ASSUME NEW c \in Calls, Miss(c) PROVE TypeOK'
  BY <1>5 DEF Miss, serverVars
<1>6. ASSUME NEW c \in Calls, NetworkError(c) PROVE TypeOK'
  BY <1>6 DEF NetworkError, Settle, serverVars
<1>7. ASSUME NEW c \in Calls, Receive(c) PROVE TypeOK'
  BY <1>7 DEF Receive, Settle, serverVars
<1>8. ASSUME NEW c \in Calls, Parse(c) PROVE TypeOK'
  BY <1>8 DEF Parse, Settle, Put, serverVars
<1>9. CASE UNCHANGED vars
  BY <1>9 DEF vars, serverVars, callVars
<1> QED
  BY <1>1, <1>2, <1>3, <1>4, <1>5, <1>6, <1>7, <1>8, <1>9 DEF Next, Call

(* A body is only awaited after a response that was ok. *)
LEMMA BodyStep == TypeOK /\ BodyIsThere /\ [Next]_vars => BodyIsThere'
<1> SUFFICES ASSUME TypeOK, BodyIsThere, [Next]_vars PROVE BodyIsThere'
  OBVIOUS
<1> USE UiLoaderAssumption DEF TypeOK, BodyIsThere
<1>1. CASE Tick
  BY <1>1 DEF Tick, serverVars, callVars
<1>2. ASSUME NEW f \in Files, Edit(f) PROVE BodyIsThere'
  BY <1>2 DEF Edit, callVars
<1>3. ASSUME NEW c \in Calls, Serve(c) PROVE BodyIsThere'
  BY <1>3 DEF Serve, serverVars
<1>4. ASSUME NEW c \in Calls, Hit(c) PROVE BodyIsThere'
  BY <1>4 DEF Hit, Settle, Valid, serverVars
<1>5. ASSUME NEW c \in Calls, Miss(c) PROVE BodyIsThere'
  BY <1>5 DEF Miss, serverVars
<1>6. ASSUME NEW c \in Calls, NetworkError(c) PROVE BodyIsThere'
  BY <1>6 DEF NetworkError, Settle, serverVars
<1>7. ASSUME NEW c \in Calls, Receive(c) PROVE BodyIsThere'
  BY <1>7 DEF Receive, Settle, serverVars
<1>8. ASSUME NEW c \in Calls, Parse(c) PROVE BodyIsThere'
  BY <1>8 DEF Parse, Settle, Put, serverVars
<1>9. CASE UNCHANGED vars
  BY <1>9 DEF vars, serverVars, callVars
<1> QED
  BY <1>1, <1>2, <1>3, <1>4, <1>5, <1>6, <1>7, <1>8, <1>9 DEF Next, Call

(* A response under way is current, or was served before the last edit. *)
LEMMA ResponseStep == TypeOK /\ ResponseAge /\ [Next]_vars => ResponseAge'
<1> SUFFICES ASSUME TypeOK, ResponseAge, [Next]_vars PROVE ResponseAge'
  OBVIOUS
<1> USE UiLoaderAssumption DEF TypeOK, ResponseAge
<1>1. CASE Tick
  BY <1>1 DEF Tick, serverVars, callVars
<1>2. ASSUME NEW f \in Files, Edit(f) PROVE ResponseAge'
  BY <1>2 DEF Edit, callVars
<1>3. ASSUME NEW c \in Calls, Serve(c) PROVE ResponseAge'
  BY <1>3 DEF Serve, serverVars
<1>4. ASSUME NEW c \in Calls, Hit(c) PROVE ResponseAge'
  BY <1>4 DEF Hit, Settle, Valid, serverVars
<1>5. ASSUME NEW c \in Calls, Miss(c) PROVE ResponseAge'
  BY <1>5 DEF Miss, serverVars
<1>6. ASSUME NEW c \in Calls, NetworkError(c) PROVE ResponseAge'
  BY <1>6 DEF NetworkError, Settle, serverVars
<1>7. ASSUME NEW c \in Calls, Receive(c) PROVE ResponseAge'
  BY <1>7 DEF Receive, Settle, serverVars
<1>8. ASSUME NEW c \in Calls, Parse(c) PROVE ResponseAge'
  BY <1>8 DEF Parse, Settle, Put, serverVars
<1>9. CASE UNCHANGED vars
  BY <1>9 DEF vars, serverVars, callVars
<1> QED
  BY <1>1, <1>2, <1>3, <1>4, <1>5, <1>6, <1>7, <1>8, <1>9 DEF Next, Call

(* An entry is current, or was stamped at most Transit after the last edit. *)
LEMMA EntryStep == TypeOK /\ BodyIsThere /\ ResponseAge /\ EntryAge /\ [Next]_vars => EntryAge'
<1> SUFFICES ASSUME TypeOK, BodyIsThere, ResponseAge, EntryAge, [Next]_vars PROVE EntryAge'
  OBVIOUS
<1> USE UiLoaderAssumption DEF TypeOK, BodyIsThere, ResponseAge, EntryAge
<1>1. CASE Tick
  BY <1>1 DEF Tick, serverVars, callVars
<1>2. ASSUME NEW f \in Files, Edit(f) PROVE EntryAge'
  BY <1>2 DEF Edit, callVars
<1>3. ASSUME NEW c \in Calls, Serve(c) PROVE EntryAge'
  BY <1>3 DEF Serve, serverVars
<1>4. ASSUME NEW c \in Calls, Hit(c) PROVE EntryAge'
  BY <1>4 DEF Hit, Settle, Valid, serverVars
<1>5. ASSUME NEW c \in Calls, Miss(c) PROVE EntryAge'
  BY <1>5 DEF Miss, serverVars
<1>6. ASSUME NEW c \in Calls, NetworkError(c) PROVE EntryAge'
  BY <1>6 DEF NetworkError, Settle, serverVars
<1>7. ASSUME NEW c \in Calls, Receive(c) PROVE EntryAge'
  BY <1>7 DEF Receive, Settle, serverVars
<1>8. ASSUME NEW c \in Calls, Parse(c) PROVE EntryAge'
  BY <1>8 DEF Parse, Settle, Put, serverVars
<1>9. CASE UNCHANGED vars
  BY <1>9 DEF vars, serverVars, callVars
<1> QED
  BY <1>1, <1>2, <1>3, <1>4, <1>5, <1>6, <1>7, <1>8, <1>9 DEF Next, Call

(* Broken versions stay out of the cache and of what calls return. *)
LEMMA ParsedStep == TypeOK /\ BodyIsThere /\ OnlyParsed /\ [Next]_vars => OnlyParsed'
<1> SUFFICES ASSUME TypeOK, BodyIsThere, OnlyParsed, [Next]_vars PROVE OnlyParsed'
  OBVIOUS
<1> USE UiLoaderAssumption DEF TypeOK, BodyIsThere, OnlyParsed
<1>1. CASE Tick
  BY <1>1 DEF Tick, serverVars, callVars
<1>2. ASSUME NEW f \in Files, Edit(f) PROVE OnlyParsed'
  BY <1>2 DEF Edit, callVars
<1>3. ASSUME NEW c \in Calls, Serve(c) PROVE OnlyParsed'
  BY <1>3 DEF Serve, serverVars
<1>4. ASSUME NEW c \in Calls, Hit(c) PROVE OnlyParsed'
  BY <1>4 DEF Hit, Settle, Valid, serverVars
<1>5. ASSUME NEW c \in Calls, Miss(c) PROVE OnlyParsed'
  BY <1>5 DEF Miss, serverVars
<1>6. ASSUME NEW c \in Calls, NetworkError(c) PROVE OnlyParsed'
  BY <1>6 DEF NetworkError, Settle, serverVars
<1>7. ASSUME NEW c \in Calls, Receive(c) PROVE OnlyParsed'
  BY <1>7 DEF Receive, Settle, serverVars
<1>8. ASSUME NEW c \in Calls, Parse(c) PROVE OnlyParsed'
  BY <1>8 DEF Parse, Settle, Put, serverVars
<1>9. CASE UNCHANGED vars
  BY <1>9 DEF vars, serverVars, callVars
<1> QED
  BY <1>1, <1>2, <1>3, <1>4, <1>5, <1>6, <1>7, <1>8, <1>9 DEF Next, Call

(* IInv, the conjunction of the above, is an invariant.                    *)
THEOREM Invariance == Spec => []IInv
<1>1. Init => IInv
  <2> SUFFICES ASSUME Init PROVE IInv
    OBVIOUS
  <2> USE UiLoaderAssumption DEF Init
  <2>1. TypeOK
    BY DEF TypeOK
  <2>2. ResponseAge /\ EntryAge /\ BodyIsThere
    BY DEF ResponseAge, EntryAge, BodyIsThere
  <2>3. OnlyParsed
    BY DEF OnlyParsed
  <2> QED
    BY <2>1, <2>2, <2>3 DEF IInv
<1>2. IInv /\ [Next]_vars => IInv'
  BY TypeStep, BodyStep, ResponseStep, EntryStep, ParsedStep DEF IInv
<1> QED
  BY <1>1, <1>2, PTL DEF Spec

(* Type correctness of the loader.                                         *)
THEOREM TypeCorrect == Spec => []TypeOK
<1>1. IInv => TypeOK
  BY DEF IInv
<1> QED
  BY <1>1, Invariance, PTL

(* What does not parse is neither cached nor returned.                     *)
THEOREM BrokenContained == Spec => []OnlyParsed
<1>1. IInv => OnlyParsed
  BY DEF IInv
<1> QED
  BY <1>1, Invariance, PTL

(* An edit as old as TTL + Transit is seen by every call that returns.     *)
THEOREM BoundedStaleness == Spec => EditsSeen
<1> DEFINE Seen(c) ==
      pc[c] # "returned" /\ pc'[c] = "returned" =>
        \/ result'[c] = version[file[c]]
        \/ clock - since[file[c]] < TTL + Transit
<1>1. IInv /\ [Next]_vars => \A c \in Calls : Seen(c)
  <2> SUFFICES ASSUME IInv, [Next]_vars, NEW c \in Calls,
                      pc[c] # "returned", pc'[c] = "returned"
               PROVE  \/ result'[c] = version[file[c]]
                      \/ clock - since[file[c]] < TTL + Transit
    OBVIOUS
  <2> USE UiLoaderAssumption, TTLPositive DEF TypeOK
  <2>1. TypeOK /\ ResponseAge /\ EntryAge /\ BodyIsThere
    BY DEF IInv
  <2>2. Hit(c) \/ Parse(c)
    <3>1. ASSUME NEW d \in Calls, Call(d) PROVE Hit(c) \/ Parse(c)
      BY <3>1, <2>1 DEF Call, Hit, Miss, NetworkError, Receive, Parse, Settle
    <3>2. ASSUME NEW d \in Calls, Serve(d) PROVE FALSE
      BY <3>2, <2>1 DEF Serve
    <3> QED
      BY <3>1, <3>2, <2>1 DEF Next, Tick, Edit, callVars, vars
  <2>3. CASE Hit(c)
    BY <2>1, <2>3 DEF Hit, Settle, Valid, EntryAge
  <2>4. CASE Parse(c)
    BY <2>1, <2>4 DEF Parse, Settle, ResponseAge, BodyIsThere
  <2> QED
    BY <2>2, <2>3, <2>4
<1> QED
  BY <1>1, Invariance, PTL DEF Spec, EditsSeen
=============================================================================
