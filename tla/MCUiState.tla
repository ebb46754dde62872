----------------------------- MODULE MCUiState -----------------------------
(* A small uiState and two themes for UiState.                             *)
EXTENDS UiState, TLC

SmallFields == {"user", "data", "name"}
SmallKeys == {<<"user">>, <<"user", "name">>, <<"data">>}
SmallThemeKey == <<"app", "currentTheme">>
SmallTexts == {"a"}

Plain == [env |-> "", db |-> "", vm |-> ""]
AllUrls == [env : {"", "staging", "production", "other"},
            db : {"", "none", "postgres", "supabase", "firebase", "other"}, vm : {"", "true", "0"}]

SmallThemes == {"default", "dark"}
SmallTokens == {"light", "dark", "plain"}
SmallLists == SmallTokens \cup {"valueless"}
SmallNames == {"default", "dark", "undefined"}
SmallNameOf ==
  "light" :> "default" @@ "dark" :> "dark" @@ "plain" :> NoName @@ "valueless" :> "undefined"
SmallHolds == "default" :> {"light"} @@ "dark" :> {"dark", "plain", Unusable}

SmallSwitches == {"s1", "s2"}

(* The query and the network matter for the start only, and neither        *)
(* depends on what spans do: what follows is explored for one of each.     *)
(* Spans run beside a dark theme that has been loaded and may be applied   *)
(* at any time; two switches, failures and createThemeFile, which neither  *)
(* read nor write what spans do, are explored without.                     *)
NoSpans == observers = <<>> /\ heap = <<[Empty EXCEPT !["user"] = Null, !["data"] = Ref(2)], Empty>>
DarkLoaded ==
  /\ switches["s2"].phase = "idle" /\ switches["s1"].tokens = "dark"
  /\ switches["s1"].phase = "loaded" => app.currentTheme = "default"
  /\ themeCache = "dark" :> "dark"
MCNext ==
  /\ UiStateNext
  /\ stage = "initialized" => url = Plain /\ network /\ changes = MaxChanges
  /\ (NoSpans \/ DarkLoaded)'
MCSpec == UiStateInit /\ [][MCNext]_uiStateVars
=============================================================================
