---------------------------- MODULE MCApiAffair ----------------------------
(* Small instances of ApiAffair for TLC. *)
EXTENDS ApiAffair, TLC
CONSTANTS a1, t1, t2, comment, key1, key2, key_secret, system_status, elsewhere

(* "# Formato: tenant_id:key_secret" and two entries. *)
SmallLines == {"format", "entry1", "entry2"}
SmallFirstPart == "format" :> comment @@ "entry1" :> t1 @@ "entry2" :> t2
SmallEndings == "format" :> {key_secret} @@ "entry1" :> {key1} @@ "entry2" :> {key2}

(* A key is revoked, a key is added.                                       *)
ChangingKeys == {{"format", "entry1"}, {"format", "entry2"}}
=============================================================================
