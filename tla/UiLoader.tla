------------------------------ MODULE UiLoader ------------------------------
(***************************************************************************)
(* loadLogLineFile of ui_runtime/main.js and its cache, logLineCache.  The *)
(* calls run concurrently on one thread: each runs up to an await, and     *)
(* others run while it waits.  Files are edited on the server meanwhile.   *)
(*                                                                         *)
(* The contents of a file are a version number, and Broken holds the       *)
(* versions that are not JSON.  One tick of the clock is a second.         *)
(***************************************************************************)
EXTENDS Integers

CONSTANTS
  Calls,          \* the calls ever made
  Files,
  Broken,         \* versions JSON.parse rejects
  ConfiguredTTL,  \* DISPATCHER.HANDLER_CACHE_TTL
  DefaultTTL,     \* what `|| 3600' puts in the place of 0
  Transit,        \* how old a response may be when its body has arrived
  MaxVersion,     \* bound: edits of each file
  MaxClock        \* bound: how long the page is watched

Versions == 1..MaxVersion
Times == 1..MaxClock

ASSUME UiLoaderAssumption ==
  /\ Broken \subseteq Versions
  /\ ConfiguredTTL \in Nat
  /\ DefaultTTL \in Nat \ {0}
  /\ Transit \in Nat
  /\ MaxVersion \in Nat \ {0} /\ MaxClock \in Nat \ {0}

VARIABLES
  clock,              \* Date.now()
  version, since,     \* each file on the server, and when it was put there
  cache,              \* logLineCache
  pc, file, useCache, \* each call, and its arguments
  response, servedAt, \* what the server read for it, and when
  result              \* what it returned

serverVars == <<version, since>>
callVars == <<pc, file, useCache, response, servedAt, result>>
vars == <<clock, serverVars, cache, callVars>>

Nothing == [data |-> 0, timestamp |-> 0]      \* no entry
Entries == [data : Versions, timestamp : Times]

TTL == IF ConfiguredTTL = 0 THEN DefaultTTL ELSE ConfiguredTTL

(* An entry without a timestamp would be valid for ever.                   *)
Valid(f) ==
  /\ cache[f] # Nothing
  /\ cache[f].timestamp = 0 \/ clock - cache[f].timestamp < TTL

InFlight(c) == pc[c] \in {"fetching", "responding", "reading"}

Init ==
  /\ clock = 1
  /\ version = [f \in Files |-> 1] /\ since = [f \in Files |-> 1]
  /\ cache = [f \in Files |-> Nothing]
  /\ pc = [c \in Calls |-> "idle"]
  /\ file \in [Calls -> Files] /\ useCache \in [Calls -> BOOLEAN]
  /\ response = [c \in Calls |-> 0]
  /\ servedAt = [c \in Calls |-> 0]
  /\ result = [c \in Calls |-> 0]

-----------------------------------------------------------------------------
(* The world around the page.                                              *)

Edit(f) ==
  /\ version[f] < MaxVersion
  /\ version' = [version EXCEPT ![f] = @ + 1]
  /\ since' = [since EXCEPT ![f] = clock]
  /\ UNCHANGED <<clock, cache, callVars>>

(* Transit bounds the age of the responses under way.                      *)
Tick ==
  /\ clock < MaxClock
  /\ \A c \in Calls :
       pc[c] \in {"responding", "reading"} => clock - servedAt[c] < Transit
  /\ clock' = clock + 1
  /\ UNCHANGED <<serverVars, cache, callVars>>

(* The server reads the file, or answers with an error status: response 0. *)
Serve(c) ==
  /\ pc[c] = "fetching"
  /\ pc' = [pc EXCEPT ![c] = "responding"]
  /\ response' \in {[response EXCEPT ![c] = v] : v \in {0, version[file[c]]}}
  /\ servedAt' = [servedAt EXCEPT ![c] = clock]
  /\ UNCHANGED <<clock, serverVars, cache, file, useCache, result>>

-----------------------------------------------------------------------------
(* loadLogLineFile.                                                        *)

Settle(c, outcome, v) ==
  /\ pc' = [pc EXCEPT ![c] = outcome]
  /\ result' = [result EXCEPT ![c] = v]
  /\ UNCHANGED <<clock, serverVars, file, useCache, response, servedAt>>

(* An entry that forgets when it was loaded. *)
PutUnstamped(f, v) == cache' = [cache EXCEPT ![f] = [data |-> v, timestamp |-> 0]]

Put(f, v) == cache' = [cache EXCEPT ![f] = [data |-> v, timestamp |-> clock]]

(* A hit that renews the entry it returns. *)
HitRenews(c) ==
  /\ pc[c] = "idle" /\ useCache[c] /\ Valid(file[c])
  /\ Settle(c, "returned", cache[file[c]].data)
  /\ Put(file[c], cache[file[c]].data)

Hit(c) ==
  /\ pc[c] = "idle" /\ useCache[c] /\ Valid(file[c])
  /\ Settle(c, "returned", cache[file[c]].data)
  /\ UNCHANGED cache

Miss(c) ==
  /\ pc[c] = "idle" /\ ~(useCache[c] /\ Valid(file[c]))
  /\ pc' = [pc EXCEPT ![c] = "fetching"]
  /\ UNCHANGED <<clock, serverVars, cache, file, useCache, response,
                 servedAt, result>>

(* fetch rejects, or the connection breaks while the body is read.         *)
NetworkError(c) ==
  /\ InFlight(c)
  /\ Settle(c, "failed", 0)
  /\ UNCHANGED cache

(* fetch resolves: !response.ok throws, otherwise the body is awaited.     *)
Receive(c) ==
  /\ pc[c] = "responding"
  /\ \/ /\ response[c] = 0
        /\ Settle(c, "failed", 0)
     \/ /\ response[c] # 0
        /\ pc' = [pc EXCEPT ![c] = "reading"]
        /\ UNCHANGED <<clock, serverVars, file, useCache, response,
                       servedAt, result>>
  /\ UNCHANGED cache

(* The entry is written before the body is parsed. *)
ParseAfterPut(c) ==
  /\ pc[c] = "reading"
  /\ IF useCache[c] THEN Put(file[c], response[c]) ELSE UNCHANGED cache
  /\ IF response[c] \in Broken
     THEN Settle(c, "failed", 0)
     ELSE Settle(c, "returned", response[c])

(* The body is there: parse it, cache it with the time of its arrival.     *)
Parse(c) ==
  /\ pc[c] = "reading"
  /\ \/ /\ response[c] \in Broken
        /\ Settle(c, "failed", 0)
        /\ UNCHANGED cache
     \/ /\ response[c] \notin Broken
        /\ Settle(c, "returned", response[c])
        /\ IF useCache[c] THEN Put(file[c], response[c]) ELSE UNCHANGED cache

Call(c) == Hit(c) \/ Miss(c) \/ NetworkError(c) \/ Receive(c) \/ Parse(c)

Next ==
  \/ Tick
  \/ \E f \in Files : Edit(f)
  \/ \E c \in Calls : Serve(c) \/ Call(c)

Spec == Init /\ [][Next]_vars

-----------------------------------------------------------------------------
TypeOK ==
  /\ clock \in Times
  /\ version \in [Files -> Versions] /\ since \in [Files -> Times]
  /\ cache \in [Files -> Entries \cup {Nothing}]
  /\ pc \in [Calls -> {"idle", "fetching", "responding", "reading",
                       "returned", "failed"}]
  /\ file \in [Calls -> Files] /\ useCache \in [Calls -> BOOLEAN]
  /\ response \in [Calls -> Versions \cup {0}]
  /\ servedAt \in [Calls -> Times \cup {0}]
  /\ result \in [Calls -> Versions \cup {0}]

(* An edit is seen: once a version has been on the server for as long as   *)
(* the TTL and a response's transit together, every call that returns      *)
(* returns it, whatever the order in which responses overtook one another  *)
(* on their way to the cache.                                              *)
EditsSeen ==
  [][\A c \in Calls :
       pc[c] # "returned" /\ pc'[c] = "returned" =>
         \/ result'[c] = version[file[c]]
         \/ clock - since[file[c]] < TTL + Transit]_vars

(* What does not parse reaches neither the cache nor a caller, also when   *)
(* it is fetched while a good version is cached.                           *)
OnlyParsed ==
  /\ \A f \in Files : cache[f].data \notin Broken
  /\ \A c \in Calls : pc[c] = "returned" => result[c] \notin Broken

-----------------------------------------------------------------------------
(* How old the data of a pending response or of the cache can be: what     *)
(* EditsSeen rests on.                                                     *)
ResponseAge ==
  \A c \in Calls : pc[c] \in {"responding", "reading"} /\ response[c] # 0 =>
    /\ servedAt[c] =< clock /\ clock - servedAt[c] =< Transit
    /\ \/ response[c] = version[file[c]]
       \/ servedAt[c] =< since[file[c]]

EntryAge ==
  \A f \in Files : cache[f] # Nothing =>
    /\ cache[f].timestamp =< clock
    /\ \/ cache[f].data = version[f]
       \/ cache[f].timestamp - since[f] =< Transit

BodyIsThere == \A c \in Calls : pc[c] = "reading" => response[c] # 0

IInv == TypeOK /\ ResponseAge /\ EntryAge /\ BodyIsThere /\ OnlyParsed
=============================================================================
