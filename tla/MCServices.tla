------------------------------ MODULE MCServices ------------------------------
(***************************************************************************)
(* The services behind the HTTP API and the reader they use share no state *)
(* that these modules follow, so one run checks them side by side: part is *)
(* the one that moves, the others rest in one of their initial states.     *)
(***************************************************************************)
EXTENDS RestClient, CandleHistory, SettingsStore, FillHistory, AddressCache

VARIABLE part

vars == <<part, restVars, historyVars, settingsVars, fillVars, cacheVars>>

MCInit ==
    /\ RestInit /\ HistoryInit /\ SettingsInit /\ FillInit /\ CacheInit
    /\ part \in {"rest", "candles", "settings", "fills", "cache"}
    /\ part # "settings" => override = NoOverride
    /\ part # "fills" => history = None /\ walk.start = 0 /\ client.limit = FillCap

MCNext ==
    /\ UNCHANGED part
    /\ \/ /\ part = "rest" /\ RestNext
          /\ UNCHANGED <<historyVars, settingsVars, fillVars, cacheVars>>
       \/ /\ part = "candles" /\ HistoryNext
          /\ UNCHANGED <<restVars, settingsVars, fillVars, cacheVars>>
       \/ /\ part = "settings" /\ SettingsNext
          /\ UNCHANGED <<restVars, historyVars, fillVars, cacheVars>>
       \/ /\ part = "fills" /\ FillNext
          /\ UNCHANGED <<restVars, historyVars, settingsVars, cacheVars>>
       \/ /\ part = "cache" /\ CacheNext
          /\ UNCHANGED <<restVars, historyVars, settingsVars, fillVars>>

MCSpec == MCInit /\ [][MCNext]_vars
===============================================================================
