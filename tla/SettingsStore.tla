---------------------------- MODULE SettingsStore ----------------------------
(***************************************************************************)
(* One live-editable setting: the PUT and DELETE handlers of the config    *)
(* page change the shared settings object first and then wait for the      *)
(* write lock of the database to persist or clear the override; at start   *)
(* the override is laid over the default.  The lock is first come, first   *)
(* served.  SettingFaults bounds failed writes and restarts.               *)
(***************************************************************************)
EXTENDS Naturals, Sequences

CONSTANTS
    SettingValue, DefaultValue,
    Invalid,        \* a value the validation rejects
    NoOverride,
    Writers,        \* how many handlers may wait at once
    SettingFaults

ASSUME SettingsAssumption ==
    /\ DefaultValue \in SettingValue
    /\ {Invalid, NoOverride} \intersect SettingValue = {} /\ Invalid # NoOverride
    /\ Writers \in Nat \ {0} /\ SettingFaults \in Nat

VARIABLES
    live,          \* the attribute of HyperSussySettings
    override,      \* the row of settings_overrides
    saving,        \* handlers waiting for the write lock: what each will write
    settingFaults,
    unsaved        \* history: the last write of the override failed

settingsVars == <<live, override, saving, settingFaults, unsaved>>

(* apply_persisted_overrides: a row that does not validate is skipped. *)
Loaded(row) == IF row \in SettingValue THEN row ELSE DefaultValue

SettingsInit ==
    /\ override \in SettingValue \union {Invalid, NoOverride}
    /\ live = Loaded(override)
    /\ saving = <<>>
    /\ settingFaults = 0 /\ unsaved = (override = Invalid)

(* A value that fails validation changes nothing and is answered with 422. *)
PutField(v) ==
    /\ Len(saving) < Writers
    /\ v # Invalid
    /\ live' = v
    /\ saving' = Append(saving, v)
    /\ UNCHANGED <<override, settingFaults, unsaved>>

\* Mutant of DeleteField: the live value is left for the next start.
DeleteFieldLater ==
    /\ Len(saving) < Writers
    /\ saving' = Append(saving, NoOverride)
    /\ UNCHANGED <<live, override, settingFaults, unsaved>>

DeleteField ==
    /\ Len(saving) < Writers
    /\ live' = DefaultValue
    /\ saving' = Append(saving, NoOverride)
    /\ UNCHANGED <<override, settingFaults, unsaved>>

Saved ==
    /\ saving # <<>>
    /\ override' = Head(saving) /\ unsaved' = FALSE
    /\ saving' = Tail(saving)
    /\ UNCHANGED <<live, settingFaults>>

SettingFault == settingFaults < SettingFaults /\ settingFaults' = settingFaults + 1

(* The client gets a 500; the live value stays. *)
SaveFails ==
    /\ saving # <<>> /\ SettingFault
    /\ unsaved' = TRUE
    /\ saving' = Tail(saving)
    /\ UNCHANGED <<live, override>>

Restart ==
    /\ SettingFault
    /\ live' = Loaded(override)
    /\ saving' = <<>> /\ unsaved' = (override = Invalid)
    /\ UNCHANGED override

SettingsNext ==
    \/ \E v \in SettingValue \union {Invalid} : PutField(v)
    \/ DeleteField \/ Saved \/ SaveFails \/ Restart

SettingsSpec == SettingsInit /\ [][SettingsNext]_settingsVars

(* Edits that race each other leave no difference behind: when no write is
   pending and the last one succeeded, a restart would load the value that
   is live (routes/config.py:128-131, 161-168).                            *)
SavedMatchesLive == saving = <<>> /\ ~unsaved => live = Loaded(override)
=============================================================================
