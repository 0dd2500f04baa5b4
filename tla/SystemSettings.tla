--------------------------- MODULE SystemSettings ---------------------------
(***************************************************************************)
(* The system settings, of which one that is on or off is kept, and their  *)
(* cache in the process.  Who finds it empty or lapsed reads the rows      *)
(* and, when the answer is there, fills it; an update commits, then        *)
(* empties it.  No specification of its own: OfflineLicenses extends it.   *)
(***************************************************************************)
EXTENDS Integers

CONSTANTS
    Readers,        \* those who call getSettings, one call each at a time
    SettingsTTL     \* ticks for which the cache is used

ASSUME SettingsAssumption == SettingsTTL \in Nat \ {0}

VARIABLES
    stored,         \* system_settings: the value in the database
    settings,       \* cache: the value, and the ticks it is still used for, 0 if there is none
    fetched         \* of each reader: "none", or what its query has answered, not yet in the cache

settingsVars == <<stored, settings, fetched>>

SettingsTypeOK ==
    /\ stored \in {"on", "off"}
    /\ settings \in [value : {"on", "off"}, left : 0 .. SettingsTTL]
    /\ fetched \in [Readers -> {"none", "on", "off"}]

SettingsInit ==
    /\ stored = "on"
    /\ settings = [value |-> "on", left |-> 0]
    /\ fetched = [q \in Readers |-> "none"]

\* The cache is used: no step of its own, the reader goes on with the value.
Cached == settings.left > 0

Fetch(q) ==
    /\ ~Cached /\ fetched[q] = "none"
    /\ fetched' = [fetched EXCEPT ![q] = stored]
    /\ UNCHANGED <<stored, settings>>

\* The answer of the query: the cache is filled whatever happened since.
Fill(q) ==
    /\ fetched[q] # "none"
    /\ settings' = [value |-> fetched[q], left |-> SettingsTTL]
    /\ fetched' = [fetched EXCEPT ![q] = "none"]
    /\ UNCHANGED stored

\* updateSettings: the transaction, then the cache.
Commit(v) == stored' = v /\ UNCHANGED <<settings, fetched>>

Invalidate ==
    /\ settings' = [settings EXCEPT !.left = 0]
    /\ UNCHANGED <<stored, fetched>>

\* Mutant: the cache does not lapse.
AgeNothing == UNCHANGED <<stored, settings, fetched>>

\* Mutant: an entry of which no tick is left loses another.
AgeOnceMore ==
    /\ settings' = [settings EXCEPT !.left = @ - 1]
    /\ UNCHANGED <<stored, fetched>>

\* A tick.
Age ==
    /\ settings' = [settings EXCEPT !.left = IF @ > 0 THEN @ - 1 ELSE 0]
    /\ UNCHANGED <<stored, fetched>>

=============================================================================
