------------------------------ MODULE Settings ------------------------------
(***************************************************************************)
(* The application settings: the Settings page (app/settings/page.tsx),    *)
(* the routing switch of the dashboard (app/page.tsx), which stores the    *)
(* same object, the two spellings of every key that services/api.ts reads  *)
(* and writes, and UpdateConfig of the server (handler/app/handler.go).    *)
(*                                                                         *)
(* One window, which shows one of the two pages at a time; a handler that  *)
(* awaits a call goes on after its page is gone.  Of the settings three    *)
(* are kept: the routing mode, whose change restarts a running core, the   *)
(* bypass lists, which can be malformed, and the restart options, which    *)
(* the page's object holds under both spellings.                           *)
(***************************************************************************)
EXTENDS Naturals

CONSTANTS
    Values,             \* of each setting
    Blank,              \* the one that Go takes for a key that is missing
    Malformed,          \* bypass lists that ValidateRouting objects to
    Absent,             \* no such key, no object
    SettingsSlots,      \* calls under way at once
    MaxSettingsInputs,  \* bound on inputs
    MaxSettingsMishaps, \* bound on calls and restarts that fail
    Unhurried           \* the user does not save before the routing is validated

ASSUME SettingsAssumption ==
    /\ Blank \in Values /\ Malformed \subseteq Values \ {Blank} /\ Absent \notin Values
    /\ MaxSettingsInputs \in Nat /\ MaxSettingsMishaps \in Nat /\ Unhurried \in BOOLEAN

VARIABLES
    stored,         \* the settings of the server
    settingsSeen,   \* what this window has read or stored
    settingsUnsent, \* (history) what it marked as saved without sending it
    page,           \* the page that is mounted
    config,         \* its copy
    savedConfigRef,
    dirty,
    rawJson,        \* the text of the raw editor
    issues,         \* validationIssues is not empty
    unchecked,      \* the timer of the validation is set
    settingsCalls,
    settingsInputs,
    settingsMishaps

settingsServer == <<stored, settingsSeen, settingsUnsent>>
pageView == <<page, config, savedConfigRef, dirty, rawJson, issues, unchecked>>
settingsVars == <<settingsServer, pageView, settingsCalls, settingsInputs, settingsMishaps>>

Fields == {"mode", "bypass", "restart"}

Routing == {"mode", "bypass"}

Settings == [Fields -> Values]

\* A JSON object with either spelling of a key, or both.
Objects == [Fields -> [pascal : Values \cup {Absent}, snake : Values \cup {Absent}]]

SettingsCalls ==
    [op : {"none", "load", "validate", "check", "save", "switch"},
     served : BOOLEAN,
     mounted : BOOLEAN,                 \* the page that made it is still there
     object : Objects \cup {Absent}]    \* sent, or the answer

NoSettingsCall == [op |-> "none", served |-> FALSE, mounted |-> FALSE, object |-> Absent]

SettingsTypeOK ==
    /\ stored \in Settings /\ settingsSeen \subseteq Settings /\ settingsUnsent \subseteq Settings
    /\ page \in {"settings", "dashboard"}
    /\ config \in Objects \cup {Absent} /\ savedConfigRef \in Objects \cup {Absent}
    /\ rawJson \in Objects \cup {Absent}
    /\ dirty \in BOOLEAN /\ issues \in BOOLEAN /\ unchecked \in BOOLEAN
    /\ settingsCalls \in [SettingsSlots -> SettingsCalls]

-----------------------------------------------------------------------------
(***************************************************************************)
(* The two spellings                                                       *)
(***************************************************************************)
\* The value of a setting in an object: pascal ?? snake.
Value(key) == IF key.pascal # Absent THEN key.pascal ELSE key.snake

\* GET: the json tags of Go are the snake spelling.
Encode(settings) == [f \in Fields |-> [pascal |-> Absent, snake |-> settings[f]]]

\* normalizeAppConfig; the restart options are one object under two keys.
Normalize(object) ==
    [f \in Fields |-> [pascal |-> Value(object[f]),
                       snake |-> IF f = "restart" THEN Value(object[f]) ELSE Absent]]

\* Mutant: the snake spelling is preferred.
SerializeSnake(object) ==
    [f \in Fields |-> LET v == IF object[f].snake # Absent THEN object[f].snake
                               ELSE object[f].pascal
                      IN  [pascal |-> v, snake |-> v]]

\* serializeAppConfig: both spellings of whatever is there.
Serialize(object) ==
    [f \in Fields |-> [pascal |-> Value(object[f]), snake |-> Value(object[f])]]

\* What Go makes of a body.  Letter case is ignored, an underscore is not: of
\* an object in pascal spelling the keys of one word are found.
Decode(object) ==
    [f \in Fields |-> LET v == IF f = "mode" THEN Value(object[f]) ELSE object[f].snake
                      IN  IF v = Absent THEN Blank ELSE v]

-----------------------------------------------------------------------------
SettingsInput == settingsInputs < MaxSettingsInputs /\ settingsInputs' = settingsInputs + 1
                                                    /\ UNCHANGED settingsMishaps

SettingsMishap == settingsMishaps < MaxSettingsMishaps /\ settingsMishaps' = settingsMishaps + 1
                                                       /\ UNCHANGED settingsInputs

NoSettingsInput == UNCHANGED <<settingsInputs, settingsMishaps>>

Now(s, call) == settingsCalls' = [settingsCalls EXCEPT ![s] = call]

Calls(s, op, object) ==
    /\ settingsCalls[s].op = "none"
    /\ Now(s, [op |-> op, served |-> FALSE, mounted |-> TRUE, object |-> object])

Awaits(ops) == \E s \in SettingsSlots : settingsCalls[s].mounted /\ settingsCalls[s].op \in ops

\* What an object shows, setting by setting.
Displayed(object) ==
    [f \in Fields |-> IF Value(object[f]) = Absent THEN Blank ELSE Value(object[f])]

\* The form is there: neither the skeleton nor the error card.
Form == page = "settings" /\ config # Absent /\ ~Awaits({"load"})

\* setConfig, setDirty and the effect that the new object fires.
Edit(object) ==
    /\ Form
    /\ config' = object
    /\ dirty' = (object # savedConfigRef)
    /\ unchecked' = TRUE
    /\ UNCHANGED <<settingsServer, page, savedConfigRef, issues, settingsCalls>>

-----------------------------------------------------------------------------
(***************************************************************************)
(* The Settings page                                                       *)
(***************************************************************************)
\* handleMihomoChange, handleRoutingChange and the like.
ChangeField(f, v) ==
    /\ SettingsInput /\ Form /\ config[f].pascal # v
    /\ Edit([config EXCEPT ![f].pascal = v])
    /\ UNCHANGED rawJson

\* One key is typed, retyped or deleted.
EditRawJson(f, v, spelling) ==
    /\ SettingsInput /\ Form
    /\ rawJson' = [rawJson EXCEPT ![f][spelling] = v]
    /\ UNCHANGED <<settingsServer, page, config, savedConfigRef, dirty, issues, unchecked,
                   settingsCalls>>

\* The text is that of the last load or save: what the form changed is undone.
HandleRawSave ==
    LET opts == Value(rawJson["restart"])
    IN  /\ SettingsInput /\ Form
        /\ Edit([rawJson EXCEPT !["restart"].pascal = IF opts = Absent THEN Blank ELSE opts])
        /\ UNCHANGED rawJson

Reload(s) ==
    /\ SettingsInput /\ page = "settings" /\ ~Awaits({"load"})
    /\ Calls(s, "load", Absent)
    /\ UNCHANGED <<settingsServer, pageView>>

\* The timer of 500 ms; the routing is sent as it is, not serialized.
ValidateRouting(s) ==
    /\ NoSettingsInput /\ unchecked
    /\ unchecked' = FALSE
    /\ Calls(s, "validate", config)
    /\ UNCHANGED <<settingsServer, page, config, savedConfigRef, dirty, rawJson, issues>>

HandleSubmit(s) ==
    /\ SettingsInput /\ Form /\ dirty /\ ~issues /\ ~Awaits({"save"})
    /\ Unhurried => ~unchecked /\ ~Awaits({"validate"})
    /\ Calls(s, "save", config)
    /\ UNCHANGED <<settingsServer, pageView>>

-----------------------------------------------------------------------------
(***************************************************************************)
(* The dashboard, and going from one page to the other                     *)
(***************************************************************************)
\* handleRoutingSwitch captures the object it read when it was mounted.
HandleRoutingSwitch(s, mode) ==
    /\ SettingsInput /\ page = "dashboard" /\ config # Absent /\ ~Awaits({"check", "switch"})
    /\ mode # Value(config["mode"])
    /\ Calls(s, "check", [config EXCEPT !["mode"].pascal = mode])
    /\ UNCHANGED <<settingsServer, pageView>>

\* Loads and validations of a page that is gone change nothing any more.
Left(call) == IF call.op \in {"load", "validate"} THEN NoSettingsCall
              ELSE [call EXCEPT !.mounted = FALSE]

Unmount == [s \in SettingsSlots |-> Left(settingsCalls[s])]

Navigate(s) ==
    /\ SettingsInput
    /\ page' = IF page = "settings" THEN "dashboard" ELSE "settings"
    /\ config' = Absent /\ savedConfigRef' = Absent /\ rawJson' = Absent
    /\ dirty' = FALSE /\ issues' = FALSE /\ unchecked' = FALSE
    /\ Unmount[s].op = "none"
    /\ settingsCalls' = [Unmount EXCEPT ![s] = [NoSettingsCall EXCEPT !.op = "load",
                                                                      !.mounted = TRUE]]
    /\ UNCHANGED <<settingsServer>>

-----------------------------------------------------------------------------
(***************************************************************************)
(* The server                                                              *)
(***************************************************************************)
ServeSettings(s) ==
    LET call == settingsCalls[s]
    IN  /\ NoSettingsInput /\ call.op = "load" /\ ~call.served
        /\ settingsSeen' = settingsSeen \cup {stored}
        /\ Now(s, [call EXCEPT !.served = TRUE, !.object = Encode(stored)])
        /\ UNCHANGED <<stored, settingsUnsent, pageView>>

UpdateConfig(s) ==
    LET call == settingsCalls[s]
    IN  /\ NoSettingsInput /\ call.op \in {"save", "switch"} /\ ~call.served
        /\ stored' = Decode(Serialize(call.object))
        /\ settingsSeen' = settingsSeen \cup {stored'}
        /\ Now(s, [call EXCEPT !.served = TRUE])
        /\ UNCHANGED <<settingsUnsent, pageView>>

\* The running core does not start in the new mode: the routing is rolled back,
\* what else was sent is stored, and the answer is an error.
UpdateRolledBack(s) ==
    LET call == settingsCalls[s]
        sent == Decode(Serialize(call.object))
    IN  /\ SettingsMishap /\ call.op \in {"save", "switch"} /\ ~call.served
        /\ sent["mode"] # stored["mode"]
        /\ stored' = [f \in Fields |-> IF f \in Routing THEN stored[f] ELSE sent[f]]
        /\ Now(s, NoSettingsCall)
        /\ UNCHANGED <<settingsSeen, settingsUnsent, pageView>>

-----------------------------------------------------------------------------
(***************************************************************************)
(* Answers                                                                 *)
(***************************************************************************)
SettingsLoaded(s) ==
    LET object == Normalize(settingsCalls[s].object)
    IN  /\ NoSettingsInput /\ settingsCalls[s].op = "load" /\ settingsCalls[s].served
        /\ config' = object
        /\ IF page = "settings"
           THEN savedConfigRef' = object /\ rawJson' = object /\ dirty' = FALSE /\ unchecked' = TRUE
           ELSE UNCHANGED <<savedConfigRef, rawJson, dirty, unchecked>>
        /\ Now(s, NoSettingsCall)
        /\ UNCHANGED <<settingsServer, page, issues>>

\* Routes, tables or interfaces of the system may be an issue too.
RoutingValidated(s) ==
    LET call == settingsCalls[s]
    IN  /\ NoSettingsInput /\ call.op = "validate"
        /\ issues' \in {TRUE, Decode(call.object)["bypass"] \in Malformed}
        /\ Now(s, NoSettingsCall)
        /\ UNCHANGED <<settingsServer, page, config, savedConfigRef, dirty, rawJson, unchecked>>

\* The mode alone was sent, and the system refuses it or not.
ModeChecked(s) ==
    LET call == settingsCalls[s]
    IN  /\ NoSettingsInput /\ call.op = "check"
        /\ \/ Now(s, [call EXCEPT !.op = "switch"])
           \/ Now(s, NoSettingsCall)
        /\ UNCHANGED <<settingsServer, pageView>>

SwitchAnswered(s) ==
    LET call == settingsCalls[s]
    IN  /\ NoSettingsInput /\ call.op = "switch" /\ call.served
        /\ config' = IF call.mounted THEN call.object ELSE config
        /\ Now(s, NoSettingsCall)
        /\ UNCHANGED <<settingsServer, page, savedConfigRef, dirty, rawJson, issues, unchecked>>

\* What was sent is saved; the mark goes, whatever has been typed since.
SettingsSaved(s) ==
    LET call == settingsCalls[s]
    IN  /\ NoSettingsInput /\ call.op = "save" /\ call.served
        /\ IF call.mounted
           THEN savedConfigRef' = call.object /\ rawJson' = call.object /\ dirty' = FALSE
           ELSE UNCHANGED <<savedConfigRef, rawJson, dirty>>
        /\ settingsUnsent' = settingsUnsent \cup
              {Displayed(o) : o \in {c \in {config} \ {Absent, call.object} : call.mounted}}
        /\ Now(s, NoSettingsCall)
        /\ UNCHANGED <<stored, settingsSeen, page, config, issues, unchecked>>

\* fetchApi throws, before or after the server acted.
SettingsCallFails(s) ==
    /\ SettingsMishap /\ settingsCalls[s].op # "none"
    /\ Now(s, NoSettingsCall)
    /\ UNCHANGED <<settingsServer, pageView>>

\* The Settings page has been opened and has its object.
SettingsInit ==
    /\ stored \in Settings /\ settingsSeen = {stored} /\ settingsUnsent = {}
    /\ page = "settings"
    /\ config = Normalize(Encode(stored)) /\ savedConfigRef = config /\ rawJson = config
    /\ dirty = FALSE /\ issues = FALSE /\ unchecked = TRUE
    /\ settingsCalls = [s \in SettingsSlots |-> NoSettingsCall]
    /\ settingsInputs = 0 /\ settingsMishaps = 0

SettingsNext ==
    \/ HandleRawSave
    \/ \E f \in Fields, v \in Values \cup {Absent} :
          \/ v # Absent /\ ChangeField(f, v)
          \/ \E spelling \in {"pascal", "snake"} : EditRawJson(f, v, spelling)
    \/ \E s \in SettingsSlots :
          \/ Reload(s) \/ ValidateRouting(s) \/ HandleSubmit(s) \/ Navigate(s)
          \/ \E mode \in Values : HandleRoutingSwitch(s, mode)
          \/ ServeSettings(s) \/ UpdateConfig(s) \/ UpdateRolledBack(s)
          \/ SettingsLoaded(s) \/ RoutingValidated(s) \/ ModeChecked(s)
          \/ SwitchAnswered(s) \/ SettingsSaved(s) \/ SettingsCallFails(s)

SettingsSpec == SettingsInit /\ [][SettingsNext]_settingsVars

-----------------------------------------------------------------------------
(***************************************************************************)
(* Properties                                                              *)
(***************************************************************************)
\* Without the mark of unsaved changes the page shows, setting by setting, what
\* the server has once held for this window, whichever spelling a raw edit used
\* and whatever failed - or what stood in the form when the save of something
\* else was answered, and nothing else.
CleanSettingsStored ==
    Form /\ ~dirty => Displayed(config) \in settingsSeen \cup settingsUnsent

\* "Please resolve the routing validation issues first": a save of the page
\* never stores a bypass list that the server's validation objects to, unless
\* it was stored before.
SavedBypassIsValid ==
    [][stored'["bypass"] \in Malformed => stored["bypass"] \in Malformed]_settingsVars

=============================================================================
