------------------------------ MODULE Profiles ------------------------------
(***************************************************************************)
(* The Profiles page (src/web/src/app/profiles/page.tsx) over the store    *)
(* that the subscription service implements.                               *)
(*                                                                         *)
(* A handler runs to its next await in one step; a call acts on the server *)
(* in a step of its own and is answered in another.  The order of the rows *)
(* is the server's and is left open, as is the search that hides some.     *)
(***************************************************************************)
EXTENDS SubscriptionStore

CONSTANTS
    NoProfile,          \* no id, no settings
    Initially,          \* what the server lists when the page is opened
    ProfileSlots,       \* calls under way at once
    MaxProfileInputs,   \* bound on inputs
    MaxProfileMishaps   \* bound on failed calls and on what other windows and
                        \* the scheduler do

ASSUME ProfilesAssumption ==
    /\ NoProfile \notin Ids
    /\ DOMAIN Initially \subseteq Ids /\ Initially \in [DOMAIN Initially -> Entries]
    /\ MaxProfileInputs \in Nat /\ MaxProfileMishaps \in Nat

VARIABLES
    profiles,       \* the rows the page shows
    selectedId,
    editor,         \* the dialog with its form; whose it is selectedId alone tells
    profileDoomed,  \* deleteTarget
    profileBusy,    \* the flags that disable buttons
    profileCalls,
    profileInputs,
    profileMishaps

profileView == <<profiles, selectedId, editor, profileDoomed, profileBusy>>
profileVars == <<store, profileView, profileCalls, profileInputs, profileMishaps>>

Shown == DOMAIN profiles

OptionalId == Ids \cup {NoProfile}

Closed == [mode |-> "closed", form |-> NoProfile]

ProfileCalls ==
    [op : {"none", "list", "create", "update", "refresh", "remove"},
     served : BOOLEAN,
     id : OptionalId,
     form : StoreSettings \cup {NoProfile},
     rows : UNION {[D -> Entries] : D \in SUBSET Ids},   \* the answer
     ends : {"none", "saving", "deleting"}]              \* the handler that awaits a list

NoRows == [i \in {} |-> NoProfile]

NoProfileCall == [op |-> "none", served |-> FALSE, id |-> NoProfile, form |-> NoProfile,
                  rows |-> NoRows, ends |-> "none"]

ProfilesTypeOK ==
    /\ Listed \subseteq Ids /\ records \in [Listed -> Entries] /\ readable \in BOOLEAN
    /\ Shown \subseteq Ids /\ profiles \in [Shown -> Entries]
    /\ selectedId \in OptionalId /\ profileDoomed \in OptionalId
    /\ editor \in [mode : {"closed", "create", "edit"}, form : StoreSettings \cup {NoProfile}]
    /\ profileBusy \in [saving : BOOLEAN, deleting : BOOLEAN, list : BOOLEAN,
                        refreshing : OptionalId]
    /\ profileCalls \in [ProfileSlots -> ProfileCalls]

-----------------------------------------------------------------------------
ProfileInput == profileInputs < MaxProfileInputs /\ profileInputs' = profileInputs + 1
                                                 /\ UNCHANGED profileMishaps

ProfileMishap == profileMishaps < MaxProfileMishaps /\ profileMishaps' = profileMishaps + 1
                                                    /\ UNCHANGED profileInputs

NoProfileInput == UNCHANGED <<profileInputs, profileMishaps>>

PutCall(s, call) == profileCalls' = [profileCalls EXCEPT ![s] = call]

SendCall(s, call) == profileCalls[s].op = "none" /\ PutCall(s, call)

ProfileCall(op, i) == [NoProfileCall EXCEPT !.op = op, !.id = i]

ProfilesQuiet == \A s \in ProfileSlots : profileCalls[s].op = "none"

\* The modal dialogs cover the page and keep the focus.
Uncovered == editor.mode = "closed" /\ profileDoomed = NoProfile

\* The row of selectedId, else the first that the search leaves, if any.
Candidates == IF selectedId \in Shown THEN {selectedId} ELSE Shown \cup {NoProfile}

-----------------------------------------------------------------------------
(***************************************************************************)
(* Inputs                                                                  *)
(***************************************************************************)
SelectProfile(i) ==
    /\ ProfileInput /\ Uncovered /\ i \in Shown
    /\ selectedId' = i
    /\ UNCHANGED <<store, profiles, editor, profileDoomed, profileBusy, profileCalls>>

RefreshList(s) ==
    /\ ProfileInput /\ Uncovered /\ ~profileBusy.list
    /\ SendCall(s, ProfileCall("list", NoProfile))
    /\ profileBusy' = [profileBusy EXCEPT !.list = TRUE]
    /\ UNCHANGED <<store, profiles, selectedId, editor, profileDoomed>>

OpenCreate ==
    /\ ProfileInput /\ Uncovered
    /\ \E set \in StoreSettings : editor' = [Closed EXCEPT !.mode = "create", !.form = set]
    /\ UNCHANGED <<store, profiles, selectedId, profileDoomed, profileBusy, profileCalls>>

\* The form starts with the settings of row i, and the user changes them.
OpenEdit(i) ==
    /\ ProfileInput /\ Uncovered /\ i \in Shown
    /\ selectedId' = i
    /\ \E set \in StoreSettings : editor' = [mode |-> "edit", form |-> set]
    /\ UNCHANGED <<store, profiles, profileDoomed, profileBusy, profileCalls>>

CloseEditor ==
    /\ ProfileInput /\ editor.mode # "closed"
    /\ editor' = Closed
    /\ profileBusy' = [profileBusy EXCEPT !.saving = FALSE]
    /\ UNCHANGED <<store, profiles, selectedId, profileDoomed, profileCalls>>

\* The selection is looked up again: an answer may have moved it since the editor
\* was opened, and the form is then stored in another profile. Without a
\* selection the editor closes, and the list is loaded.
SubmitEditor(s) ==
    /\ ProfileInput /\ editor.mode # "closed" /\ ~profileBusy.saving
    /\ IF editor.mode = "create"
       THEN /\ SendCall(s, [ProfileCall("create", NoProfile) EXCEPT !.form = editor.form])
            /\ profileBusy' = [profileBusy EXCEPT !.saving = TRUE]
            /\ UNCHANGED editor
       ELSE \E i \in Candidates :
               IF i # NoProfile
               THEN /\ SendCall(s, [ProfileCall("update", i) EXCEPT !.form = editor.form])
                    /\ profileBusy' = [profileBusy EXCEPT !.saving = TRUE]
                    /\ UNCHANGED editor
               ELSE /\ SendCall(s, [ProfileCall("list", NoProfile) EXCEPT !.ends = "saving"])
                    /\ profileBusy' = [profileBusy EXCEPT !.list = TRUE]
                    /\ editor' = Closed
    /\ UNCHANGED <<store, profiles, selectedId, profileDoomed>>

HandleRefresh(s, i) ==
    /\ ProfileInput /\ Uncovered
    /\ i \in Shown /\ profiles[i].set.enabled /\ profileBusy.refreshing # i
    /\ SendCall(s, ProfileCall("refresh", i))
    /\ profileBusy' = [profileBusy EXCEPT !.refreshing = i]
    /\ UNCHANGED <<store, profiles, selectedId, editor, profileDoomed>>

AskDeleteProfile(i) ==
    /\ ProfileInput
    /\ \/ Uncovered /\ i \in Shown
       \/ profileDoomed # NoProfile /\ i = NoProfile   \* Cancel
    /\ profileDoomed' = i
    /\ UNCHANGED <<store, profiles, selectedId, editor, profileBusy, profileCalls>>

ConfirmDeleteProfile(s) ==
    /\ ProfileInput /\ profileDoomed # NoProfile /\ ~profileBusy.deleting
    /\ SendCall(s, ProfileCall("remove", profileDoomed))
    /\ profileBusy' = [profileBusy EXCEPT !.deleting = TRUE]
    /\ UNCHANGED <<store, profiles, selectedId, editor, profileDoomed>>

-----------------------------------------------------------------------------
(***************************************************************************)
(* The server                                                              *)
(***************************************************************************)
ServeList(s) ==
    /\ readable
    /\ PutCall(s, [profileCalls[s] EXCEPT !.served = TRUE, !.rows = records])
    /\ UNCHANGED store

\* Of a created or updated subscription the page uses the id alone.
ServeChange(s) ==
    LET call == profileCalls[s]
    IN  \/ /\ call.op = "create"
           /\ \E i \in Ids : /\ StoreCreate(i, call.form)
                             /\ PutCall(s, [call EXCEPT !.served = TRUE, !.id = i])
        \/ /\ call.op = "update"
           /\ StoreUpdate(call.id, call.form) /\ PutCall(s, [call EXCEPT !.served = TRUE])
        \/ /\ call.op = "remove"
           /\ StoreDelete(call.id) /\ PutCall(s, [call EXCEPT !.served = TRUE])

ServeRefresh(s) ==
    LET call == profileCalls[s]
    IN  /\ \E status \in Statuses : StoreRefresh(call.id, status)
        /\ PutCall(s, [call EXCEPT !.served = TRUE, !.rows = [i \in {call.id} |-> records'[i]]])

ServeProfiles(s) ==
    /\ NoProfileInput /\ profileCalls[s].op # "none" /\ ~profileCalls[s].served
    /\ CASE profileCalls[s].op = "list" -> ServeList(s)
         [] profileCalls[s].op = "refresh" -> ServeRefresh(s)
         [] OTHER -> ServeChange(s)
    /\ UNCHANGED profileView

\* The scheduler's refreshes, what other windows do, a list that is lost.
ElsewhereProfiles ==
    /\ ProfileMishap /\ StoreNext
    /\ UNCHANGED <<profileView, profileCalls>>

-----------------------------------------------------------------------------
(***************************************************************************)
(* Answers                                                                 *)
(***************************************************************************)
Answered(s, op) == profileCalls[s].op = op /\ profileCalls[s].served /\ NoProfileInput

\* Mutant: only a refresh that works clears its flag.
OverUnlessFailed(busy, call) ==
    [busy EXCEPT !.saving = @ /\ call.op \notin {"create", "update"} /\ call.ends # "saving",
                 !.deleting = @ /\ call.op # "remove" /\ call.ends # "deleting",
                 !.list = @ /\ call.op # "list",
                 !.refreshing = IF call.op = "refresh" /\ call.served THEN NoProfile ELSE @]

\* The handler that a call belongs to is over, well or badly.
Over(busy, call) ==
    [busy EXCEPT !.saving = @ /\ call.op \notin {"create", "update"} /\ call.ends # "saving",
                 !.deleting = @ /\ call.op # "remove" /\ call.ends # "deleting",
                 !.list = @ /\ call.op # "list",
                 !.refreshing = IF call.op = "refresh" THEN NoProfile ELSE @]

ListAnswered(s) ==
    LET call == profileCalls[s]
    IN  /\ Answered(s, "list")
        /\ profiles' = call.rows
        /\ IF selectedId \in DOMAIN call.rows THEN UNCHANGED selectedId
           ELSE IF call.rows = NoRows THEN selectedId' = NoProfile
           ELSE selectedId' \in DOMAIN call.rows
        /\ profileBusy' = Over(profileBusy, call)
        /\ PutCall(s, NoProfileCall)
        /\ UNCHANGED <<store, editor, profileDoomed>>

\* The handler goes on to load the list.
Reloads(s, handler) ==
    PutCall(s, [ProfileCall("list", NoProfile) EXCEPT !.ends = handler])

SaveAnswered(s) ==
    /\ Answered(s, "create") \/ Answered(s, "update")
    /\ selectedId' = profileCalls[s].id
    /\ editor' = Closed
    /\ profileBusy' = [profileBusy EXCEPT !.saving = FALSE, !.list = TRUE]
    /\ Reloads(s, "saving")
    /\ UNCHANGED <<store, profiles, profileDoomed>>

RemoveAnswered(s) ==
    /\ Answered(s, "remove")
    /\ profileDoomed' = NoProfile
    /\ profileBusy' = [profileBusy EXCEPT !.list = TRUE]
    /\ Reloads(s, "deleting")
    /\ UNCHANGED <<store, profiles, selectedId, editor>>

RefreshAnswered(s) ==
    LET call == profileCalls[s]
    IN  /\ Answered(s, "refresh")
        /\ profiles' = [i \in Shown |-> IF i = call.id THEN call.rows[i] ELSE profiles[i]]
        /\ selectedId' = call.id
        /\ profileBusy' = Over(profileBusy, call)
        /\ PutCall(s, NoProfileCall)
        /\ UNCHANGED <<store, editor, profileDoomed>>

\* The list does not parse, the id is gone, another has the name or the file.
Refusable(call) ==
    \/ ~readable
    \/ call.op \in {"update", "refresh", "remove"} /\ call.id \notin Listed
    \/ call.op \in {"create", "update"} /\ ~Distinct(call.form, call.id)
    \/ call.op = "create" /\ Listed = Ids   \* bound: no id is left

\* fetchApi throws: the server refuses, or the call is lost before or after it
\* acted.
ProfileCallFails(s) ==
    LET call == profileCalls[s]
    IN  /\ call.op # "none"
        /\ \/ NoProfileInput /\ ~call.served /\ Refusable(call)
           \/ ProfileMishap
        /\ profileBusy' = Over(profileBusy, call)
        /\ PutCall(s, NoProfileCall)
        /\ UNCHANGED <<store, profiles, selectedId, editor, profileDoomed>>

\* The page has been opened and has its list.
ProfilesInit ==
    /\ records = Initially /\ readable = TRUE
    /\ profiles = Initially
    /\ IF Shown = {} THEN selectedId = NoProfile ELSE selectedId \in Shown
    /\ editor = Closed /\ profileDoomed = NoProfile
    /\ profileBusy = [saving |-> FALSE, deleting |-> FALSE, list |-> FALSE,
                      refreshing |-> NoProfile]
    /\ profileCalls = [s \in ProfileSlots |-> NoProfileCall]
    /\ profileInputs = 0 /\ profileMishaps = 0

ProfilesNext ==
    \/ OpenCreate \/ CloseEditor \/ ElsewhereProfiles
    \/ \E i \in OptionalId : SelectProfile(i) \/ OpenEdit(i) \/ AskDeleteProfile(i)
    \/ \E s \in ProfileSlots :
          \/ RefreshList(s) \/ SubmitEditor(s) \/ ConfirmDeleteProfile(s)
          \/ \E i \in Ids : HandleRefresh(s, i)
          \/ ServeProfiles(s)
          \/ ListAnswered(s) \/ SaveAnswered(s) \/ RemoveAnswered(s) \/ RefreshAnswered(s)
          \/ ProfileCallFails(s)

ProfilesSpec == ProfilesInit /\ [][ProfilesNext]_profileVars

-----------------------------------------------------------------------------
(***************************************************************************)
(* Properties                                                              *)
(***************************************************************************)
\* Whatever fails or is closed early, no button of the page stays disabled once
\* the calls are over.
ProfilesComeToRest ==
    ProfilesQuiet => /\ ~profileBusy.saving /\ ~profileBusy.deleting /\ ~profileBusy.list
                     /\ profileBusy.refreshing = NoProfile

=============================================================================
