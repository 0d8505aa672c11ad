--------------------------- MODULE Editing_proofs ---------------------------
(***************************************************************************)
(* Proofs about the pages that edit what the server stores: Profiles, the  *)
(* configuration editor and Settings, for any number of profiles, files,   *)
(* tabs, values, calls and failures.                                       *)
(***************************************************************************)
EXTENDS Profiles, ConfigEditor, Settings, FiniteSetTheorems, TLAPS

-----------------------------------------------------------------------------
(***************************************************************************)
(* Profiles                                                                *)
(***************************************************************************)
(***************************************************************************)
(* What a call carries: settings where it saves some, the row it asked     *)
(* for, and a handler to end only where it loads the list.                 *)
(***************************************************************************)
CarriesWhatItNeeds(call) ==
    /\ call.op \in {"create", "update"} => call.form \in StoreSettings
    /\ call.op = "refresh" /\ call.served => call.id \in DOMAIN call.rows
    /\ call.op # "list" => call.ends = "none"

CallsCarry == \A s \in ProfileSlots : CarriesWhatItNeeds(profileCalls[s])

\* One dialog at a time, and a form that is filled.
OneDialog ==
    editor.mode # "closed" => editor.form \in StoreSettings /\ profileDoomed = NoProfile

\* A flag is raised by a handler that has a call under way, and the end of that
\* call, however it ends, takes it down.
SavingHeld(s) == profileCalls[s].op \in {"create", "update"} \/ profileCalls[s].ends = "saving"
DeletingHeld(s) == profileCalls[s].op = "remove" \/ profileCalls[s].ends = "deleting"

FlagsHeld ==
    /\ profileBusy.saving => \E s \in ProfileSlots : SavingHeld(s)
    /\ profileBusy.deleting => \E s \in ProfileSlots : DeletingHeld(s)
    /\ profileBusy.list => \E s \in ProfileSlots : profileCalls[s].op = "list"
    /\ profileBusy.refreshing # NoProfile => \E s \in ProfileSlots : profileCalls[s].op = "refresh"

ProfilesInv ==
    ProfilesTypeOK /\ CallsCarry /\ OneDialog /\ FlagsHeld

USE ProfilesAssumption

-----------------------------------------------------------------------------
(***************************************************************************)
(* The store under the page keeps its types, whoever changes it.           *)
(***************************************************************************)
StoreTyped == Listed \subseteq Ids /\ records \in [Listed -> Entries] /\ readable \in BOOLEAN

LEMMA WithTyped ==
    ASSUME StoreTyped, NEW i \in Ids, NEW entry \in Entries,
           records' = With(i, entry), UNCHANGED readable
    PROVE  StoreTyped' /\ Listed' = Listed \cup {i}
<1>1. Listed' = Listed \cup {i}
  BY DEF With, Listed
<1>2. records' \in [Listed \cup {i} -> Entries]
  BY DEF With, StoreTyped
<1> QED
  BY <1>1, <1>2 DEF StoreTyped

LEMMA RefreshTyped ==
    ASSUME StoreTyped, NEW i, NEW status \in Statuses, StoreRefresh(i, status)
    PROVE  StoreTyped' /\ i \in Listed'
<1>1. i \in Ids /\ [records[i] EXCEPT !.status = status] \in Entries
  BY DEF StoreRefresh, StoreTyped, Entries
<1> QED
  BY <1>1, WithTyped DEF StoreRefresh

\* An operation about id i.
LEMMA OperationTyped ==
    ASSUME StoreTyped, NEW i,
           \/ i \in Ids /\ \E set \in StoreSettings : StoreCreate(i, set)
           \/ \E set \in StoreSettings : StoreUpdate(i, set)
           \/ StoreDelete(i)
           \/ \E status \in Statuses : StoreRefresh(i, status)
    PROVE  StoreTyped'
<1>1. CASE i \in Ids /\ \E set \in StoreSettings : StoreCreate(i, set)
  <2>1. PICK set \in StoreSettings : StoreCreate(i, set)
    BY <1>1
  <2>2. [set |-> set, status |-> "draft"] \in Entries
    BY DEF Entries, Statuses
  <2> QED
    BY <1>1, <2>1, <2>2, WithTyped DEF StoreCreate
<1>2. CASE \E set \in StoreSettings : StoreUpdate(i, set)
  <2>1. PICK set \in StoreSettings : StoreUpdate(i, set)
    BY <1>2
  <2>2. i \in Ids /\ [records[i] EXCEPT !.set = set] \in Entries
    BY <2>1 DEF StoreUpdate, StoreTyped, Entries
  <2> QED
    BY <2>1, <2>2, WithTyped DEF StoreUpdate
<1>3. CASE StoreDelete(i)
  <2>1. Listed' = Listed \ {i}
    BY <1>3 DEF StoreDelete, Listed
  <2> QED
    BY <1>3, <2>1 DEF StoreDelete, StoreTyped
<1>4. CASE \E status \in Statuses : StoreRefresh(i, status)
  BY <1>4, RefreshTyped
<1> QED
  BY <1>1, <1>2, <1>3, <1>4

LEMMA StoreNextTyped ==
    ASSUME StoreTyped, StoreNext
    PROVE  StoreTyped'
<1>1. CASE StoreLose
  BY <1>1 DEF StoreLose, StoreTyped, Listed
<1> QED
  BY <1>1, OperationTyped DEF StoreNext

-----------------------------------------------------------------------------
(***************************************************************************)
(* Calls                                                                   *)
(***************************************************************************)
\* The rows of an answer.
Rows == UNION {[D -> Entries] : D \in SUBSET Ids}

LEMMA RowsTyped ==
    /\ \A r : DOMAIN r \subseteq Ids /\ r \in [DOMAIN r -> Entries] => r \in Rows
    /\ \A r \in Rows : DOMAIN r \subseteq Ids /\ r \in [DOMAIN r -> Entries]
BY DEF Rows

LEMMA NoProfileCallTyped ==
    /\ NoProfileCall \in ProfileCalls /\ NoProfileCall.op = "none"
    /\ NoProfileCall.ends = "none" /\ CarriesWhatItNeeds(NoProfileCall)
<1>1. NoRows \in Rows
  BY RowsTyped DEF NoRows
<1> QED
  BY <1>1 DEF NoProfileCall, ProfileCalls, OptionalId, CarriesWhatItNeeds, Rows

Carries(call, op, ends) ==
    call \in ProfileCalls /\ call.op = op /\ call.ends = ends /\ CarriesWhatItNeeds(call)

\* Calls as they are sent.
LEMMA PlainCalls ==
    ASSUME NEW i \in OptionalId
    PROVE  /\ \A op \in {"list", "refresh", "remove"} : Carries(ProfileCall(op, i), op, "none")
           /\ \A ends \in {"saving", "deleting"} :
                 Carries([ProfileCall("list", i) EXCEPT !.ends = ends], "list", ends)
<1>1. NoRows \in Rows
  BY RowsTyped DEF NoRows
<1> QED
  BY <1>1 DEF Carries, ProfileCall, NoProfileCall, ProfileCalls, CarriesWhatItNeeds, Rows, OptionalId

LEMMA SavingCalls ==
    ASSUME NEW i \in OptionalId, NEW form \in StoreSettings
    PROVE  /\ Carries([ProfileCall("create", i) EXCEPT !.form = form], "create", "none")
           /\ Carries([ProfileCall("update", i) EXCEPT !.form = form], "update", "none")
<1>1. NoRows \in Rows
  BY RowsTyped DEF NoRows
<1> QED
  BY <1>1 DEF Carries, ProfileCall, NoProfileCall, ProfileCalls, CarriesWhatItNeeds, Rows, OptionalId

\* A step puts one call into a slot.
LEMMA ProfileSlot ==
    ASSUME ProfilesInv, NEW s \in ProfileSlots, NEW call, NEW op, NEW ends,
           PutCall(s, call), Carries(call, op, ends)
    PROVE  /\ profileCalls' \in [ProfileSlots -> ProfileCalls] /\ profileCalls'[s] = call
           /\ profileCalls'[s].op = op /\ profileCalls'[s].ends = ends
           /\ \A r \in ProfileSlots : r # s => profileCalls'[r] = profileCalls[r]
           /\ CallsCarry'
<1>1. profileCalls \in [ProfileSlots -> ProfileCalls]
      /\ profileCalls' = [profileCalls EXCEPT ![s] = call] /\ call \in ProfileCalls
  BY DEF ProfilesInv, ProfilesTypeOK, PutCall, Carries
<1>2. /\ profileCalls' \in [ProfileSlots -> ProfileCalls] /\ profileCalls'[s] = call
      /\ \A r \in ProfileSlots : r # s => profileCalls'[r] = profileCalls[r]
  BY <1>1
<1> QED
  BY <1>2 DEF ProfilesInv, CallsCarry, Carries

-----------------------------------------------------------------------------
(***************************************************************************)
(* Inputs                                                                  *)
(***************************************************************************)
\* A step that sends nothing and raises no flag.
LEMMA FlagsKept ==
    ASSUME ProfilesInv, UNCHANGED profileCalls,
           profileBusy'.saving => profileBusy.saving,
           UNCHANGED <<profileBusy.deleting, profileBusy.list, profileBusy.refreshing>>
    PROVE  CallsCarry' /\ FlagsHeld'
BY DEF ProfilesInv, CallsCarry, FlagsHeld, SavingHeld, DeletingHeld

LEMMA InvDialogs ==
    ASSUME ProfilesInv,
           \/ OpenCreate \/ CloseEditor
           \/ \E i \in OptionalId : SelectProfile(i) \/ OpenEdit(i) \/ AskDeleteProfile(i)
    PROVE  ProfilesInv'
<1> USE DEF ProfilesInv
<1>1. CASE OpenCreate
  <2>1. PICK set \in StoreSettings : editor' = [Closed EXCEPT !.mode = "create", !.form = set]
    BY <1>1 DEF OpenCreate
  <2>2. editor' \in [mode : {"closed", "create", "edit"},
                     form : StoreSettings \cup {NoProfile}]
        /\ editor'.mode = "create" /\ editor'.form = set
    BY <2>1 DEF Closed, OptionalId
  <2>3. UNCHANGED <<records, readable, profiles, selectedId, profileDoomed, profileBusy, profileCalls>>
        /\ profileDoomed = NoProfile
    BY <1>1 DEF OpenCreate, Uncovered, store
  <2>4. ProfilesTypeOK'
    BY <2>2, <2>3 DEF ProfilesTypeOK, Listed, Shown
  <2> QED
    BY <2>2, <2>3, <2>4, FlagsKept DEF OneDialog
<1>2. CASE CloseEditor
  <2>1. /\ UNCHANGED <<records, readable, profiles, selectedId, profileDoomed, profileCalls>>
        /\ profileBusy' = [profileBusy EXCEPT !.saving = FALSE] /\ editor' = Closed
    BY <1>2 DEF CloseEditor, store
  <2>2. ProfilesTypeOK'
    BY <2>1 DEF ProfilesTypeOK, Listed, Shown, Closed, OptionalId
  <2>3. CallsCarry' /\ FlagsHeld'
    BY <2>1, FlagsKept DEF ProfilesTypeOK
  <2> QED
    BY <2>1, <2>2, <2>3 DEF OneDialog, Closed
<1>3. ASSUME NEW i \in OptionalId, SelectProfile(i) PROVE ProfilesInv'
  <2>1. /\ UNCHANGED <<records, readable, profiles, editor, profileDoomed, profileBusy, profileCalls>>
        /\ selectedId' = i /\ editor.mode = "closed"
    BY <1>3 DEF SelectProfile, Uncovered, store
  <2>2. ProfilesTypeOK'
    BY <2>1 DEF ProfilesTypeOK, Listed, Shown
  <2> QED
    BY <2>1, <2>2, FlagsKept DEF OneDialog
<1>4. ASSUME NEW i \in OptionalId, OpenEdit(i) PROVE ProfilesInv'
  <2>1. PICK set \in StoreSettings : editor' = [mode |-> "edit", form |-> set]
    BY <1>4 DEF OpenEdit
  <2>2. /\ UNCHANGED <<records, readable, profiles, profileDoomed, profileBusy, profileCalls>>
        /\ selectedId' = i /\ i \in Shown /\ profileDoomed = NoProfile
    BY <1>4 DEF OpenEdit, Uncovered, store
  <2>3. ProfilesTypeOK'
    BY <2>1, <2>2 DEF ProfilesTypeOK, Listed, Shown
  <2>4. OneDialog'
    BY <2>1, <2>2 DEF OneDialog
  <2> QED
    BY <2>2, <2>3, <2>4, FlagsKept
<1>5. ASSUME NEW i \in OptionalId, AskDeleteProfile(i) PROVE ProfilesInv'
  <2>1. /\ UNCHANGED <<records, readable, profiles, selectedId, editor, profileBusy, profileCalls>>
        /\ profileDoomed' = i
        /\ editor.mode = "closed" \/ i = NoProfile
    BY <1>5 DEF AskDeleteProfile, Uncovered, store
  <2>2. ProfilesTypeOK'
    BY <2>1 DEF ProfilesTypeOK, Listed, Shown
  <2> QED
    BY <1>5, <2>1, <2>2, FlagsKept DEF AskDeleteProfile, OneDialog, Shown
<1> QED
  BY <1>1, <1>2, <1>3, <1>4, <1>5

\* A step that puts a call into an empty slot: no flag loses the call that will
\* take it down, and the flag that is raised has the new one.
LEMMA FlagsSent ==
    ASSUME ProfilesInv, NEW s \in ProfileSlots, NEW call, NEW op, NEW ends,
           SendCall(s, call), Carries(call, op, ends),
           profileBusy'.saving => profileBusy.saving \/ op \in {"create", "update"} \/ ends = "saving",
           profileBusy'.deleting => profileBusy.deleting \/ op = "remove" \/ ends = "deleting",
           profileBusy'.list => profileBusy.list \/ op = "list",
           profileBusy'.refreshing \in {profileBusy.refreshing, NoProfile} \/ op = "refresh"
    PROVE  CallsCarry' /\ FlagsHeld' /\ profileCalls' \in [ProfileSlots -> ProfileCalls]
<1>1. /\ profileCalls[s].op = "none" /\ profileCalls[s].ends = "none"
      /\ PutCall(s, call)
  BY DEF SendCall, ProfilesInv, CallsCarry, CarriesWhatItNeeds
<1>2. /\ CallsCarry' /\ profileCalls' \in [ProfileSlots -> ProfileCalls]
      /\ profileCalls'[s].op = op /\ profileCalls'[s].ends = ends
      /\ \A r \in ProfileSlots : r # s => profileCalls'[r] = profileCalls[r]
  BY <1>1, ProfileSlot
<1>3. FlagsHeld'
  BY <1>1, <1>2 DEF ProfilesInv, FlagsHeld, SavingHeld, DeletingHeld
<1> QED
  BY <1>2, <1>3

\* What is sent while no dialog for an edit is open, and changes nothing else.
LEMMA InvSent ==
    ASSUME ProfilesInv, NEW s \in ProfileSlots, NEW call, NEW op, NEW ends,
           SendCall(s, call), Carries(call, op, ends),
           UNCHANGED <<store, profiles, selectedId, profileDoomed>>,
           editor' \in {editor, Closed}, editor.mode = "edit" => editor' = Closed,
           \/ profileBusy' = [profileBusy EXCEPT !.saving = TRUE] /\ op = "create"
           \/ profileBusy' = [profileBusy EXCEPT !.deleting = TRUE] /\ op = "remove"
           \/ profileBusy' = [profileBusy EXCEPT !.list = TRUE] /\ op = "list"
           \/ \E i \in OptionalId :
                 profileBusy' = [profileBusy EXCEPT !.refreshing = i] /\ op = "refresh"
    PROVE  ProfilesInv'
<1>1. profileBusy' \in [saving : BOOLEAN, deleting : BOOLEAN, list : BOOLEAN,
                        refreshing : OptionalId]
  BY DEF ProfilesInv, ProfilesTypeOK
<1>2. CallsCarry' /\ FlagsHeld' /\ profileCalls' \in [ProfileSlots -> ProfileCalls]
  BY FlagsSent DEF ProfilesInv, ProfilesTypeOK
<1>3. Closed.mode = "closed" /\ Closed \in [mode : {"closed", "create", "edit"},
                    form : StoreSettings \cup {NoProfile}]
  BY DEF Closed, OptionalId
<1>4. ProfilesTypeOK'
  BY <1>1, <1>2, <1>3 DEF ProfilesInv, ProfilesTypeOK, store, Listed, Shown
<1>5. OneDialog'
  BY <1>3 DEF ProfilesInv, OneDialog
<1> QED
  BY <1>2, <1>4, <1>5 DEF ProfilesInv

LEMMA InvSubmit ==
    ASSUME ProfilesInv, NEW s \in ProfileSlots, SubmitEditor(s)
    PROVE  ProfilesInv'
<1> DEFINE form == editor.form
           created == [ProfileCall("create", NoProfile) EXCEPT !.form = form]
           updated(i) == [ProfileCall("update", i) EXCEPT !.form = form]
           listed == [ProfileCall("list", NoProfile) EXCEPT !.ends = "saving"]
<1>1. /\ UNCHANGED <<store, profiles, selectedId, profileDoomed>>
      /\ editor.mode # "closed" /\ form \in StoreSettings
      /\ selectedId \in OptionalId /\ Shown \subseteq Ids
  BY DEF SubmitEditor, ProfilesInv, OneDialog, ProfilesTypeOK
<1>2. /\ NoProfile \in OptionalId
      /\ Carries(created, "create", "none") /\ Carries(listed, "list", "saving")
  BY <1>1, SavingCalls, PlainCalls DEF OptionalId
<1> HIDE DEF created, updated, listed
<1>3. CASE editor.mode = "create"
  <2>1. /\ SendCall(s, created) /\ UNCHANGED editor
        /\ profileBusy' = [profileBusy EXCEPT !.saving = TRUE]
    BY <1>3 DEF SubmitEditor, created
  <2> QED
    BY <1>1, <1>2, <1>3, <2>1, InvSent
<1>4. CASE editor.mode # "create"
  <2>1. PICK i \in Candidates :
            IF i # NoProfile
            THEN /\ SendCall(s, updated(i)) /\ UNCHANGED editor
                 /\ profileBusy' = [profileBusy EXCEPT !.saving = TRUE]
            ELSE /\ SendCall(s, listed) /\ editor' = Closed
                 /\ profileBusy' = [profileBusy EXCEPT !.list = TRUE]
    BY <1>4 DEF SubmitEditor, updated, listed
  <2>2. CASE i = NoProfile
    BY <1>1, <1>2, <2>1, <2>2, InvSent
  <2>3. CASE i # NoProfile
    <3>1. i \in OptionalId
      BY <1>1, <2>1 DEF Candidates, OptionalId
    <3>4. Carries(updated(i), "update", "none")
      BY <1>1, <3>1, SavingCalls DEF updated
    <3>5. SendCall(s, updated(i)) /\ profileBusy' = [profileBusy EXCEPT !.saving = TRUE]
          /\ UNCHANGED editor
      BY <2>1, <2>3
    <3>6. CallsCarry' /\ FlagsHeld' /\ profileCalls' \in [ProfileSlots -> ProfileCalls]
      BY <3>4, <3>5, FlagsSent DEF ProfilesInv, ProfilesTypeOK
    <3>7. ProfilesTypeOK'
      <4>1. profileBusy' \in [saving : BOOLEAN, deleting : BOOLEAN, list : BOOLEAN,
                              refreshing : OptionalId]
        BY <3>5 DEF ProfilesInv, ProfilesTypeOK
      <4> QED
        BY <1>1, <3>5, <3>6, <4>1 DEF ProfilesInv, ProfilesTypeOK, store, Listed, Shown
    <3> QED
      BY <1>1, <3>5, <3>6, <3>7 DEF ProfilesInv, OneDialog
  <2> QED
    BY <2>2, <2>3
<1> QED
  BY <1>3, <1>4

LEMMA InvSending ==
    ASSUME ProfilesInv, NEW s \in ProfileSlots,
           \/ RefreshList(s) \/ ConfirmDeleteProfile(s)
           \/ \E i \in Ids : HandleRefresh(s, i)
    PROVE  ProfilesInv'
<1>1. \A i \in OptionalId :
          /\ Carries(ProfileCall("list", i), "list", "none")
          /\ Carries(ProfileCall("refresh", i), "refresh", "none")
          /\ Carries(ProfileCall("remove", i), "remove", "none")
  BY PlainCalls
<1>2. NoProfile \in OptionalId /\ Ids \subseteq OptionalId /\ profileDoomed \in OptionalId
  BY DEF OptionalId, ProfilesInv, ProfilesTypeOK
<1>3. CASE RefreshList(s)
  <2>1. /\ SendCall(s, ProfileCall("list", NoProfile))
        /\ profileBusy' = [profileBusy EXCEPT !.list = TRUE]
        /\ UNCHANGED <<store, profiles, selectedId, editor, profileDoomed>>
        /\ editor.mode = "closed"
    BY <1>3 DEF RefreshList, Uncovered
  <2> QED
    BY <1>1, <1>2, <2>1, InvSent
<1>4. CASE ConfirmDeleteProfile(s)
  <2>1. /\ SendCall(s, ProfileCall("remove", profileDoomed))
        /\ profileBusy' = [profileBusy EXCEPT !.deleting = TRUE]
        /\ UNCHANGED <<store, profiles, selectedId, editor, profileDoomed>>
        /\ editor.mode = "closed"
    BY <1>4 DEF ConfirmDeleteProfile, ProfilesInv, OneDialog
  <2> QED
    BY <1>1, <1>2, <2>1, InvSent
<1>5. ASSUME NEW i \in Ids, HandleRefresh(s, i) PROVE ProfilesInv'
  <2>1. /\ SendCall(s, ProfileCall("refresh", i))
        /\ profileBusy' = [profileBusy EXCEPT !.refreshing = i]
        /\ UNCHANGED <<store, profiles, selectedId, editor, profileDoomed>>
        /\ editor.mode = "closed"
    BY <1>5 DEF HandleRefresh, Uncovered
  <2> QED
    BY <1>1, <1>2, <2>1, InvSent
<1> QED
  BY <1>3, <1>4, <1>5

-----------------------------------------------------------------------------
(***************************************************************************)
(* The server and the answers                                              *)
(***************************************************************************)
\* An answer changes what a call carries, and neither its operation nor the
\* handler that awaits it.
LEMMA ServedCall ==
    ASSUME NEW call \in ProfileCalls, CarriesWhatItNeeds(call)
    PROVE  /\ call.op \in {"update", "remove"} =>
                 Carries([call EXCEPT !.served = TRUE], call.op, call.ends)
           /\ call.op = "create" => \A i \in Ids :
                 Carries([call EXCEPT !.served = TRUE, !.id = i], call.op, call.ends)
           /\ call.op = "list" => \A rows \in Rows :
                 Carries([call EXCEPT !.served = TRUE, !.rows = rows], call.op, call.ends)
           /\ call.op = "refresh" => \A rows \in Rows : call.id \in DOMAIN rows =>
                 Carries([call EXCEPT !.served = TRUE, !.rows = rows], call.op, call.ends)
BY DEF Carries, ProfileCalls, CarriesWhatItNeeds, Rows, OptionalId

LEMMA InvServed ==
    ASSUME ProfilesInv, NEW s \in ProfileSlots, ServeProfiles(s)
    PROVE  ProfilesInv'
<1> DEFINE call == profileCalls[s]
<1>1. /\ call \in ProfileCalls /\ CarriesWhatItNeeds(call)
      /\ StoreTyped /\ UNCHANGED profileView /\ call.op # "none"
  BY DEF ServeProfiles, ProfilesInv, ProfilesTypeOK, CallsCarry, StoreTyped
<1>2. \E c : PutCall(s, c) /\ Carries(c, call.op, call.ends)
      /\ StoreTyped'
  <2>1. CASE call.op = "list"
    <3>1. records \in Rows
      BY <1>1, RowsTyped DEF StoreTyped, Listed
    <3> QED
      BY <1>1, <2>1, <3>1, ServedCall DEF ServeProfiles, ServeList, store, StoreTyped, Listed
  <2>2. CASE call.op = "refresh"
    <3>1. PICK status \in Statuses : StoreRefresh(call.id, status)
      BY <2>2 DEF ServeProfiles, ServeRefresh
    <3>2. StoreTyped' /\ call.id \in Listed'
      BY <1>1, <3>1, RefreshTyped
    <3>3. [i \in {call.id} |-> records'[i]] \in Rows
      BY <3>2, RowsTyped DEF StoreTyped, Listed
    <3> QED
      BY <1>1, <2>2, <3>2, <3>3, ServedCall DEF ServeProfiles, ServeRefresh
  <2>3. CASE call.op = "create"
    <3>1. PICK i \in Ids : /\ StoreCreate(i, call.form)
                           /\ PutCall(s, [call EXCEPT !.served = TRUE, !.id = i])
      BY <2>3 DEF ServeProfiles, ServeChange
    <3>2. StoreTyped'
      BY <1>1, <2>3, <3>1, OperationTyped DEF CarriesWhatItNeeds
    <3> QED
      BY <1>1, <2>3, <3>1, <3>2, ServedCall
  <2>4. CASE call.op = "update"
    <3>1. StoreUpdate(call.id, call.form) /\ PutCall(s, [call EXCEPT !.served = TRUE])
      BY <2>4 DEF ServeProfiles, ServeChange
    <3>2. StoreTyped'
      BY <1>1, <2>4, <3>1, OperationTyped DEF CarriesWhatItNeeds
    <3> QED
      BY <1>1, <2>4, <3>1, <3>2, ServedCall
  <2>5. CASE call.op = "remove"
    <3>1. StoreDelete(call.id) /\ PutCall(s, [call EXCEPT !.served = TRUE])
      BY <2>5 DEF ServeProfiles, ServeChange
    <3>2. StoreTyped'
      BY <1>1, <3>1, OperationTyped
    <3> QED
      BY <1>1, <2>5, <3>1, <3>2, ServedCall
  <2> QED
    BY <1>1, <2>1, <2>2, <2>3, <2>4, <2>5 DEF ProfileCalls
<1>3. /\ profileCalls' \in [ProfileSlots -> ProfileCalls] /\ CallsCarry'
      /\ \A r \in ProfileSlots : /\ profileCalls'[r].op = profileCalls[r].op
                                 /\ profileCalls'[r].ends = profileCalls[r].ends
  BY <1>2, ProfileSlot
<1>4. ProfilesTypeOK'
  BY <1>1, <1>2, <1>3 DEF ProfilesInv, ProfilesTypeOK, StoreTyped, profileView, Shown
<1>5. FlagsHeld'
  BY <1>1, <1>3 DEF ProfilesInv, FlagsHeld, SavingHeld, DeletingHeld, profileView
<1>6. OneDialog'
  BY <1>1, <1>3 DEF ProfilesInv, OneDialog, profileView, Shown
<1> QED
  BY <1>3, <1>4, <1>5, <1>6 DEF ProfilesInv

LEMMA InvAnswered ==
    ASSUME ProfilesInv, NEW s \in ProfileSlots,
           \/ ListAnswered(s) \/ SaveAnswered(s) \/ RemoveAnswered(s) \/ RefreshAnswered(s)
           \/ ProfileCallFails(s)
    PROVE  ProfilesInv'
<1> DEFINE call == profileCalls[s]
<1>0. /\ call \in ProfileCalls /\ CarriesWhatItNeeds(call) /\ Carries(NoProfileCall, "none", "none")
      /\ profileBusy \in [saving : BOOLEAN, deleting : BOOLEAN, list : BOOLEAN,
                          refreshing : OptionalId]
      /\ Closed.mode = "closed" /\ NoProfile \in OptionalId
      /\ Closed \in [mode : {"closed", "create", "edit"},
                     form : StoreSettings \cup {NoProfile}]
  BY NoProfileCallTyped DEF ProfilesInv, ProfilesTypeOK, CallsCarry, Carries, Closed, OptionalId
\* The handlers that end here take their flags down.
<1>1. ASSUME profileBusy' = Over(profileBusy, call), PutCall(s, NoProfileCall)
      PROVE  /\ CallsCarry' /\ FlagsHeld' /\ profileCalls' \in [ProfileSlots -> ProfileCalls]
             /\ profileBusy' \in [saving : BOOLEAN, deleting : BOOLEAN, list : BOOLEAN,
                                  refreshing : OptionalId]
             /\ \A r \in ProfileSlots : profileCalls'[r].op \in {profileCalls[r].op, "none"}
  <2>1. /\ CallsCarry' /\ profileCalls' \in [ProfileSlots -> ProfileCalls]
        /\ profileCalls'[s].op = "none"
        /\ \A r \in ProfileSlots : r # s => profileCalls'[r] = profileCalls[r]
    BY <1>0, <1>1, ProfileSlot
  <2>2. /\ profileBusy' \in [saving : BOOLEAN, deleting : BOOLEAN, list : BOOLEAN,
                             refreshing : OptionalId]
        /\ profileBusy'.saving => profileBusy.saving /\ ~SavingHeld(s)
        /\ profileBusy'.deleting => profileBusy.deleting /\ ~DeletingHeld(s)
        /\ profileBusy'.list => profileBusy.list /\ call.op # "list"
        /\ profileBusy'.refreshing # NoProfile =>
              profileBusy.refreshing # NoProfile /\ call.op # "refresh"
    BY <1>0, <1>1 DEF Over, SavingHeld, DeletingHeld
  <2>3. FlagsHeld'
    BY <2>1, <2>2 DEF ProfilesInv, FlagsHeld, SavingHeld, DeletingHeld
  <2> QED
    BY <2>1, <2>2, <2>3
\* The handlers that go on to load the list keep theirs.
<1>2. ASSUME NEW ends \in {"saving", "deleting"}, Reloads(s, ends),
             \/ /\ ends = "saving" /\ call.op \in {"create", "update"}
                /\ profileBusy' = [profileBusy EXCEPT !.saving = FALSE, !.list = TRUE]
             \/ /\ ends = "deleting" /\ call.op = "remove"
                /\ profileBusy' = [profileBusy EXCEPT !.list = TRUE]
      PROVE  /\ CallsCarry' /\ FlagsHeld' /\ profileCalls' \in [ProfileSlots -> ProfileCalls]
             /\ profileBusy' \in [saving : BOOLEAN, deleting : BOOLEAN, list : BOOLEAN,
                                  refreshing : OptionalId]
  <2>1. /\ CallsCarry' /\ profileCalls' \in [ProfileSlots -> ProfileCalls]
        /\ profileCalls'[s].op = "list" /\ profileCalls'[s].ends = ends
        /\ \A r \in ProfileSlots : r # s => profileCalls'[r] = profileCalls[r]
    <3>1. Carries([ProfileCall("list", NoProfile) EXCEPT !.ends = ends], "list", ends)
      BY <1>0, PlainCalls
    <3>2. PutCall(s, [ProfileCall("list", NoProfile) EXCEPT !.ends = ends])
      BY <1>2 DEF Reloads
    <3> QED
      BY <3>1, <3>2, ProfileSlot
  <2>2. /\ profileBusy' \in [saving : BOOLEAN, deleting : BOOLEAN, list : BOOLEAN,
                             refreshing : OptionalId]
        /\ profileBusy'.deleting = profileBusy.deleting
        /\ profileBusy'.refreshing = profileBusy.refreshing
        /\ profileBusy'.saving => ends = "deleting" /\ profileBusy.saving
    BY <1>0, <1>2
  <2>3. call.ends = "none"
    BY <1>0, <1>2 DEF CarriesWhatItNeeds
  <2>4. FlagsHeld'
    BY <1>2, <2>1, <2>2, <2>3 DEF ProfilesInv, FlagsHeld, SavingHeld, DeletingHeld
  <2> QED
    BY <2>1, <2>2, <2>4
<1>3. CASE ListAnswered(s)
  <2>1. /\ call.op = "list" /\ UNCHANGED <<store, editor, profileDoomed>>
        /\ profiles' = call.rows
        /\ profileBusy' = Over(profileBusy, call) /\ PutCall(s, NoProfileCall)
    BY <1>3 DEF ListAnswered, Answered
  <2>2. call.rows \in Rows
    BY <1>0 DEF ProfileCalls, Rows
  <2>3. Shown' \subseteq Ids /\ profiles' \in [Shown' -> Entries]
    BY <2>1, <2>2, RowsTyped DEF Shown
  <2>4. selectedId' \in OptionalId
    BY <1>3, <2>1, <2>3 DEF ListAnswered, ProfilesInv, ProfilesTypeOK, OptionalId, Shown
  <2>5. ProfilesTypeOK'
    BY <1>1, <2>1, <2>3, <2>4 DEF ProfilesInv, ProfilesTypeOK, store, Listed
  <2>6. OneDialog'
    BY <2>1 DEF ProfilesInv, OneDialog
  <2> QED
    BY <1>1, <2>1, <2>5, <2>6 DEF ProfilesInv
<1>4. CASE SaveAnswered(s)
  <2>1. /\ call.op \in {"create", "update"} /\ UNCHANGED <<store, profiles, profileDoomed>>
        /\ selectedId' = call.id /\ editor' = Closed
        /\ profileBusy' = [profileBusy EXCEPT !.saving = FALSE, !.list = TRUE]
        /\ Reloads(s, "saving")
    BY <1>4 DEF SaveAnswered, Answered
  <2>2. call.id \in OptionalId
    BY <1>0 DEF ProfileCalls
  <2>3. ProfilesTypeOK'
    BY <1>0, <1>2, <2>1, <2>2 DEF ProfilesInv, ProfilesTypeOK, store, Listed, Shown
  <2>4. OneDialog'
    BY <1>0, <2>1 DEF OneDialog
  <2> QED
    BY <1>2, <2>1, <2>3, <2>4 DEF ProfilesInv
<1>5. CASE RemoveAnswered(s)
  <2>1. /\ call.op = "remove" /\ UNCHANGED <<store, profiles, selectedId, editor>>
        /\ profileDoomed' = NoProfile
        /\ profileBusy' = [profileBusy EXCEPT !.list = TRUE]
        /\ Reloads(s, "deleting")
    BY <1>5 DEF RemoveAnswered, Answered
  <2>2. ProfilesTypeOK'
    BY <1>0, <1>2, <2>1 DEF ProfilesInv, ProfilesTypeOK, store, Listed, Shown
  <2>3. OneDialog'
    BY <2>1 DEF ProfilesInv, OneDialog
  <2> QED
    BY <1>2, <2>1, <2>2, <2>3 DEF ProfilesInv
<1>6. CASE RefreshAnswered(s)
  <2>1. /\ call.op = "refresh" /\ call.served /\ UNCHANGED <<store, editor, profileDoomed>>
        /\ profiles' = [i \in Shown |-> IF i = call.id THEN call.rows[i] ELSE profiles[i]]
        /\ selectedId' = call.id
        /\ profileBusy' = Over(profileBusy, call) /\ PutCall(s, NoProfileCall)
    BY <1>6 DEF RefreshAnswered, Answered
  <2>2. call.rows \in Rows /\ call.id \in OptionalId /\ call.id \in DOMAIN call.rows
    BY <1>0, <2>1 DEF ProfileCalls, Rows, CarriesWhatItNeeds
  <2>3. call.rows[call.id] \in Entries
    BY <2>2, RowsTyped
  <2>4. Shown' = Shown /\ profiles' \in [Shown -> Entries]
    BY <2>1, <2>3 DEF ProfilesInv, ProfilesTypeOK, Shown
  <2>5. ProfilesTypeOK'
    BY <1>1, <2>1, <2>2, <2>4 DEF ProfilesInv, ProfilesTypeOK, store, Listed
  <2>6. OneDialog'
    BY <2>1 DEF ProfilesInv, OneDialog
  <2> QED
    BY <1>1, <2>1, <2>5, <2>6 DEF ProfilesInv
<1>7. CASE ProfileCallFails(s)
  <2>1. /\ UNCHANGED <<store, profiles, selectedId, editor, profileDoomed>>
        /\ profileBusy' = Over(profileBusy, call) /\ PutCall(s, NoProfileCall)
    BY <1>7 DEF ProfileCallFails
  <2>2. ProfilesTypeOK'
    BY <1>1, <2>1 DEF ProfilesInv, ProfilesTypeOK, store, Listed, Shown
  <2>3. OneDialog'
    BY <1>1, <2>1 DEF ProfilesInv, OneDialog, Shown
  <2> QED
    BY <1>1, <2>1, <2>2, <2>3 DEF ProfilesInv
<1> QED
  BY <1>3, <1>4, <1>5, <1>6, <1>7

-----------------------------------------------------------------------------
\* What the server lists when the page is opened is of the types it promises.
LEMMA ProfilesStart ==
    ASSUME ProfilesInit
    PROVE  ProfilesInv
<1>1. /\ Listed \subseteq Ids /\ records \in [Listed -> Entries] /\ readable \in BOOLEAN
      /\ Shown \subseteq Ids /\ profiles \in [Shown -> Entries]
  BY DEF ProfilesInit, Listed, Shown
<1>2. /\ Closed.mode = "closed" /\ NoProfile \in OptionalId
      /\ Closed \in [mode : {"closed", "create", "edit"},
                     form : StoreSettings \cup {NoProfile}]
  BY DEF Closed, OptionalId
<1>3. ProfilesTypeOK
  BY <1>1, <1>2, NoProfileCallTyped DEF ProfilesInit, ProfilesTypeOK, OptionalId
<1> QED
  BY <1>2, <1>3, NoProfileCallTyped
     DEF ProfilesInit, ProfilesInv, CallsCarry, OneDialog, FlagsHeld

LEMMA ProfilesStep == ProfilesInv /\ [ProfilesNext]_profileVars => ProfilesInv'
<1> SUFFICES ASSUME ProfilesInv, [ProfilesNext]_profileVars PROVE ProfilesInv'
  OBVIOUS
<1>1. CASE ElsewhereProfiles
  <2>1. StoreTyped'
    BY <1>1, StoreNextTyped DEF ElsewhereProfiles, ProfilesInv, ProfilesTypeOK, StoreTyped
  <2>2. UNCHANGED <<profileView, profileCalls>>
    BY <1>1 DEF ElsewhereProfiles
  <2> QED
    BY <2>1, <2>2 DEF ProfilesInv, ProfilesTypeOK, StoreTyped, profileView, CallsCarry, OneDialog,
                      FlagsHeld, SavingHeld, DeletingHeld, Shown
<1>2. CASE UNCHANGED profileVars
  BY <1>2 DEF profileVars, profileView, store, ProfilesInv, ProfilesTypeOK, CallsCarry, OneDialog,
              FlagsHeld, SavingHeld, DeletingHeld, Listed, Shown
<1> QED
  BY <1>1, <1>2, InvDialogs, InvSubmit, InvSending, InvServed, InvAnswered DEF ProfilesNext

-----------------------------------------------------------------------------
LEMMA ProfilesInvariant == ProfilesSpec => []ProfilesInv
BY ProfilesStart, ProfilesStep, PTL DEF ProfilesSpec

\* Every variable of the page keeps its type.
THEOREM ProfilesTypes == ProfilesSpec => []ProfilesTypeOK
BY ProfilesInvariant, PTL DEF ProfilesInv

\* No button of the page stays disabled once its calls are over, whatever
\* failed or was closed early.
THEOREM ProfilesAreReleased == ProfilesSpec => []ProfilesComeToRest
<1>1. ProfilesInv => ProfilesComeToRest
  <2> SUFFICES ASSUME ProfilesInv, ProfilesQuiet PROVE ProfilesComeToRest
    BY DEF ProfilesComeToRest
  <2>1. \A s \in ProfileSlots : profileCalls[s].op = "none" /\ profileCalls[s].ends = "none"
    BY DEF ProfilesInv, CallsCarry, CarriesWhatItNeeds, ProfilesQuiet
  <2> QED
    BY <2>1 DEF ProfilesInv, FlagsHeld, SavingHeld, DeletingHeld, ProfilesComeToRest
<1> QED
  BY <1>1, ProfilesInvariant, PTL

-----------------------------------------------------------------------------
(***************************************************************************)
(* The configuration editor: a save that the core is yet to be restarted   *)
(* on has a call under way that will restart it.  What is saved is not     *)
(* looked at, nor how many tabs there are: of a call it is enough that it  *)
(* has its fields.                                                         *)
(***************************************************************************)
IsCall(call) ==
    call \in [op : {call.op}, served : {call.served}, file : {call.file}, content : {call.content},
              known : {call.known}, apply : {call.apply}, todo : {call.todo}]

\* The restart is due to the call: its handler has the flag, or is about to set
\* it on the answer, or is at the restart.
Restarts(call) ==
    \/ call.op \in {"check", "put"} /\ call.apply
    \/ call.op = "put" /\ call.served /\ IsConfig(call.file) /\ Name(call.file) = call.known
    \/ call.op = "restart"

EditorCallsShaped ==
    /\ editorCalls = [s \in Slots |-> editorCalls[s]]
    /\ \A s \in Slots : IsCall(editorCalls[s])

RestartsAreDue == unapplied => \E s \in Slots : Restarts(editorCalls[s])

EditorInv == EditorCallsShaped /\ RestartsAreDue

LEMMA NoCallShaped == IsCall(NoCall) /\ NoCall.op = "none"
BY DEF IsCall, NoCall

LEMMA BeginShaped ==
    ASSUME NEW call, IsCall(call), NEW d
    PROVE  /\ IsCall(Begin(call, d)) /\ Begin(call, d).op \in {"check", "put"}
           /\ Begin(call, d).apply = call.apply
BY DEF IsCall, Begin

\* A save goes on until the restart that is due to it.
LEMMA OnwardShaped ==
    ASSUME NEW call, IsCall(call)
    PROVE  IsCall(Onward(call)) /\ (call.apply => Restarts(Onward(call)))
<1>1. CASE call.todo # <<>>
  <2> DEFINE rest == [call EXCEPT !.todo = Tail(@)]
  <2>1. IsCall(rest) /\ rest.apply = call.apply
    BY DEF IsCall
  <2>2. Onward(call) = Begin(rest, Head(call.todo))
    BY <1>1 DEF Onward
  <2> HIDE DEF rest
  <2>3. /\ IsCall(Onward(call)) /\ Onward(call).op \in {"check", "put"}
        /\ Onward(call).apply = call.apply
    BY <2>1, <2>2, BeginShaped
  <2> QED
    BY <2>3 DEF Restarts
<1>2. CASE call.todo = <<>>
  <2> DEFINE last == [NoCall EXCEPT !.op = "restart"]
  <2>1. IsCall(last) /\ last.op = "restart"
    BY DEF IsCall, NoCall
  <2>2. Onward(call) = IF call.apply THEN last ELSE NoCall
    BY <1>2 DEF Onward
  <2> HIDE DEF last
  <2> QED
    BY <2>1, <2>2, NoCallShaped DEF Restarts
<1> QED
  BY <1>1, <1>2

-----------------------------------------------------------------------------
(***************************************************************************)
(* A step puts one call into a slot, and loses no restart that is due to   *)
(* the call before it.                                                     *)
(***************************************************************************)
LEMMA RestartKept ==
    ASSUME EditorInv, NEW s \in Slots, NEW call, Set(s, call), IsCall(call),
           unapplied' => \/ unapplied /\ (Restarts(editorCalls[s]) => Restarts(call))
                         \/ Restarts(call)
    PROVE  EditorInv'
<1>1. /\ editorCalls = [r \in Slots |-> editorCalls[r]]
      /\ editorCalls' = [editorCalls EXCEPT ![s] = call]
  BY DEF EditorInv, EditorCallsShaped, Set
<1>2. /\ editorCalls' = [r \in Slots |-> editorCalls'[r]] /\ editorCalls'[s] = call
      /\ \A r \in Slots : r # s => editorCalls'[r] = editorCalls[r]
  BY <1>1
<1>3. EditorCallsShaped'
  BY <1>2 DEF EditorInv, EditorCallsShaped
<1>4. RestartsAreDue'
  BY <1>2 DEF EditorInv, RestartsAreDue
<1> QED
  BY <1>3, <1>4 DEF EditorInv

\* Of the same, when the slot's call is no save.
LEMMA NoSaveStep ==
    ASSUME EditorInv, NEW s \in Slots, editorCalls[s].op \notin {"check", "put", "restart"},
           NEW call, Set(s, call), IsCall(call), unapplied' => unapplied
    PROVE  EditorInv'
BY RestartKept DEF Restarts

LEMMA NoCallStep ==
    ASSUME EditorInv, UNCHANGED editorCalls, unapplied' => unapplied
    PROVE  EditorInv'
BY DEF EditorInv, EditorCallsShaped, RestartsAreDue

LEMMA EditorTabsStep ==
    ASSUME EditorInv,
           \/ \E n \in TabNames : SelectTab(n) \/ CloseTab(n)
           \/ \E n \in Configs : AskDelete(n)
           \/ \E c \in Contents : EditTab(c)
           \/ RevertCurrent \/ CloseDialog \/ OtherWindow \/ UNCHANGED editorVars
    PROVE  EditorInv'
<1>1. UNCHANGED editorCalls
  BY DEF SelectTab, CloseTab, AskDelete, EditTab, RevertCurrent, CloseDialog, OtherWindow, editorVars
<1>2. unapplied' = unapplied \/ unapplied' = FALSE
  BY DEF SelectTab, CloseTab, AskDelete, EditTab, RevertCurrent, CloseDialog, OtherWindow, editorVars, server
<1> QED
  BY <1>1, <1>2, NoCallStep

LEMMA EditorSendStep ==
    ASSUME EditorInv, NEW s \in Slots,
           \/ LoadFiles(s) \/ HandleValidate(s) \/ DebouncedValidate(s) \/ HandleAutoFix(s)
           \/ ApplyAutoFix(s) \/ HandleSave(s) \/ HandleSaveAll(s) \/ ConfirmDelete(s)
           \/ \E f \in Files : OpenFile(s, f)
           \/ \E n \in Configs : HandleSetActive(s, n) \/ HandleCreateFile(s, n)
    PROVE  EditorInv'
<1>0. UNCHANGED unapplied
  BY DEF LoadFiles, HandleValidate, DebouncedValidate, HandleAutoFix, ApplyAutoFix, HandleSave,
         HandleSaveAll, ConfirmDelete, OpenFile, HandleSetActive, HandleCreateFile, server
<1>1. ASSUME NEW op, NEW f, NEW c, Send(s, op, f, c) PROVE EditorInv'
  <2> DEFINE call == [NoCall EXCEPT !.op = op, !.file = f, !.content = c]
  <2>1. editorCalls[s].op = "none" /\ Set(s, call)
    BY <1>1 DEF Send, Under
  <2>2. IsCall(call)
    BY DEF IsCall, NoCall
  <2> HIDE DEF call
  <2> QED
    BY <1>0, <2>1, <2>2, NoSaveStep
<1>2. CASE LoadFiles(s)
  BY <1>1, <1>2 DEF LoadFiles
<1>3. CASE HandleValidate(s) \/ DebouncedValidate(s) \/ HandleAutoFix(s) \/ ApplyAutoFix(s)
  BY <1>1, <1>3, Zenon DEF HandleValidate, DebouncedValidate, HandleAutoFix, ApplyAutoFix
<1>4. CASE HandleSave(s)
  <2> DEFINE t == activeFile
             call == [NoCall EXCEPT !.known = activeConfig]
             put == [Begin(call, Draft(t)) EXCEPT !.op = "put"]
  <2>1. IsCall(call)
    BY DEF IsCall, NoCall
  <2>2. editorCalls[s].op = "none" /\ \E c \in {Begin(call, Draft(t)), put, NoCall} : Set(s, c)
    BY <1>4 DEF HandleSave, Under
  <2> HIDE DEF call, t
  <2>3. IsCall(Begin(call, Draft(t))) /\ IsCall(put)
    BY <2>1, BeginShaped DEF IsCall
  <2> HIDE DEF put
  <2> QED
    BY <1>0, <2>2, <2>3, NoCallShaped, NoSaveStep
<1>5. CASE HandleSaveAll(s)
  <2> DEFINE dirtyTabs == Kept({i \in DOMAIN tabs : tabs[i].dirty})
             drafts == [k \in DOMAIN dirtyTabs |-> Draft(dirtyTabs[k])]
             call == [NoCall EXCEPT !.known = activeConfig, !.todo = drafts]
  <2>1. editorCalls[s].op = "none" /\ Set(s, Onward(call))
    BY <1>5 DEF HandleSaveAll, Under
  <2> HIDE DEF drafts
  <2>2. IsCall(call)
    BY DEF IsCall, NoCall
  <2> HIDE DEF call
  <2>3. IsCall(Onward(call))
    BY <2>2, OnwardShaped
  <2> QED
    BY <1>0, <2>1, <2>3, NoSaveStep
<1>6. CASE ConfirmDelete(s)
  <2> DEFINE f == <<"config", deleteTarget>>
             viewed == (activeTab = deleteTarget)
             call == [NoCall EXCEPT !.op = "delete", !.file = f, !.apply = viewed]
  <2>1. editorCalls[s].op = "none" /\ Set(s, call)
    BY <1>6 DEF ConfirmDelete, Under
  <2> HIDE DEF f, viewed
  <2>2. IsCall(call)
    BY DEF IsCall, NoCall
  <2> HIDE DEF call
  <2> QED
    BY <1>0, <2>1, <2>2, NoSaveStep
<1>7. ASSUME NEW f \in Files, OpenFile(s, f) PROVE EditorInv'
  <2>1. Send(s, "open", f, None) \/ UNCHANGED editorCalls
    BY <1>7 DEF OpenFile
  <2> QED
    BY <1>0, <1>1, <2>1, NoCallStep
<1>8. ASSUME NEW n \in Configs, HandleSetActive(s, n) PROVE EditorInv'
  BY <1>1, <1>8 DEF HandleSetActive
<1>9. ASSUME NEW n \in Configs, HandleCreateFile(s, n) PROVE EditorInv'
  <2> DEFINE f == <<"config", n>>
             open == IsOpen(n)
             call == [NoCall EXCEPT !.op = "create", !.file = f, !.apply = open]
  <2>1. editorCalls[s].op = "none" /\ Set(s, call)
    BY <1>9 DEF HandleCreateFile, Under
  <2> HIDE DEF f, open
  <2>2. IsCall(call)
    BY DEF IsCall, NoCall
  <2> HIDE DEF call
  <2> QED
    BY <1>0, <2>1, <2>2, NoSaveStep
<1> QED
  BY <1>2, <1>3, <1>4, <1>5, <1>6, <1>7, <1>8, <1>9

\* The server, but for a save.
LEMMA EditorServeStep ==
    ASSUME EditorInv, NEW s \in Slots,
           ServeLoad(s) \/ ServeOpen(s) \/ ServeActivate(s) \/ ServeCreate(s) \/ ServeDelete(s)
    PROVE  EditorInv'
<1> DEFINE old == editorCalls[s]
<1>1. IsCall(old)
  BY DEF EditorInv, EditorCallsShaped
<1>2. /\ old.op \in {"load", "open", "activate", "create", "delete"}
      /\ unapplied' = unapplied \/ unapplied' = FALSE
  BY DEF ServeLoad, ServeOpen, ServeActivate, ServeCreate, ServeDelete, Serve, Under, server
<1>3. \/ Set(s, [old EXCEPT !.served = TRUE, !.known = active])
      \/ Set(s, [old EXCEPT !.served = TRUE, !.content = disk[old.file]])
      \/ Set(s, [old EXCEPT !.served = TRUE])
  BY DEF ServeLoad, ServeOpen, ServeActivate, ServeCreate, ServeDelete
<1>4. /\ IsCall([old EXCEPT !.served = TRUE, !.known = active])
      /\ IsCall([old EXCEPT !.served = TRUE, !.content = disk[old.file]])
      /\ IsCall([old EXCEPT !.served = TRUE])
  BY <1>1 DEF IsCall
<1>5. \E call : Set(s, call) /\ IsCall(call)
  BY <1>3, <1>4, Zenon
<1> QED
  BY <1>2, <1>5, NoSaveStep

LEMMA EditorAnswerStep ==
    ASSUME EditorInv, NEW s \in Slots,
           \/ ValidateAnswered(s) \/ AutoFixAnswered(s) \/ LoadAnswered(s) \/ OpenAnswered(s)
           \/ ActivateAnswered(s) \/ CreateAnswered(s) \/ DeleteAnswered(s) \/ CallRefused(s)
    PROVE  EditorInv'
<1> DEFINE opened == [NoCall EXCEPT !.op = "open", !.file = editorCalls[s].file]
<1>1. /\ editorCalls[s].op \notin {"check", "put", "restart"}
      /\ UNCHANGED unapplied
  BY DEF ValidateAnswered, AutoFixAnswered, LoadAnswered, OpenAnswered, ActivateAnswered, CreateAnswered,
         DeleteAnswered, CallRefused, Answer, Serve, Under, server
<1>2. Set(s, NoCall) \/ Set(s, opened)
  BY DEF ValidateAnswered, AutoFixAnswered, LoadAnswered, OpenAnswered, ActivateAnswered, CreateAnswered,
         DeleteAnswered, CallRefused
<1>3. IsCall(opened)
  BY DEF IsCall, NoCall
<1> HIDE DEF opened
<1> QED
  BY <1>1, <1>2, <1>3, NoCallShaped, NoSaveStep

(***************************************************************************)
(* A save: the server sets unapplied only when the page will see that the  *)
(* file is the one it knows to be active; the flag is handed on from tab   *)
(* to tab, and the last one restarts the core.                             *)
(***************************************************************************)
LEMMA EditorSaveStep ==
    ASSUME EditorInv, NEW s \in Slots,
           \/ CheckAnswered(s) \/ ServePut(s) \/ PutAnswered(s) \/ PutRefused(s)
           \/ RestartAnswered(s) \/ CallFails(s)
    PROVE  EditorInv'
<1> DEFINE old == editorCalls[s]
<1>0. IsCall(old) /\ IsCall(Onward(old)) /\ (old.apply => Restarts(Onward(old)))
  <2>1. IsCall(old)
    BY DEF EditorInv, EditorCallsShaped
  <2> QED
    BY <2>1, OnwardShaped
<1>1. CASE CheckAnswered(s)
  <2> DEFINE put == [old EXCEPT !.op = "put"]
  <2>1. /\ old.op = "check" /\ UNCHANGED unapplied
        /\ Set(s, put) \/ Set(s, Onward(old))
    BY <1>1 DEF CheckAnswered, Under, server
  <2>2. IsCall(put) /\ put.op = "put" /\ put.apply = old.apply
    BY <1>0 DEF IsCall
  <2> HIDE DEF put
  <2>3. Restarts(old) => old.apply
    BY <2>1 DEF Restarts
  <2>4. old.apply => Restarts(put)
    BY <2>2 DEF Restarts
  <2> QED
    BY <1>0, <2>1, <2>2, <2>3, <2>4, RestartKept
<1>2. CASE ServePut(s)
  <2> DEFINE call == [old EXCEPT !.served = TRUE]
  <2>1. /\ old.op = "put" /\ Set(s, call)
        /\ unapplied' = (unapplied \/ (IsConfig(old.file) /\ Name(old.file) = active /\ old.known = active))
    BY <1>2 DEF ServePut, Under
  <2>2. /\ IsCall(call) /\ call.op = "put" /\ call.served /\ call.apply = old.apply
        /\ call.file = old.file /\ call.known = old.known
    BY <1>0, <2>1 DEF IsCall
  <2> HIDE DEF call
  <2>3. Restarts(old) => Restarts(call)
    BY <2>1, <2>2 DEF Restarts
  <2>4. IsConfig(old.file) /\ Name(old.file) = active /\ old.known = active => Restarts(call)
    BY <2>1, <2>2 DEF Restarts
  <2> QED
    BY <2>1, <2>2, <2>3, <2>4, RestartKept
<1>3. CASE PutAnswered(s)
  <2> DEFINE due == old.apply \/ (IsConfig(old.file) /\ Name(old.file) = old.known)
             call == [old EXCEPT !.apply = due]
  <2>1. old.op = "put" /\ Set(s, Onward(call)) /\ UNCHANGED unapplied
    BY <1>3 DEF PutAnswered, Under, server
  <2>2. Restarts(old) => due
    BY <2>1 DEF Restarts
  <2> HIDE DEF due
  <2>3. IsCall(call) /\ call.apply = due
    BY <1>0 DEF IsCall
  <2> HIDE DEF call
  <2>4. IsCall(Onward(call)) /\ (call.apply => Restarts(Onward(call)))
    BY <2>3, OnwardShaped
  <2> QED
    BY <2>1, <2>2, <2>3, <2>4, RestartKept
<1>4. CASE PutRefused(s)
  <2>1. old.op = "put" /\ ~old.served /\ Set(s, Onward(old)) /\ UNCHANGED unapplied
    BY <1>4 DEF PutRefused, Under, server
  <2>2. Restarts(old) => old.apply
    BY <2>1 DEF Restarts
  <2> QED
    BY <1>0, <2>1, <2>2, RestartKept
<1>5. CASE RestartAnswered(s)
  <2>1. unapplied' = FALSE /\ Set(s, NoCall)
    BY <1>5 DEF RestartAnswered
  <2> QED
    BY <2>1, NoCallShaped, RestartKept
<1>6. CASE CallFails(s)
  <2>1. /\ old.op # "none" /\ unapplied' = (unapplied /\ old.op \notin {"put", "restart"})
        /\ Set(s, IF old.op \in {"check", "put"} THEN Onward(old) ELSE NoCall)
    BY <1>6 DEF CallFails, Under
  <2>2. CASE old.op \in {"put", "restart"}
    <3>1. ~unapplied' /\ (Set(s, Onward(old)) \/ Set(s, NoCall))
      BY <2>1, <2>2
    <3> QED
      BY <1>0, <3>1, NoCallShaped, RestartKept
  <2>3. CASE old.op = "check"
    <3>1. Set(s, Onward(old)) /\ (unapplied' => unapplied) /\ (Restarts(old) => old.apply)
      BY <2>1, <2>3 DEF Restarts
    <3> QED
      BY <1>0, <3>1, RestartKept
  <2>4. CASE old.op \notin {"check", "put", "restart"}
    <3>1. Set(s, NoCall) /\ (unapplied' => unapplied)
      BY <2>1, <2>4
    <3> QED
      BY <2>4, <3>1, NoCallShaped, NoSaveStep
  <2> QED
    BY <2>2, <2>3, <2>4
<1> QED
  BY <1>1, <1>2, <1>3, <1>4, <1>5, <1>6

-----------------------------------------------------------------------------
LEMMA EditorStart == EditorInit => EditorInv
<1> SUFFICES ASSUME EditorInit PROVE EditorInv
  OBVIOUS
<1>1. editorCalls = [s \in Slots |-> NoCall] /\ unapplied = FALSE
  BY DEF EditorInit
<1>2. \A s \in Slots : editorCalls[s] = NoCall
  BY <1>1
<1> QED
  BY <1>1, <1>2, NoCallShaped DEF EditorInv, EditorCallsShaped, RestartsAreDue

LEMMA EditorStep == EditorInv /\ [EditorNext]_editorVars => EditorInv'
<1> SUFFICES ASSUME EditorInv, [EditorNext]_editorVars PROVE EditorInv'
  OBVIOUS
<1>1. CASE \/ \E n \in TabNames : SelectTab(n) \/ CloseTab(n)
           \/ \E n \in Configs : AskDelete(n)
           \/ \E c \in Contents : EditTab(c)
           \/ RevertCurrent \/ CloseDialog \/ OtherWindow \/ UNCHANGED editorVars
  BY <1>1, EditorTabsStep
<1>2. ASSUME NEW s \in Slots,
             \/ LoadFiles(s) \/ HandleValidate(s) \/ DebouncedValidate(s) \/ HandleAutoFix(s)
             \/ ApplyAutoFix(s) \/ HandleSave(s) \/ HandleSaveAll(s) \/ ConfirmDelete(s)
             \/ \E f \in Files : OpenFile(s, f)
             \/ \E n \in Configs : HandleSetActive(s, n) \/ HandleCreateFile(s, n)
      PROVE  EditorInv'
  BY <1>2, EditorSendStep
<1>3. ASSUME NEW s \in Slots,
             ServeLoad(s) \/ ServeOpen(s) \/ ServeActivate(s) \/ ServeCreate(s) \/ ServeDelete(s)
      PROVE  EditorInv'
  BY <1>3, EditorServeStep
<1>4. ASSUME NEW s \in Slots,
             \/ ValidateAnswered(s) \/ AutoFixAnswered(s) \/ LoadAnswered(s) \/ OpenAnswered(s)
             \/ ActivateAnswered(s) \/ CreateAnswered(s) \/ DeleteAnswered(s) \/ CallRefused(s)
      PROVE  EditorInv'
  BY <1>4, EditorAnswerStep
<1>5. ASSUME NEW s \in Slots,
             \/ CheckAnswered(s) \/ ServePut(s) \/ PutAnswered(s) \/ PutRefused(s)
             \/ RestartAnswered(s) \/ CallFails(s)
      PROVE  EditorInv'
  BY <1>5, EditorSaveStep
<1> QED
  BY <1>1, <1>2, <1>3, <1>4, <1>5 DEF EditorNext

LEMMA EditorShows == EditorInv => SavesAreApplied
BY DEF EditorInv, RestartsAreDue, Restarts, SavesAreApplied, Under

(***************************************************************************)
(* Once the Config page has stored the config that it knows the core to    *)
(* run, it restarts the core before it comes to rest (page.tsx, saveTab    *)
(* and saveAll), however many tabs are saved and whichever of them fail.   *)
(***************************************************************************)
THEOREM SavesReachTheCore == EditorSpec => []SavesAreApplied
BY EditorStart, EditorStep, EditorShows, PTL DEF EditorSpec

-----------------------------------------------------------------------------
(***************************************************************************)
(* The tabs and what is sent of them.  A call has the file and the text    *)
(* that its handler needs; what is read or stored is marked, and so is     *)
(* what the answer of a save finds in a tab.                               *)
(***************************************************************************)
\* What a tab of file f may hold without the mark of unsaved changes.
Marked == [f \in Files |-> held[f] \cup unsent[f]]

SoundCall(call, h) ==
    /\ call.op \notin {"none", "load", "restart"} => call.file \in Files
    /\ call.op \in {"check", "activate", "create", "delete"} => IsConfig(call.file)
    /\ call.op \in {"validate", "check", "put", "fix"} => call.content \in Contents
    /\ call.op \in {"open", "put"} /\ call.served => call.content \in h[call.file]
    /\ call.op = "check" => ~call.served

CleanTab(t, h) == t.savedContent \in h[t.file] /\ (~t.dirty => t.content \in h[t.file])

\* What is about to be put has been accepted, or was not changed in its tab.
GuardedPut(call, h) ==
    call.op = "put" /\ IsConfig(call.file) => call.content \in Accepted \cup h[call.file]

EditorCallsSound ==
    \A s \in Slots : SoundCall(editorCalls[s], Marked) /\ GuardedPut(editorCalls[s], Marked)

CleanTabs == \A i \in DOMAIN tabs : CleanTab(tabs[i], Marked)

EditorSafe == EditorTypeOK /\ EditorCallsSound /\ CleanTabs

-----------------------------------------------------------------------------
(***************************************************************************)
(* The tabs that are kept: each has its place among them, in the order     *)
(* they had.                                                               *)
(***************************************************************************)
Rank(S, i) == Cardinality({j \in S : j <= i})

Place(S, k) == CHOOSE i \in S : Rank(S, i) = k

LEMMA RankOrders ==
    ASSUME NEW n \in Nat, NEW S \in SUBSET (1..n)
    PROVE  /\ Cardinality(S) \in Nat /\ \A i \in S : i \in Nat
           /\ \A i \in S : Rank(S, i) \in 1..Cardinality(S)
           /\ \A i, j \in S : i < j => Rank(S, i) < Rank(S, j)
           /\ IsFiniteSet(S)
<1>0. \A i \in S : i \in Nat
  OBVIOUS
<1>1. IsFiniteSet(S) /\ Cardinality(S) \in Nat
  <2>1. IsFiniteSet(1..n)
    BY FS_Interval
  <2>2. IsFiniteSet(S)
    BY <2>1, FS_Subset
  <2> QED
    BY <2>2, FS_CardinalityType
<1>2. ASSUME NEW i \in S
      PROVE  /\ IsFiniteSet({j \in S : j <= i}) /\ Rank(S, i) \in 1..Cardinality(S)
  <2> DEFINE upTo == {j \in S : j <= i}
  <2>1. /\ IsFiniteSet(upTo) /\ Cardinality(upTo) <= Cardinality(S) /\ Cardinality(upTo) \in Nat
    BY <1>1, FS_Subset, FS_CardinalityType
  <2>2. i \in upTo
    OBVIOUS
  <2>3. Cardinality(upTo) # 0
    BY <2>1, <2>2, FS_EmptySet
  <2> QED
    BY <1>1, <2>1, <2>3 DEF Rank
<1>3. ASSUME NEW i \in S, NEW j \in S, i < j PROVE Rank(S, i) < Rank(S, j)
  <2> DEFINE below == {k \in S : k <= i}
             upTo == {k \in S : k <= j}
  <2>1. below \in SUBSET upTo /\ j \in upTo /\ j \notin below
    <3>1. \A k \in S : k <= i => k <= j
      BY <1>0, <1>3
    <3>2. j <= j /\ ~(j <= i)
      BY <1>0, <1>3
    <3> QED
      BY <3>1, <3>2
  <2>2. IsFiniteSet(upTo) /\ IsFiniteSet(below)
    BY <1>2
  <2>3. Cardinality(below) <= Cardinality(upTo) /\ Cardinality(below) # Cardinality(upTo)
    BY <2>1, <2>2, FS_Subset
  <2>4. Cardinality(below) \in Nat /\ Cardinality(upTo) \in Nat
    BY <2>2, FS_CardinalityType
  <2> QED
    BY <2>3, <2>4 DEF Rank
<1> QED
  BY <1>0, <1>1, <1>2, <1>3

LEMMA CountUpTo ==
    ASSUME NEW m \in Nat PROVE IsFiniteSet(1..m) /\ Cardinality(1..m) = m
<1>1. 1 \in Int /\ m \in Int /\ (1 > m => m = 0)
  OBVIOUS
<1>2. IsFiniteSet(1..m) /\ Cardinality(1..m) = IF 1 > m THEN 0 ELSE m - 1 + 1
  BY <1>1, FS_Interval
<1> QED
  BY <1>1, <1>2

LEMMA PlaceHasRank ==
    ASSUME NEW n \in Nat, NEW S \in SUBSET (1..n), NEW k \in 1..Cardinality(S)
    PROVE  Place(S, k) \in S /\ Rank(S, Place(S, k)) = k
<1> DEFINE T == 1..Cardinality(S)
           rank == [i \in S |-> Rank(S, i)]
<1>1. /\ Cardinality(S) \in Nat /\ \A i \in S : i \in Nat
      /\ \A i \in S : Rank(S, i) \in 1..Cardinality(S)
      /\ \A i, j \in S : i < j => Rank(S, i) < Rank(S, j)
      /\ IsFiniteSet(S)
  BY RankOrders
<1>2. IsFiniteSet(T) /\ Cardinality(T) = Cardinality(S)
  BY <1>1, CountUpTo
<1>3. rank \in [S -> T]
  BY <1>1
<1>4. \A i, j \in S : rank[i] = rank[j] => i = j
  <2> SUFFICES ASSUME NEW i \in S, NEW j \in S, i # j PROVE Rank(S, i) # Rank(S, j)
    OBVIOUS
  <2>1. Rank(S, i) \in Nat /\ Rank(S, j) \in Nat
    BY <1>1
  <2>2. i < j \/ j < i
    BY <1>1
  <2>3. CASE i < j
    BY <1>1, <2>1, <2>3
  <2>4. CASE j < i
    BY <1>1, <2>1, <2>4
  <2> QED
    BY <2>2, <2>3, <2>4
<1>5. rank \in Injection(S, T)
  BY <1>3, <1>4 DEF Injection, IsInjective
<1>6. rank \in Surjection(S, T)
  BY <1>2, <1>5, FS_Injection
<1>7. PICK i \in S : rank[i] = k
  BY <1>6 DEF Surjection
<1>8. \E j \in S : Rank(S, j) = k
  BY <1>7
<1> QED
  BY <1>8 DEF Place

LEMMA KeptTabs ==
    ASSUME tabs \in Seq(Tabs), NEW S \in SUBSET DOMAIN tabs
    PROVE  /\ Kept(S) \in Seq(Tabs)
           /\ \A k \in DOMAIN Kept(S) : Place(S, k) \in S /\ Kept(S)[k] = tabs[Place(S, k)]
           /\ \A k, l \in DOMAIN Kept(S) : k < l => Place(S, k) < Place(S, l)
           /\ \A i \in S : \E k \in DOMAIN Kept(S) : Place(S, k) = i
<1> DEFINE n == Len(tabs)
<1>1. n \in Nat /\ S \in SUBSET (1..n) /\ \A i \in S : i \in Nat /\ tabs[i] \in Tabs
  OBVIOUS
<1>2. /\ Cardinality(S) \in Nat
      /\ \A i \in S : Rank(S, i) \in 1..Cardinality(S)
      /\ \A i, j \in S : i < j => Rank(S, i) < Rank(S, j)
  BY <1>1, RankOrders
<1>3. Kept(S) = [k \in 1..Cardinality(S) |-> tabs[Place(S, k)]]
  BY DEF Kept, Place, Rank
<1>4. ASSUME NEW k \in 1..Cardinality(S) PROVE Place(S, k) \in S /\ Rank(S, Place(S, k)) = k
  BY <1>1, PlaceHasRank
<1>5. Kept(S) \in Seq(Tabs) /\ DOMAIN Kept(S) = 1..Cardinality(S)
  BY <1>1, <1>2, <1>3, <1>4
<1>6. ASSUME NEW k \in 1..Cardinality(S), NEW l \in 1..Cardinality(S), k < l
      PROVE  Place(S, k) < Place(S, l)
  <2> DEFINE i == Place(S, k)
             j == Place(S, l)
  <2>1. i \in S /\ j \in S /\ Rank(S, i) = k /\ Rank(S, j) = l
    BY <1>4
  <2> HIDE DEF i, j
  <2>2. i # j
    BY <1>6, <2>1
  <2>3. ~(j < i)
    BY <1>1, <1>2, <1>6, <2>1
  <2>4. i < j
    BY <1>1, <2>1, <2>2, <2>3
  <2> QED
    BY <2>4 DEF i, j
<1>7. ASSUME NEW i \in S PROVE \E k \in 1..Cardinality(S) : Place(S, k) = i
  <2> DEFINE k == Rank(S, i)
             j == Place(S, k)
  <2>1. k \in 1..Cardinality(S)
    BY <1>2
  <2>2. j \in S /\ Rank(S, j) = k
    BY <1>4, <2>1
  <2> HIDE DEF j
  <2>3. i = j
    <3>1. ~(i < j) /\ ~(j < i)
      BY <1>1, <1>2, <2>1, <2>2
    <3> QED
      BY <1>1, <2>2, <3>1
  <2> QED
    BY <2>1, <2>3 DEF j
<1> QED
  BY <1>3, <1>4, <1>5, <1>6, <1>7

LEMMA LeastOf ==
    ASSUME NEW n \in Nat, NEW S \in SUBSET (1..n), S # {}
    PROVE  \E i \in S : \A j \in S : i <= j
<1>0. /\ Cardinality(S) \in Nat /\ \A i \in S : i \in Nat
      /\ \A i \in S : Rank(S, i) \in 1..Cardinality(S)
      /\ \A i, j \in S : i < j => Rank(S, i) < Rank(S, j)
  BY RankOrders
<1>2. PICK j \in S : TRUE
  OBVIOUS
<1>3. 1 \in 1..Cardinality(S)
  <2>1. Rank(S, j) \in 1..Cardinality(S) /\ Cardinality(S) \in Nat
    BY <1>0
  <2> QED
    BY <2>1
<1> DEFINE i == Place(S, 1)
<1>4. i \in S /\ Rank(S, i) = 1
  BY <1>3, PlaceHasRank
<1> HIDE DEF i
<1>5. ASSUME NEW k \in S PROVE i <= k
  <2>1. Rank(S, k) >= 1 /\ Rank(S, k) \in Nat
    BY <1>0
  <2>2. ~(k < i)
    BY <1>0, <1>4, <2>1
  <2> QED
    BY <1>0, <1>4, <2>2
<1> QED
  BY <1>4, <1>5

LEMMA FirstIsLeast ==
    ASSUME tabs \in Seq(Tabs), NEW n, IsOpen(n)
    PROVE  First(n) \in TabsNamed(n) /\ \A j \in TabsNamed(n) : First(n) <= j
<1>1. Len(tabs) \in Nat /\ TabsNamed(n) \in SUBSET (1..Len(tabs)) /\ TabsNamed(n) # {}
  BY DEF TabsNamed, IsOpen
<1>2. \E i \in TabsNamed(n) : \A j \in TabsNamed(n) : i <= j
  BY <1>1, LeastOf
<1> QED
  BY <1>2 DEF First

\* The same of the next state.
LEMMA FirstStays ==
    ASSUME tabs' \in Seq(Tabs), NEW n, NEW p \in DOMAIN tabs', Name(tabs'[p].file) = n,
           \A i \in DOMAIN tabs' : Name(tabs'[i].file) = n => p <= i
    PROVE  IsOpen(n)' /\ First(n)' = p
<1>1. p \in TabsNamed(n)' /\ p \in Nat
  BY DEF TabsNamed
<1>2. \A i \in TabsNamed(n)' : p <= i /\ i \in Nat
  BY DEF TabsNamed
<1>3. \A i \in TabsNamed(n)' : (\A j \in TabsNamed(n)' : i <= j) => i = p
  BY <1>1, <1>2
<1> QED
  BY <1>1, <1>2, <1>3 DEF First, IsOpen

-----------------------------------------------------------------------------
(***************************************************************************)
(* A step keeps what is sound: lemmas for a step that puts one call into a *)
(* slot, for one that leaves the tabs as they are, and for one of no call. *)
(***************************************************************************)
ServerTyped ==
    /\ disk \in [Files -> Contents \cup {None}] /\ active \in Configs /\ unapplied \in BOOLEAN
    /\ held \in [Files -> SUBSET Contents] /\ unsent \in [Files -> SUBSET Contents]

PageTyped ==
    /\ activeTab \in TabNames \cup {None} /\ activeConfig \in Configs \cup {None}
    /\ validation \in [TabNames -> {"none", "valid", "invalid"}]
    /\ autoFixResult \in Contents \cup {None} /\ deleteTarget \in Configs \cup {None}

Counted == editorInputs \in 0..MaxEditorInputs /\ editorMishaps \in 0..MaxEditorMishaps

MarkedGrows == \A f \in Files : Marked[f] \subseteq Marked'[f]

LEMMA CountersStep ==
    ASSUME EditorTypeOK, Input \/ Mishap \/ NoInput
    PROVE  Counted'
BY EditorAssumption DEF EditorTypeOK, Input, Mishap, NoInput, Counted

LEMMA Typed ==
    ASSUME EditorTypeOK
    PROVE  ServerTyped /\ PageTyped /\ Counted /\ tabs \in Seq(Tabs) /\ editorCalls \in [Slots -> EditorCalls]
BY DEF EditorTypeOK, ServerTyped, PageTyped, Counted

LEMMA MarkedKept ==
    ASSUME MarkedGrows, NEW call, SoundCall(call, Marked), GuardedPut(call, Marked)
    PROVE  SoundCall(call, Marked') /\ GuardedPut(call, Marked')
<1>1. SoundCall(call, Marked')
  BY DEF MarkedGrows, SoundCall
<1>2. GuardedPut(call, Marked')
  BY DEF MarkedGrows, SoundCall, GuardedPut
<1> QED
  BY <1>1, <1>2

LEMMA MarkedStays == UNCHANGED <<held, unsent>> => UNCHANGED Marked /\ MarkedGrows
BY DEF Marked, MarkedGrows

LEMMA EditorSlot ==
    ASSUME EditorSafe, NEW s \in Slots, NEW call \in EditorCalls, Set(s, call), SoundCall(call, Marked'),
           GuardedPut(call, Marked'), ServerTyped', PageTyped', Counted', tabs' \in Seq(Tabs), MarkedGrows,
           \A i \in DOMAIN tabs' : CleanTab(tabs'[i], Marked')
    PROVE  EditorSafe'
<1>1. /\ editorCalls \in [Slots -> EditorCalls] /\ editorCalls' = [editorCalls EXCEPT ![s] = call]
  BY Typed DEF EditorSafe, Set
<1>2. /\ editorCalls' \in [Slots -> EditorCalls] /\ editorCalls'[s] = call
      /\ \A r \in Slots : r # s => editorCalls'[r] = editorCalls[r]
  BY <1>1
<1>3. EditorTypeOK'
  BY <1>2 DEF EditorTypeOK, ServerTyped, PageTyped, Counted
<1>4. ASSUME NEW r \in Slots, r # s
      PROVE  SoundCall(editorCalls[r], Marked') /\ GuardedPut(editorCalls[r], Marked')
  BY MarkedKept DEF EditorSafe, EditorCallsSound
<1>5. EditorCallsSound'
  BY <1>2, <1>4 DEF EditorCallsSound
<1>6. CleanTabs'
  BY DEF CleanTabs
<1> QED
  BY <1>3, <1>5, <1>6 DEF EditorSafe

\* The tabs stay as they are.
LEMMA EditorCallStep ==
    ASSUME EditorSafe, NEW s \in Slots, NEW call \in EditorCalls, Set(s, call), SoundCall(call, Marked'),
           GuardedPut(call, Marked'), ServerTyped', PageTyped', Counted', UNCHANGED tabs, MarkedGrows
    PROVE  EditorSafe'
<1>1. tabs' \in Seq(Tabs)
  BY DEF EditorSafe, EditorTypeOK
<1>2. \A i \in DOMAIN tabs' : CleanTab(tabs'[i], Marked')
  <2>1. \A i \in DOMAIN tabs : CleanTab(tabs[i], Marked) /\ tabs[i] \in Tabs
    BY DEF EditorSafe, EditorTypeOK, CleanTabs
  <2>2. \A i \in DOMAIN tabs : tabs[i].file \in Files
    BY <2>1 DEF Tabs
  <2> QED
    BY <2>1, <2>2 DEF CleanTab, MarkedGrows
<1> QED
  BY <1>1, <1>2, EditorSlot

\* Nothing but a call: it was sent by now, or is over.
LEMMA EditorSend ==
    ASSUME EditorSafe, NEW s \in Slots, NEW call \in EditorCalls, Set(s, call), SoundCall(call, Marked),
           GuardedPut(call, Marked), PageTyped', Input \/ NoInput \/ Mishap, UNCHANGED <<server, tabs>>
    PROVE  EditorSafe'
<1>1. ServerTyped' /\ Counted' /\ MarkedGrows /\ UNCHANGED Marked
  BY Typed, CountersStep, MarkedStays DEF EditorSafe, ServerTyped, server
<1> QED
  BY <1>1, EditorCallStep

\* No call changes.
LEMMA EditorTabs ==
    ASSUME EditorSafe, UNCHANGED <<editorCalls, held, unsent>>, ServerTyped', PageTyped', Counted',
           tabs' \in Seq(Tabs), \A i \in DOMAIN tabs' : CleanTab(tabs'[i], Marked)
    PROVE  EditorSafe'
<1>1. EditorTypeOK'
  BY DEF EditorSafe, EditorTypeOK, ServerTyped, PageTyped, Counted
<1>2. EditorCallsSound' /\ CleanTabs'
  BY MarkedStays DEF EditorSafe, EditorCallsSound, CleanTabs
<1> QED
  BY <1>1, <1>2 DEF EditorSafe

-----------------------------------------------------------------------------
(***************************************************************************)
(* The operations on tabs                                                  *)
(***************************************************************************)
LEMMA FileHasName ==
    ASSUME NEW f \in Files
    PROVE  /\ Name(f) \in TabNames /\ (IsConfig(f) => Name(f) \in Configs)
BY DEF Files, TabNames, Name, IsConfig

LEMMA ActiveIsFirst ==
    ASSUME tabs \in Seq(Tabs), HasActiveFile
    PROVE  /\ First(activeTab) \in DOMAIN tabs /\ activeFile = tabs[First(activeTab)]
           /\ activeFile \in Tabs /\ Name(activeFile.file) = activeTab
           /\ \A i \in DOMAIN tabs : Name(tabs[i].file) = activeTab => First(activeTab) <= i
<1>1. First(activeTab) \in TabsNamed(activeTab) /\ \A i \in TabsNamed(activeTab) : First(activeTab) <= i
  BY FirstIsLeast DEF HasActiveFile
<1> QED
  BY <1>1 DEF TabsNamed, activeFile

LEMMA ContentSet ==
    ASSUME tabs \in Seq(Tabs), NEW n, NEW c \in Contents
    PROVE  LET q == SetContent(n, c)
           IN  /\ q \in Seq(Tabs) /\ DOMAIN q = DOMAIN tabs
               /\ \A i \in DOMAIN tabs : IF Name(tabs[i].file) = n
                     THEN /\ q[i].file = tabs[i].file /\ q[i].content = c
                          /\ q[i].savedContent = tabs[i].savedContent
                          /\ q[i].dirty = (c # tabs[i].savedContent)
                     ELSE q[i] = tabs[i]
<1> DEFINE q == SetContent(n, c)
           Change(t) == [t EXCEPT !.content = c, !.dirty = (c # t.savedContent)]
<1>1. ASSUME NEW t \in Tabs
      PROVE  /\ Change(t) \in Tabs /\ Change(t).file = t.file /\ Change(t).content = c
             /\ Change(t).savedContent = t.savedContent /\ Change(t).dirty = (c # t.savedContent)
  <2> DEFINE b == (c # t.savedContent)
  <2>1. b \in BOOLEAN
    OBVIOUS
  <2> HIDE DEF b
  <2>2. [t EXCEPT !.content = c, !.dirty = b] \in Tabs
    BY <2>1 DEF Tabs
  <2>3. LET u == [t EXCEPT !.content = c, !.dirty = b]
        IN  u.file = t.file /\ u.content = c /\ u.savedContent = t.savedContent /\ u.dirty = b
    BY DEF Tabs
  <2> QED
    BY <2>2, <2>3 DEF b
<1>2. \A i \in DOMAIN tabs : tabs[i] \in Tabs
  OBVIOUS
<1>3. q = [i \in DOMAIN tabs |-> IF i \in TabsNamed(n) THEN Change(tabs[i]) ELSE tabs[i]]
  BY DEF SetContent, Mapped
<1> HIDE DEF q, Change
<1>4. DOMAIN tabs = 1..Len(tabs) /\ Len(tabs) \in Nat
  OBVIOUS
<1>5. q \in Seq(Tabs) /\ DOMAIN q = DOMAIN tabs
  BY <1>1, <1>2, <1>3, <1>4
<1>6. \A i \in DOMAIN tabs : i \in TabsNamed(n) <=> Name(tabs[i].file) = n
  BY DEF TabsNamed
<1>7. \A i \in DOMAIN tabs : q[i] = IF Name(tabs[i].file) = n THEN Change(tabs[i]) ELSE tabs[i]
  BY <1>3, <1>6
<1> QED
  BY <1>1, <1>2, <1>5, <1>7 DEF q

LEMMA ContentClean ==
    ASSUME tabs \in Seq(Tabs), NEW n
    PROVE  LET saved == Mapped(n, LAMBDA t : [t EXCEPT !.savedContent = t.content, !.dirty = FALSE])
               reverted == Mapped(n, LAMBDA t : [t EXCEPT !.content = t.savedContent, !.dirty = FALSE])
           IN  \A q \in {saved, reverted} :
               /\ q \in Seq(Tabs) /\ DOMAIN q = DOMAIN tabs
               /\ \A i \in DOMAIN tabs : IF Name(tabs[i].file) = n
                     THEN /\ q[i].file = tabs[i].file /\ ~q[i].dirty
                          /\ q[i].content = q[i].savedContent
                          /\ q = saved => q[i].content = tabs[i].content
                          /\ q = saved \/ q[i].content = tabs[i].savedContent
                     ELSE q[i] = tabs[i]
<1> DEFINE Saved(t) == [t EXCEPT !.savedContent = t.content, !.dirty = FALSE]
           Reverted(t) == [t EXCEPT !.content = t.savedContent, !.dirty = FALSE]
           saved == Mapped(n, Saved)
           reverted == Mapped(n, Reverted)
<1>1. ASSUME NEW t \in Tabs
      PROVE  /\ Saved(t) \in Tabs /\ Saved(t).file = t.file /\ ~Saved(t).dirty
             /\ Saved(t).content = t.content /\ Saved(t).savedContent = t.content
             /\ Reverted(t) \in Tabs /\ Reverted(t).file = t.file /\ ~Reverted(t).dirty
             /\ Reverted(t).content = t.savedContent /\ Reverted(t).savedContent = t.savedContent
  BY DEF Tabs
<1>2. \A i \in DOMAIN tabs : tabs[i] \in Tabs
  OBVIOUS
<1>3. /\ saved = [i \in DOMAIN tabs |-> IF i \in TabsNamed(n) THEN Saved(tabs[i]) ELSE tabs[i]]
      /\ reverted = [i \in DOMAIN tabs |-> IF i \in TabsNamed(n) THEN Reverted(tabs[i]) ELSE tabs[i]]
  BY DEF Mapped
<1> HIDE DEF saved, reverted, Saved, Reverted
<1>4. DOMAIN tabs = 1..Len(tabs) /\ Len(tabs) \in Nat
  OBVIOUS
<1>5. /\ saved \in Seq(Tabs) /\ DOMAIN saved = DOMAIN tabs
      /\ reverted \in Seq(Tabs) /\ DOMAIN reverted = DOMAIN tabs
  BY <1>1, <1>2, <1>3, <1>4
<1>6. \A i \in DOMAIN tabs : i \in TabsNamed(n) <=> Name(tabs[i].file) = n
  BY DEF TabsNamed
<1>7. \A i \in DOMAIN tabs :
         /\ saved[i] = IF Name(tabs[i].file) = n THEN Saved(tabs[i]) ELSE tabs[i]
         /\ reverted[i] = IF Name(tabs[i].file) = n THEN Reverted(tabs[i]) ELSE tabs[i]
  BY <1>3, <1>6
<1>8. ASSUME NEW q \in {saved, reverted}, NEW i \in DOMAIN tabs
      PROVE  IF Name(tabs[i].file) = n
             THEN /\ q[i].file = tabs[i].file /\ ~q[i].dirty
                  /\ q[i].content = q[i].savedContent
                  /\ q = saved => q[i].content = tabs[i].content
                  /\ q = saved \/ q[i].content = tabs[i].savedContent
             ELSE q[i] = tabs[i]
  BY <1>1, <1>2, <1>7
<1> QED
  BY <1>5, <1>8, Zenon DEF saved, reverted, Saved, Reverted

\* The user types: what was saved stays.
LEMMA EditKeeps ==
    ASSUME tabs \in Seq(Tabs), NEW n, NEW c \in Contents, tabs' = SetContent(n, c)
    PROVE  /\ tabs' \in Seq(Tabs)
           /\ \A h : (\A i \in DOMAIN tabs : CleanTab(tabs[i], h)) => \A i \in DOMAIN tabs' : CleanTab(tabs'[i], h)
<1>1. /\ tabs' \in Seq(Tabs) /\ DOMAIN tabs' = DOMAIN tabs
      /\ \A i \in DOMAIN tabs : IF Name(tabs[i].file) = n
            THEN /\ tabs'[i].file = tabs[i].file /\ tabs'[i].content = c
                 /\ tabs'[i].savedContent = tabs[i].savedContent
                 /\ tabs'[i].dirty = (c # tabs[i].savedContent)
            ELSE tabs'[i] = tabs[i]
  BY ContentSet
<1>2. ASSUME NEW h, \A i \in DOMAIN tabs : CleanTab(tabs[i], h), NEW i \in DOMAIN tabs
      PROVE  CleanTab(tabs'[i], h)
  <2>1. CASE Name(tabs[i].file) = n
    BY <1>1, <1>2, <2>1 DEF CleanTab
  <2>2. CASE Name(tabs[i].file) # n
    BY <1>1, <1>2, <2>2
  <2> QED
    BY <2>1, <2>2
<1> QED
  BY <1>1, <1>2

\* The marks of a name go: after a save, with what the tabs show by then, or
\* with what was saved before.
LEMMA CleanKeeps ==
    ASSUME tabs \in Seq(Tabs), NEW n,
           \/ tabs' = Mapped(n, LAMBDA t : [t EXCEPT !.savedContent = t.content, !.dirty = FALSE])
           \/ tabs' = Mapped(n, LAMBDA t : [t EXCEPT !.content = t.savedContent, !.dirty = FALSE])
    PROVE  tabs' \in Seq(Tabs) /\ DOMAIN tabs' = DOMAIN tabs
BY ContentClean

LEMMA KeptKeeps ==
    ASSUME tabs \in Seq(Tabs), NEW S \in SUBSET DOMAIN tabs, tabs' = Kept(S)
    PROVE  tabs' \in Seq(Tabs) /\ \A i \in DOMAIN tabs' : \E j \in S : tabs'[i] = tabs[j]
BY KeptTabs

LEMMA AppendKeeps ==
    ASSUME tabs \in Seq(Tabs), NEW t \in Tabs, tabs' = Append(tabs, t)
    PROVE  /\ tabs' \in Seq(Tabs)
           /\ \A i \in DOMAIN tabs' : IF i \in DOMAIN tabs THEN tabs'[i] = tabs[i] ELSE tabs'[i] = t
<1>1. /\ tabs' \in Seq(Tabs) /\ DOMAIN tabs = 1..Len(tabs) /\ Len(tabs) \in Nat
      /\ DOMAIN tabs' = 1..(Len(tabs) + 1) /\ tabs'[Len(tabs) + 1] = t
      /\ \A i \in DOMAIN tabs : tabs'[i] = tabs[i]
  OBVIOUS
<1>2. \A i \in DOMAIN tabs' : i \notin DOMAIN tabs => i = Len(tabs) + 1
  BY <1>1
<1> QED
  BY <1>1, <1>2

LEMMA FreshTab ==
    ASSUME NEW call, call.file \in Files, call.content \in Contents
    PROVE  /\ Fresh(call) \in Tabs /\ ~Fresh(call).dirty
           /\ Fresh(call).file = call.file /\ Fresh(call).content = call.content
           /\ \A h : call.content \in h[call.file] => CleanTab(Fresh(call), h)
BY DEF Fresh, Tabs, CleanTab

-----------------------------------------------------------------------------
(***************************************************************************)
(* Calls                                                                   *)
(***************************************************************************)
LEMMA EmptyCall ==
    /\ NoCall \in EditorCalls /\ NoCall.op = "none" /\ NoCall.todo = <<>> /\ ~NoCall.served
    /\ \A h : SoundCall(NoCall, h) /\ GuardedPut(NoCall, h)
BY DEF NoCall, EditorCalls, SoundCall, GuardedPut

\* What Send puts into a slot.
LEMMA SentCall ==
    ASSUME NEW s, NEW op \in {"load", "open", "validate", "activate", "fix"},
           NEW f \in Files \cup {None}, NEW c \in Contents \cup {None}, Send(s, op, f, c)
    PROVE  \E call \in EditorCalls :
              Set(s, call) /\ call.op = op /\ call.file = f /\ call.content = c /\ ~call.served
<1> DEFINE call == [NoCall EXCEPT !.op = op, !.file = f, !.content = c]
<1>1. /\ call \in EditorCalls /\ call.op = op /\ call.file = f /\ call.content = c /\ ~call.served
  BY EmptyCall DEF EditorCalls
<1>2. Set(s, call)
  BY DEF Send
<1> HIDE DEF call
<1> QED
  BY <1>1, <1>2

LEMMA NoSave ==
    ASSUME NEW call, call.op \notin {"check", "put"}
    PROVE  \A h : GuardedPut(call, h)
BY DEF GuardedPut

\* A save begins with a check of a config and the put of any other file.
LEMMA BegunCall ==
    ASSUME NEW call \in EditorCalls, NEW d \in Drafts
    PROVE  LET first == Begin(call, d)
           IN  /\ first \in EditorCalls /\ ~first.served /\ first.file = d.file /\ first.content = d.content
               /\ first.op \in {"check", "put"} /\ (first.op = "check" <=> IsConfig(d.file))
               /\ first.todo = call.todo
BY DEF Begin, EditorCalls, Drafts

\* It goes on with the next of what is to be saved, with a restart, or ends.
LEMMA OnwardCall ==
    ASSUME NEW call \in EditorCalls
    PROVE  LET next == Onward(call)
           IN  /\ next \in EditorCalls /\ ~next.served
               /\ next.op \in {"none", "restart"}
                  \/ /\ call.todo # <<>> /\ next.op \in {"check", "put"}
                     /\ next.file = Head(call.todo).file /\ next.content = Head(call.todo).content
                     /\ Head(call.todo) \in Drafts /\ next.todo = Tail(call.todo)
                     /\ (next.op = "check" <=> IsConfig(next.file))
<1> DEFINE next == Onward(call)
<1>1. call.todo \in Seq(Drafts)
  BY DEF EditorCalls
<1>2. CASE call.todo # <<>>
  <2> DEFINE rest == [call EXCEPT !.todo = Tail(@)]
             d == Head(call.todo)
  <2>1. d \in Drafts /\ Tail(call.todo) \in Seq(Drafts)
    BY <1>1, <1>2
  <2>2. rest \in EditorCalls /\ rest.todo = Tail(call.todo)
    BY <2>1 DEF EditorCalls
  <2>3. next = Begin(rest, d)
    BY <1>2 DEF Onward
  <2> HIDE DEF rest, d, next
  <2>4. /\ next \in EditorCalls /\ ~next.served /\ next.file = d.file /\ next.content = d.content
        /\ next.op \in {"check", "put"} /\ (next.op = "check" <=> IsConfig(d.file))
        /\ next.todo = rest.todo
    BY <2>1, <2>2, <2>3, BegunCall
  <2> QED
    BY <1>2, <2>1, <2>2, <2>4 DEF next, d
<1>3. CASE call.todo = <<>>
  <2> DEFINE last == [NoCall EXCEPT !.op = "restart"]
  <2>1. last \in EditorCalls /\ last.op = "restart" /\ ~last.served
    BY EmptyCall DEF EditorCalls
  <2>2. NoCall \in EditorCalls /\ NoCall.op = "none" /\ ~NoCall.served
    BY EmptyCall
  <2>3. next = IF call.apply THEN last ELSE NoCall
    BY <1>3 DEF Onward
  <2> HIDE DEF last, next
  <2> QED
    BY <2>1, <2>2, <2>3 DEF next
<1> QED
  BY <1>2, <1>3

LEMMA OnwardSound ==
    ASSUME NEW call \in EditorCalls
    PROVE  \A h : SoundCall(Onward(call), h) /\ GuardedPut(Onward(call), h)
<1> DEFINE next == Onward(call)
<1>1. /\ next \in EditorCalls /\ ~next.served
      /\ next.op \in {"none", "restart"}
         \/ /\ call.todo # <<>> /\ next.op \in {"check", "put"}
            /\ next.file = Head(call.todo).file /\ next.content = Head(call.todo).content
            /\ Head(call.todo) \in Drafts /\ next.todo = Tail(call.todo)
            /\ (next.op = "check" <=> IsConfig(next.file))
  BY OnwardCall
<1> HIDE DEF next
<1>2. CASE next.op \in {"none", "restart"}
  BY <1>1, <1>2 DEF SoundCall, GuardedPut, next
<1>3. CASE next.op \in {"check", "put"}
  <2>1. next.file \in Files /\ next.content \in Contents
    BY <1>1, <1>3 DEF Drafts
  <2> QED
    BY <1>1, <1>3, <2>1 DEF SoundCall, GuardedPut, next
<1> QED
  BY <1>1, <1>2, <1>3

-----------------------------------------------------------------------------
(***************************************************************************)
(* The steps on tabs                                                       *)
(***************************************************************************)
LEMMA SafeTabs ==
    ASSUME EditorSafe
    PROVE  /\ tabs \in Seq(Tabs) /\ ServerTyped /\ PageTyped /\ Counted
           /\ editorCalls \in [Slots -> EditorCalls]
           /\ \A i \in DOMAIN tabs : /\ tabs[i] \in Tabs /\ tabs[i].file \in Files
                                     /\ CleanTab(tabs[i], Marked)
<1>1. /\ tabs \in Seq(Tabs) /\ ServerTyped /\ PageTyped /\ Counted
      /\ editorCalls \in [Slots -> EditorCalls]
  BY Typed DEF EditorSafe
<1>2. \A i \in DOMAIN tabs : tabs[i] \in Tabs
  BY <1>1
<1>3. \A i \in DOMAIN tabs : tabs[i].file \in Files
  BY <1>2 DEF Tabs
<1> QED
  BY <1>1, <1>2, <1>3 DEF EditorSafe, CleanTabs

LEMMA CloseTabStep ==
    ASSUME EditorSafe, NEW n \in TabNames, CloseTab(n)
    PROVE  EditorSafe'
<1> DEFINE S == DOMAIN tabs \ TabsNamed(n)
           at == First(n)
<1>1. /\ Input /\ IsOpen(n) /\ tabs' = Kept(S) /\ UNCHANGED <<server, editorCalls>>
      /\ UNCHANGED <<activeConfig, validation, autoFixResult, deleteTarget>>
      /\ activeTab' = IF activeTab # n THEN activeTab
                      ELSE IF at <= Len(tabs') THEN Name(tabs'[at].file)
                      ELSE IF at - 1 \in DOMAIN tabs' THEN Name(tabs'[at - 1].file)
                      ELSE None
  BY DEF CloseTab, WithoutName
<1>2. tabs' \in Seq(Tabs) /\ \A i \in DOMAIN tabs' : \E j \in S : tabs'[i] = tabs[j]
  BY <1>1, SafeTabs, KeptKeeps
<1>3. \A i \in DOMAIN tabs' : Name(tabs'[i].file) \in TabNames
  BY <1>2, SafeTabs, FileHasName
<1>4. at \in 1..Len(tabs)
  BY <1>1, SafeTabs, FirstIsLeast DEF TabsNamed
<1>5. at <= Len(tabs') => at \in DOMAIN tabs'
  BY <1>2, <1>4
<1> HIDE DEF at, S
<1>6. activeTab' \in TabNames \cup {None}
  <2>1. CASE activeTab # n
    BY <1>1, <2>1, SafeTabs DEF PageTyped
  <2>2. CASE activeTab = n
    BY <1>1, <1>3, <1>5, <2>2
  <2> QED
    BY <2>1, <2>2
<1>7. ServerTyped' /\ PageTyped' /\ Counted' /\ UNCHANGED <<held, unsent>>
  BY <1>1, <1>6, SafeTabs, CountersStep DEF EditorSafe, ServerTyped, PageTyped, server
<1>8. \A i \in DOMAIN tabs' : CleanTab(tabs'[i], Marked)
  BY <1>2, SafeTabs DEF S
<1> QED
  BY <1>1, <1>2, <1>7, <1>8, EditorTabs

LEMMA EditTabStep ==
    ASSUME EditorSafe, NEW c \in Contents, EditTab(c)
    PROVE  EditorSafe'
<1>1. /\ Input /\ tabs' = SetContent(activeTab, c) /\ UNCHANGED <<server, editorCalls>>
      /\ UNCHANGED <<activeTab, activeConfig, validation, autoFixResult, deleteTarget>>
  BY DEF EditTab
<1>2. tabs' \in Seq(Tabs) /\ \A i \in DOMAIN tabs' : CleanTab(tabs'[i], Marked)
  BY <1>1, SafeTabs, EditKeeps
<1>3. ServerTyped' /\ PageTyped' /\ Counted' /\ UNCHANGED <<held, unsent>>
  BY <1>1, SafeTabs, CountersStep DEF EditorSafe, ServerTyped, PageTyped, server
<1> QED
  BY <1>1, <1>2, <1>3, EditorTabs

LEMMA RevertStep ==
    ASSUME EditorSafe, RevertCurrent
    PROVE  EditorSafe'
<1>1. /\ Input /\ UNCHANGED <<server, editorCalls, activeTab, activeConfig, autoFixResult, deleteTarget>>
      /\ tabs' = Mapped(activeTab, LAMBDA t : [t EXCEPT !.content = t.savedContent, !.dirty = FALSE])
      /\ validation' = [validation EXCEPT ![activeTab] = "none"]
  BY DEF RevertCurrent
<1>2. tabs' \in Seq(Tabs) /\ DOMAIN tabs' = DOMAIN tabs
  BY <1>1, SafeTabs, CleanKeeps
<1>3. \A i \in DOMAIN tabs : IF Name(tabs[i].file) = activeTab
         THEN /\ tabs'[i].file = tabs[i].file /\ tabs'[i].content = tabs'[i].savedContent
              /\ tabs'[i].content = tabs[i].savedContent
         ELSE tabs'[i] = tabs[i]
  <2> DEFINE Reverted(t) == [t EXCEPT !.content = t.savedContent, !.dirty = FALSE]
  <2>1. \A i \in DOMAIN tabs : tabs'[i] = IF Name(tabs[i].file) = activeTab THEN Reverted(tabs[i]) ELSE tabs[i]
    BY <1>1 DEF Mapped, TabsNamed
  <2>2. \A t \in Tabs : /\ Reverted(t).file = t.file /\ Reverted(t).content = t.savedContent
                        /\ Reverted(t).savedContent = t.savedContent
    BY DEF Tabs
  <2> HIDE DEF Reverted
  <2> QED
    BY <2>1, <2>2, SafeTabs
<1>4. validation' \in [TabNames -> {"none", "valid", "invalid"}]
  BY <1>1, SafeTabs DEF PageTyped
<1>5. ServerTyped' /\ PageTyped' /\ Counted' /\ UNCHANGED <<held, unsent>>
  BY <1>1, <1>4, SafeTabs, CountersStep DEF EditorSafe, ServerTyped, PageTyped, server
<1>6. \A i \in DOMAIN tabs' : CleanTab(tabs'[i], Marked)
  BY <1>2, <1>3, SafeTabs DEF CleanTab
<1> QED
  BY <1>1, <1>2, <1>5, <1>6, EditorTabs

LEMMA EditorStill ==
    ASSUME EditorSafe,
           \/ \E n \in TabNames : SelectTab(n)
           \/ \E n \in Configs : AskDelete(n)
           \/ CloseDialog \/ OtherWindow \/ UNCHANGED editorVars
    PROVE  EditorSafe'
<1>1. UNCHANGED <<tabs, held, unsent, editorCalls>>
  BY DEF SelectTab, AskDelete, CloseDialog, OtherWindow, editorVars, server, view
<1>2. Counted'
  <2>1. CASE UNCHANGED editorVars
    BY <2>1, SafeTabs DEF editorVars, Counted
  <2>2. CASE Input \/ Mishap
    BY <2>2, CountersStep DEF EditorSafe
  <2> QED
    BY <2>1, <2>2 DEF SelectTab, AskDelete, CloseDialog, OtherWindow
<1>3. PageTyped'
  <2>1. PageTyped
    BY SafeTabs
  <2>2. /\ UNCHANGED <<activeConfig, validation>>
        /\ activeTab' \in TabNames \cup {activeTab} /\ deleteTarget' \in Configs \cup {deleteTarget, None}
        /\ autoFixResult' \in {autoFixResult, None}
    BY DEF SelectTab, AskDelete, CloseDialog, OtherWindow, editorVars, view
  <2> QED
    BY <2>1, <2>2 DEF PageTyped
<1>4. ServerTyped'
  <2>1. CASE UNCHANGED server
    BY <2>1, SafeTabs DEF ServerTyped, server
  <2>2. CASE OtherWindow
    <3>1. \/ UNCHANGED <<active, unapplied>> /\ \E f \in Files, c \in Contents \cup {None} : disk' = [disk EXCEPT ![f] = c]
          \/ UNCHANGED disk /\ active' \in Configs /\ unapplied' = FALSE
      BY <2>2 DEF OtherWindow
    <3> QED
      BY <1>1, <3>1, SafeTabs DEF ServerTyped
  <2> QED
    BY <2>1, <2>2 DEF SelectTab, AskDelete, CloseDialog, editorVars
<1> QED
  BY <1>1, <1>2, <1>3, <1>4, SafeTabs, EditorTabs

-----------------------------------------------------------------------------
(***************************************************************************)
(* The steps that send                                                     *)
(***************************************************************************)
LEMMA SendStep ==
    ASSUME EditorSafe, NEW s \in Slots, NEW op \in {"load", "open", "validate", "activate", "fix"},
           NEW f \in Files \cup {None}, NEW c \in Contents \cup {None}, Send(s, op, f, c),
           op # "load" => f \in Files, op \in {"validate", "fix"} => c \in Contents,
           op = "activate" => IsConfig(f),
           Input \/ NoInput, PageTyped', UNCHANGED <<server, tabs>>
    PROVE  EditorSafe'
<1>1. PICK call \in EditorCalls :
         Set(s, call) /\ call.op = op /\ call.file = f /\ call.content = c /\ ~call.served
  BY SentCall
<1>2. SoundCall(call, Marked)
  BY <1>1 DEF SoundCall
<1>3. GuardedPut(call, Marked)
  BY <1>1, NoSave
<1> QED
  BY <1>1, <1>2, <1>3, EditorSend

\* The active tab, as it is sent.
LEMMA ActiveSent ==
    ASSUME EditorSafe, HasActiveFile
    PROVE  /\ activeFile.file \in Files /\ activeFile.content \in Contents
           /\ Draft(activeFile) \in Drafts
           /\ Draft(activeFile).file = activeFile.file /\ Draft(activeFile).content = activeFile.content
<1>1. activeFile \in Tabs
  BY SafeTabs, ActiveIsFirst
<1> QED
  BY <1>1 DEF Tabs, Draft, Drafts

LEMMA OneEditorCallStep ==
    ASSUME EditorSafe, NEW s \in Slots,
           \/ LoadFiles(s) \/ HandleValidate(s) \/ DebouncedValidate(s) \/ HandleAutoFix(s)
           \/ \E f \in Files : OpenFile(s, f)
           \/ \E n \in Configs : HandleSetActive(s, n)
    PROVE  EditorSafe'
<1>1. CASE LoadFiles(s)
  BY <1>1, SendStep, SafeTabs DEF LoadFiles, PageTyped, view
<1>2. CASE HandleValidate(s) \/ DebouncedValidate(s) \/ HandleAutoFix(s)
  <2>1. /\ HasActiveFile /\ UNCHANGED <<server, view>> /\ (Input \/ NoInput)
        /\ \/ Send(s, "validate", activeFile.file, activeFile.content)
           \/ Send(s, "fix", activeFile.file, activeFile.content)
    BY <1>2 DEF HandleValidate, DebouncedValidate, HandleAutoFix
  <2>2. PageTyped' /\ UNCHANGED tabs
    BY <2>1, SafeTabs DEF PageTyped, view
  <2>3. PICK f \in Files, c \in Contents : f = activeFile.file /\ c = activeFile.content
    BY <2>1, ActiveSent
  <2>4. Send(s, "validate", f, c) \/ Send(s, "fix", f, c)
    BY <2>1, <2>3, Zenon
  <2> QED
    BY <2>1, <2>2, <2>4, SendStep
<1>3. ASSUME NEW f \in Files, OpenFile(s, f) PROVE EditorSafe'
  <2>1. /\ Input /\ UNCHANGED <<server, tabs, activeConfig, validation, autoFixResult, deleteTarget>>
        /\ \/ activeTab' = Name(f) /\ UNCHANGED editorCalls
           \/ Send(s, "open", f, None) /\ UNCHANGED activeTab
    BY <1>3 DEF OpenFile
  <2>2. PageTyped' /\ ServerTyped' /\ Counted' /\ UNCHANGED <<held, unsent>>
    BY <2>1, SafeTabs, CountersStep, FileHasName DEF EditorSafe, PageTyped, ServerTyped, server
  <2>3. CASE Send(s, "open", f, None)
    BY <2>1, <2>2, <2>3, SendStep
  <2>4. CASE UNCHANGED editorCalls
    BY <2>1, <2>2, <2>4, SafeTabs, EditorTabs
  <2> QED
    BY <2>1, <2>3, <2>4
<1>4. ASSUME NEW n \in Configs, HandleSetActive(s, n) PROVE EditorSafe'
  <2> DEFINE f == <<"config", n>>
  <2>1. Input /\ Send(s, "activate", f, None) /\ UNCHANGED <<server, view>>
    BY <1>4 DEF HandleSetActive
  <2>2. f \in Files /\ IsConfig(f)
    BY DEF Files, IsConfig
  <2> HIDE DEF f
  <2>3. PageTyped' /\ UNCHANGED tabs
    BY <2>1, SafeTabs DEF PageTyped, view
  <2> QED
    BY <2>1, <2>2, <2>3, SendStep
<1> QED
  BY <1>1, <1>2, <1>3, <1>4

LEMMA ApplyAutoFixStep ==
    ASSUME EditorSafe, NEW s \in Slots, ApplyAutoFix(s)
    PROVE  EditorSafe'
<1>1. /\ Input /\ HasActiveFile /\ autoFixResult # None /\ tabs' = SetContent(activeTab, autoFixResult)
      /\ Send(s, "validate", activeFile.file, autoFixResult) /\ autoFixResult' = None
      /\ UNCHANGED <<server, activeTab, activeConfig, validation, deleteTarget>>
  BY DEF ApplyAutoFix
<1>2. PICK f \in Files, c \in Contents : f = activeFile.file /\ c = autoFixResult
  BY <1>1, ActiveSent, SafeTabs DEF PageTyped
<1>3. tabs' = SetContent(activeTab, c) /\ Send(s, "validate", f, c)
  BY <1>1, <1>2, Zenon
<1>4. PICK call \in EditorCalls :
         Set(s, call) /\ call.op = "validate" /\ call.file = f /\ call.content = c /\ ~call.served
  BY <1>3, SentCall
<1>5. /\ ServerTyped' /\ PageTyped' /\ Counted' /\ UNCHANGED Marked /\ MarkedGrows
  BY <1>1, SafeTabs, CountersStep, MarkedStays DEF EditorSafe, ServerTyped, PageTyped, server
<1>6. SoundCall(call, Marked') /\ GuardedPut(call, Marked')
  BY <1>4, <1>5, NoSave DEF SoundCall
<1>7. tabs' \in Seq(Tabs) /\ \A i \in DOMAIN tabs' : CleanTab(tabs'[i], Marked')
  BY <1>3, <1>5, SafeTabs, EditKeeps
<1> QED
  BY <1>4, <1>5, <1>6, <1>7, EditorSlot

\* Creating and deleting a config.
LEMMA ConfigCallStep ==
    ASSUME EditorSafe, NEW s \in Slots,
           ConfirmDelete(s) \/ \E n \in Configs : HandleCreateFile(s, n)
    PROVE  EditorSafe'
<1>1. /\ Input /\ UNCHANGED <<server, view>>
      /\ \E n \in Configs, op \in {"create", "delete"}, b \in BOOLEAN :
            Set(s, [NoCall EXCEPT !.op = op, !.file = <<"config", n>>, !.apply = b])
  <2>1. CASE ConfirmDelete(s)
    <3> DEFINE viewed == (activeTab = deleteTarget)
    <3>1. /\ Input /\ UNCHANGED <<server, view>> /\ deleteTarget \in Configs
          /\ Set(s, [NoCall EXCEPT !.op = "delete", !.file = <<"config", deleteTarget>>, !.apply = viewed])
      BY <2>1, SafeTabs DEF ConfirmDelete, PageTyped
    <3>2. viewed \in BOOLEAN
      OBVIOUS
    <3> HIDE DEF viewed
    <3> QED
      BY <3>1, <3>2, Zenon
  <2>2. ASSUME NEW n \in Configs, HandleCreateFile(s, n)
        PROVE  /\ Input /\ UNCHANGED <<server, view>>
               /\ \E b \in BOOLEAN :
                     Set(s, [NoCall EXCEPT !.op = "create", !.file = <<"config", n>>, !.apply = b])
    <3> DEFINE open == IsOpen(n)
    <3>1. /\ Input /\ UNCHANGED <<server, view>>
          /\ Set(s, [NoCall EXCEPT !.op = "create", !.file = <<"config", n>>, !.apply = open])
      BY <2>2 DEF HandleCreateFile
    <3>2. open \in BOOLEAN
      BY DEF IsOpen
    <3> HIDE DEF open
    <3> QED
      BY <3>1, <3>2, Zenon
  <2> QED
    BY <2>1, <2>2
<1>2. PICK n \in Configs, op \in {"create", "delete"}, b \in BOOLEAN :
         Set(s, [NoCall EXCEPT !.op = op, !.file = <<"config", n>>, !.apply = b])
  BY <1>1
<1> DEFINE f == <<"config", n>>
           call == [NoCall EXCEPT !.op = op, !.file = f, !.apply = b]
<1>3. f \in Files /\ IsConfig(f)
  BY DEF Files, IsConfig
<1>4. Set(s, call)
  BY <1>2
<1> HIDE DEF f
<1>5. call \in EditorCalls /\ call.op = op /\ call.file = f /\ ~call.served
  BY <1>3, EmptyCall DEF EditorCalls
<1> HIDE DEF call
<1>6. SoundCall(call, Marked) /\ GuardedPut(call, Marked)
  BY <1>3, <1>5 DEF SoundCall, GuardedPut
<1>7. PageTyped' /\ UNCHANGED tabs
  BY <1>1, SafeTabs DEF PageTyped, view
<1> QED
  BY <1>1, <1>4, <1>5, <1>6, <1>7, EditorSend

LEMMA HandleSaveStep ==
    ASSUME EditorSafe, NEW s \in Slots, HandleSave(s)
    PROVE  EditorSafe'
<1> DEFINE t == activeFile
           call == [NoCall EXCEPT !.known = activeConfig]
           begun == Begin(call, Draft(t))
<1>1. /\ Input /\ HasActiveFile /\ UNCHANGED <<server, view>>
      /\ \/ Set(s, begun) \/ Set(s, NoCall)
         \/ Set(s, [begun EXCEPT !.op = "put"]) /\ IsConfig(t.file) /\ ~t.dirty
  BY DEF HandleSave, NeedsCheck
<1>2. call \in EditorCalls /\ call.todo = <<>>
  <2>1. activeConfig \in Configs \cup {None}
    BY SafeTabs DEF PageTyped
  <2> QED
    BY <2>1, EmptyCall DEF EditorCalls
<1>3. /\ Draft(t) \in Drafts /\ t.file \in Files /\ t.content \in Contents
      /\ Draft(t).file = t.file /\ Draft(t).content = t.content
  BY <1>1, ActiveSent
<1> HIDE DEF call
<1>5. /\ begun \in EditorCalls /\ ~begun.served /\ begun.file = t.file /\ begun.content = t.content
      /\ begun.op \in {"check", "put"} /\ (begun.op = "check" <=> IsConfig(t.file)) /\ begun.todo = <<>>
  BY <1>2, <1>3, BegunCall
<1> HIDE DEF begun
<1>6. PageTyped' /\ UNCHANGED tabs
  BY <1>1, SafeTabs DEF PageTyped, view
<1>7. CASE Set(s, NoCall)
  BY <1>1, <1>6, <1>7, EmptyCall, EditorSend
<1>8. CASE Set(s, begun)
  <2>1. SoundCall(begun, Marked) /\ GuardedPut(begun, Marked)
    BY <1>3, <1>5 DEF SoundCall, GuardedPut
  <2> QED
    BY <1>1, <1>5, <1>6, <1>8, <2>1, EditorSend
<1>9. CASE Set(s, [begun EXCEPT !.op = "put"]) /\ IsConfig(t.file) /\ ~t.dirty
  <2> DEFINE put == [begun EXCEPT !.op = "put"]
  <2>1. /\ put \in EditorCalls /\ ~put.served /\ put.file = t.file /\ put.content = t.content
        /\ put.op = "put" /\ put.todo = <<>>
    BY <1>5 DEF EditorCalls
  <2> HIDE DEF put
  <2>2. SoundCall(put, Marked)
    BY <1>3, <2>1 DEF SoundCall
  <2>3. GuardedPut(put, Marked)
    <3>1. t.content \in Marked[t.file]
      BY <1>1, <1>9, SafeTabs, ActiveIsFirst DEF CleanTab
    <3> QED
      BY <2>1, <3>1 DEF GuardedPut
  <2> QED
    BY <1>1, <1>6, <1>9, <2>1, <2>2, <2>3, EditorSend DEF put
<1> QED
  BY <1>1, <1>7, <1>8, <1>9

LEMMA HandleSaveAllStep ==
    ASSUME EditorSafe, NEW s \in Slots, HandleSaveAll(s)
    PROVE  EditorSafe'
<1> DEFINE S == {i \in DOMAIN tabs : tabs[i].dirty}
           q == Kept(S)
           drafts == [k \in DOMAIN q |-> Draft(q[k])]
           call == [NoCall EXCEPT !.known = activeConfig, !.todo = drafts]
<1>1. Input /\ Set(s, Onward(call)) /\ UNCHANGED <<server, view>>
  BY DEF HandleSaveAll
<1>2. /\ q \in Seq(Tabs) /\ \A k \in DOMAIN q : Place(S, k) \in S /\ q[k] = tabs[Place(S, k)]
  BY SafeTabs, KeptTabs
<1> HIDE DEF q
<1>3. \A k \in DOMAIN q : q[k] \in Tabs
  BY <1>2
<1>4. \A k \in DOMAIN q : Draft(q[k]) \in Drafts
  BY <1>3 DEF Draft, Drafts, Tabs
<1>5. drafts \in Seq(Drafts)
  BY <1>2, <1>4
<1> HIDE DEF drafts
<1>7. call \in EditorCalls /\ call.todo = drafts
  <2>1. activeConfig \in Configs \cup {None}
    BY SafeTabs DEF PageTyped
  <2> QED
    BY <1>5, <2>1, EmptyCall DEF EditorCalls
<1> HIDE DEF call
<1> DEFINE next == Onward(call)
<1>8. SoundCall(next, Marked) /\ GuardedPut(next, Marked)
  BY <1>7, OnwardSound
<1>9. next \in EditorCalls
  BY <1>7, OnwardCall
<1> HIDE DEF next
<1>10. PageTyped' /\ UNCHANGED tabs
  BY <1>1, SafeTabs DEF PageTyped, view
<1> QED
  BY <1>1, <1>8, <1>9, <1>10, EditorSend DEF next

-----------------------------------------------------------------------------
(***************************************************************************)
(* The server                                                              *)
(***************************************************************************)
LEMMA SoundSlot ==
    ASSUME EditorSafe, NEW s \in Slots
    PROVE  /\ editorCalls[s] \in EditorCalls /\ SoundCall(editorCalls[s], Marked)
           /\ GuardedPut(editorCalls[s], Marked)
BY SafeTabs DEF EditorSafe, EditorCallsSound

\* The answer carries what was read, if anything; nothing is saved by it.
LEMMA ReadCallStep ==
    ASSUME EditorSafe, NEW s \in Slots, NEW call \in EditorCalls, Set(s, call),
           call.op \in {"load", "open", "activate", "create", "delete"},
           call.op # "load" => call.file \in Files,
           call.op \in {"activate", "create", "delete"} => IsConfig(call.file),
           call.op = "open" => call.content \in Marked'[call.file],
           NoInput, UNCHANGED view, ServerTyped', MarkedGrows
    PROVE  EditorSafe'
<1>1. SoundCall(call, Marked')
  BY DEF SoundCall
<1>2. GuardedPut(call, Marked')
  BY NoSave
<1>3. PageTyped' /\ Counted' /\ UNCHANGED tabs
  BY SafeTabs, CountersStep DEF EditorSafe, PageTyped, view
<1> QED
  BY <1>1, <1>2, <1>3, EditorCallStep

LEMMA ServeEditorStep ==
    ASSUME EditorSafe, NEW s \in Slots,
           ServeLoad(s) \/ ServeOpen(s) \/ ServeActivate(s) \/ ServeCreate(s) \/ ServeDelete(s)
    PROVE  EditorSafe'
<1> DEFINE old == editorCalls[s]
           served == [old EXCEPT !.served = TRUE]
<1>0. old \in EditorCalls /\ SoundCall(old, Marked) /\ ServerTyped
  BY SafeTabs, SoundSlot
<1>1. /\ served \in EditorCalls /\ served.op = old.op /\ served.file = old.file
  BY <1>0 DEF EditorCalls
<1> HIDE DEF served
<1>2. NoInput /\ UNCHANGED view
  BY DEF ServeLoad, ServeOpen, ServeActivate, ServeCreate, ServeDelete, Serve
<1>3. CASE ServeLoad(s)
  <2> DEFINE call == [old EXCEPT !.served = TRUE, !.known = active]
  <2>1. old.op = "load" /\ Set(s, call) /\ UNCHANGED server
    BY <1>3 DEF ServeLoad, Serve, Under
  <2>2. call \in EditorCalls /\ call.op = "load"
    BY <1>0, <2>1 DEF EditorCalls, ServerTyped
  <2> HIDE DEF call
  <2>3. ServerTyped' /\ MarkedGrows
    BY <1>0, <2>1, MarkedStays DEF ServerTyped, server
  <2> QED
    BY <1>2, <2>1, <2>2, <2>3, ReadCallStep
<1>4. CASE ServeOpen(s)
  <2> DEFINE f == old.file
             c == disk[f]
             call == [old EXCEPT !.served = TRUE, !.content = c]
  <2>1. /\ old.op = "open" /\ c # None /\ Set(s, call) /\ held' = [held EXCEPT ![f] = @ \cup {c}]
        /\ UNCHANGED <<disk, active, unapplied, unsent>>
    BY <1>4 DEF ServeOpen, Serve, Under
  <2>2. f \in Files /\ c \in Contents
    BY <1>0, <2>1 DEF SoundCall, ServerTyped
  <2> HIDE DEF c
  <2>3. call \in EditorCalls /\ call.op = "open" /\ call.file = f /\ call.content = c
    BY <1>0, <2>1, <2>2 DEF EditorCalls
  <2> HIDE DEF call
  <2>4. ServerTyped' /\ MarkedGrows /\ c \in Marked'[f]
    BY <1>0, <2>1, <2>2 DEF ServerTyped, MarkedGrows, Marked
  <2> QED
    BY <1>2, <2>1, <2>2, <2>3, <2>4, ReadCallStep
<1>5. CASE ServeActivate(s) \/ ServeCreate(s) \/ ServeDelete(s)
  <2>1. /\ old.op \in {"activate", "create", "delete"} /\ Set(s, served) /\ UNCHANGED <<held, unsent>>
        /\ active' \in {active, Name(old.file)} /\ unapplied' \in {unapplied, FALSE}
        /\ disk' = disk \/ \E c \in {Empty, None} : disk' = [disk EXCEPT ![old.file] = c]
    BY <1>5 DEF ServeActivate, ServeCreate, ServeDelete, Serve, Under, served
  <2>2. old.file \in Files /\ IsConfig(old.file) /\ Name(old.file) \in Configs
    BY <1>0, <2>1, FileHasName DEF SoundCall
  <2>3. disk' \in [Files -> Contents \cup {None}]
    BY <1>0, <2>1, EditorAssumption DEF ServerTyped
  <2>4. ServerTyped' /\ MarkedGrows
    BY <1>0, <2>1, <2>2, <2>3, MarkedStays DEF ServerTyped
  <2> QED
    BY <1>1, <1>2, <2>1, <2>2, <2>4, ReadCallStep
<1> QED
  BY <1>3, <1>4, <1>5

-----------------------------------------------------------------------------
(***************************************************************************)
(* Answers                                                                 *)
(***************************************************************************)
LEMMA AnswerStep ==
    ASSUME EditorSafe, NEW s \in Slots,
           \/ ValidateAnswered(s) \/ AutoFixAnswered(s) \/ LoadAnswered(s) \/ ActivateAnswered(s)
           \/ CreateAnswered(s) \/ CallRefused(s) \/ RestartAnswered(s)
    PROVE  EditorSafe'
<1> DEFINE old == editorCalls[s]
<1>0. /\ old \in EditorCalls /\ SoundCall(old, Marked) /\ ServerTyped /\ PageTyped
      /\ old.op \in {"validate", "open", "activate", "create", "delete"} =>
            old.file \in Files /\ Name(old.file) \in TabNames
      /\ old.op \in {"activate", "create"} => Name(old.file) \in Configs
  BY SafeTabs, SoundSlot, FileHasName DEF SoundCall
<1>1. NoInput /\ UNCHANGED <<tabs, held, unsent>>
  BY DEF ValidateAnswered, AutoFixAnswered, LoadAnswered, ActivateAnswered, CreateAnswered, CallRefused,
         RestartAnswered, Answer, Serve, server, view
<1>2. ServerTyped' /\ Counted' /\ MarkedGrows
  <2>1. UNCHANGED <<disk, active>> /\ unapplied' \in {unapplied, FALSE}
    BY DEF ValidateAnswered, AutoFixAnswered, LoadAnswered, ActivateAnswered, CreateAnswered, CallRefused,
           RestartAnswered, server
  <2> QED
    BY <1>0, <1>1, <2>1, CountersStep, MarkedStays DEF EditorSafe, ServerTyped
<1>3. PageTyped'
  <2>1. CASE ValidateAnswered(s)
    <3>1. /\ old.op = "validate" /\ UNCHANGED <<activeTab, activeConfig, autoFixResult, deleteTarget>>
          /\ \/ UNCHANGED validation
             \/ validation' = [validation EXCEPT ![Name(old.file)] = Verdict(old.content)]
      BY <2>1 DEF ValidateAnswered, Under
    <3>2. Verdict(old.content) \in {"valid", "invalid"}
      BY DEF Verdict
    <3> QED
      BY <1>0, <3>1, <3>2 DEF PageTyped
  <2>2. CASE AutoFixAnswered(s)
    <3>1. /\ autoFixResult' \in {autoFixResult, Fixed}
          /\ UNCHANGED <<activeTab, activeConfig, validation, deleteTarget>>
      BY <2>2 DEF AutoFixAnswered
    <3> QED
      BY <1>0, <3>1, EditorAssumption DEF PageTyped
  <2>3. CASE LoadAnswered(s)
    BY <1>0, <2>3 DEF LoadAnswered, PageTyped, EditorCalls
  <2>4. CASE ActivateAnswered(s)
    BY <1>0, <2>4 DEF ActivateAnswered, Answer, Under, PageTyped
  <2>5. CASE CreateAnswered(s)
    BY <1>0, <2>5 DEF CreateAnswered, Answer, Under, PageTyped
  <2>6. CASE CallRefused(s) \/ RestartAnswered(s)
    <3>1. UNCHANGED view
      BY <2>6 DEF CallRefused, RestartAnswered
    <3> QED
      BY <1>0, <3>1 DEF PageTyped, view
  <2> QED
    BY <2>1, <2>2, <2>3, <2>4, <2>5, <2>6
<1>4. CASE Set(s, NoCall)
  BY <1>1, <1>2, <1>3, <1>4, EmptyCall, EditorCallStep
<1>5. CASE CreateAnswered(s) /\ Set(s, [NoCall EXCEPT !.op = "open", !.file = old.file])
  <2> DEFINE call == [NoCall EXCEPT !.op = "open", !.file = old.file]
  <2>1. old.file \in Files
    BY <1>0, <1>5 DEF CreateAnswered, Answer, Under
  <2>2. call \in EditorCalls /\ call.op = "open" /\ call.file = old.file /\ ~call.served
    BY <2>1, EmptyCall DEF EditorCalls
  <2> HIDE DEF call
  <2>3. SoundCall(call, Marked') /\ GuardedPut(call, Marked')
    BY <2>1, <2>2, NoSave DEF SoundCall
  <2> QED
    BY <1>1, <1>2, <1>3, <1>5, <2>2, <2>3, EditorCallStep DEF call
<1> QED
  BY <1>4, <1>5 DEF ValidateAnswered, AutoFixAnswered, LoadAnswered, ActivateAnswered, CreateAnswered,
                    CallRefused, RestartAnswered

LEMMA TabAnswerStep ==
    ASSUME EditorSafe, NEW s \in Slots, OpenAnswered(s) \/ DeleteAnswered(s)
    PROVE  EditorSafe'
<1> DEFINE old == editorCalls[s]
<1>0. old \in EditorCalls /\ SoundCall(old, Marked)
  BY SoundSlot
<1>1. NoInput /\ UNCHANGED server /\ Set(s, NoCall)
  BY DEF OpenAnswered, DeleteAnswered, Answer
<1>2. ServerTyped' /\ Counted' /\ MarkedGrows /\ UNCHANGED Marked
  BY <1>1, SafeTabs, CountersStep, MarkedStays DEF EditorSafe, ServerTyped, server
<1>3. PageTyped'
  BY <1>0, SafeTabs, FileHasName DEF OpenAnswered, DeleteAnswered, Answer, Under, SoundCall, PageTyped
<1>4. tabs' \in Seq(Tabs) /\ \A i \in DOMAIN tabs' : CleanTab(tabs'[i], Marked)
  <2>1. CASE OpenAnswered(s)
    <3> DEFINE t == Fresh(old)
    <3>1. old.op = "open" /\ old.served /\ tabs' = Append(tabs, t)
      BY <2>1 DEF OpenAnswered, Answer, Under
    <3>2. old.file \in Files /\ old.content \in Marked[old.file] /\ old.content \in Contents
      BY <1>0, <3>1, SafeTabs DEF SoundCall, ServerTyped, Marked
    <3>3. t \in Tabs /\ CleanTab(t, Marked)
      BY <3>2, FreshTab
    <3> HIDE DEF t
    <3> QED
      BY <3>1, <3>3, SafeTabs, AppendKeeps
  <2>2. CASE DeleteAnswered(s)
    <3> DEFINE S == DOMAIN tabs \ TabsNamed(Name(old.file))
    <3>1. tabs' = Kept(S) /\ S \in SUBSET DOMAIN tabs
      BY <2>2 DEF DeleteAnswered, WithoutName
    <3> HIDE DEF S
    <3>2. tabs' \in Seq(Tabs) /\ \A i \in DOMAIN tabs' : \E j \in S : tabs'[i] = tabs[j]
      BY <3>1, SafeTabs, KeptKeeps
    <3> QED
      BY <3>1, <3>2, SafeTabs
  <2> QED
    BY <2>1, <2>2
<1> QED
  BY <1>1, <1>2, <1>3, <1>4, EmptyCall, EditorSlot

-----------------------------------------------------------------------------
(***************************************************************************)
(* A save                                                                  *)
(***************************************************************************)
\* It goes on, and nothing is marked: the check or the put failed.
LEMMA GoesOnStep ==
    ASSUME EditorSafe, NEW s \in Slots, editorCalls[s].op \in {"check", "put"}, Set(s, Onward(editorCalls[s])),
           NoInput \/ Mishap, UNCHANGED <<held, unsent, tabs>>, ServerTyped', PageTyped'
    PROVE  EditorSafe'
<1> DEFINE old == editorCalls[s]
           next == Onward(old)
<1>1. old \in EditorCalls
  BY SoundSlot
<1>2. next \in EditorCalls
  BY <1>1, OnwardCall
<1>3. SoundCall(next, Marked') /\ GuardedPut(next, Marked')
  BY <1>1, OnwardSound
<1> HIDE DEF next
<1>4. Counted' /\ MarkedGrows
  BY CountersStep, MarkedStays DEF EditorSafe
<1> QED
  BY <1>2, <1>3, <1>4, EditorCallStep DEF next

LEMMA CheckAnsweredStep ==
    ASSUME EditorSafe, NEW s \in Slots, CheckAnswered(s)
    PROVE  EditorSafe'
<1> DEFINE old == editorCalls[s]
           put == [old EXCEPT !.op = "put"]
<1>0. old \in EditorCalls /\ SoundCall(old, Marked)
  BY SoundSlot
<1>1. /\ NoInput /\ old.op = "check" /\ UNCHANGED <<server, tabs, activeConfig, autoFixResult, deleteTarget>>
      /\ UNCHANGED validation \/ validation' = [validation EXCEPT ![Name(old.file)] = Verdict(old.content)]
      /\ activeTab' \in {activeTab, Name(old.file)}
      /\ (old.content \in Accepted /\ Set(s, put)) \/ Set(s, Onward(old))
  BY DEF CheckAnswered, Under
<1>2. old.file \in Files /\ Name(old.file) \in TabNames /\ old.content \in Contents
  BY <1>0, <1>1, FileHasName DEF SoundCall
<1>3. Verdict(old.content) \in {"valid", "invalid"}
  BY DEF Verdict
<1>4. PageTyped'
  BY <1>1, <1>2, <1>3, SafeTabs DEF PageTyped
<1>5. ServerTyped' /\ UNCHANGED <<held, unsent>>
  BY <1>1, SafeTabs DEF ServerTyped, server
<1>6. CASE Set(s, Onward(old))
  BY <1>1, <1>4, <1>5, <1>6, GoesOnStep
<1>7. CASE old.content \in Accepted /\ Set(s, put)
  <2>1. /\ put \in EditorCalls /\ put.op = "put" /\ put.served = old.served /\ put.file = old.file
        /\ put.content = old.content /\ put.todo = old.todo
    BY <1>0 DEF EditorCalls
  <2> HIDE DEF put
  <2>2. SoundCall(put, Marked) /\ GuardedPut(put, Marked)
    BY <1>0, <1>1, <1>2, <1>7, <2>1 DEF SoundCall, GuardedPut
  <2> QED
    BY <1>1, <1>4, <1>7, <2>1, <2>2, EditorSend DEF put
<1> QED
  BY <1>1, <1>6, <1>7

LEMMA ServePutStep ==
    ASSUME EditorSafe, NEW s \in Slots, ServePut(s)
    PROVE  EditorSafe'
<1> DEFINE old == editorCalls[s]
           call == [old EXCEPT !.served = TRUE]
<1>0. /\ old \in EditorCalls /\ SoundCall(old, Marked) /\ ServerTyped
  BY SafeTabs, SoundSlot
<1>1. /\ NoInput /\ old.op = "put" /\ Set(s, call) /\ UNCHANGED <<active, unsent, view>>
      /\ disk' = [disk EXCEPT ![old.file] = old.content]
      /\ held' = [held EXCEPT ![old.file] = @ \cup {old.content}]
  BY DEF ServePut, Under
<1>2. unapplied' \in BOOLEAN
  <2> DEFINE due == unapplied \/ (IsConfig(old.file) /\ Name(old.file) = active /\ old.known = active)
  <2>1. unapplied' = due
    BY DEF ServePut
  <2>2. due \in BOOLEAN
    OBVIOUS
  <2> QED
    BY <2>1, <2>2
<1>3. old.file \in Files /\ old.content \in Contents
  BY <1>0, <1>1 DEF SoundCall
<1>4. ServerTyped' /\ MarkedGrows /\ old.content \in Marked'[old.file]
  BY <1>0, <1>1, <1>2, <1>3 DEF ServerTyped, MarkedGrows, Marked
<1>5. PageTyped' /\ Counted' /\ UNCHANGED tabs
  BY <1>1, SafeTabs, CountersStep DEF EditorSafe, PageTyped, view
<1>6. /\ call \in EditorCalls /\ call.op = "put" /\ call.file = old.file /\ call.content = old.content
      /\ call.todo = old.todo
  BY <1>0, <1>1 DEF EditorCalls
<1> HIDE DEF call
<1>7. SoundCall(call, Marked') /\ GuardedPut(call, Marked')
  BY <1>3, <1>4, <1>6 DEF SoundCall, GuardedPut
<1> QED
  BY <1>1, <1>4, <1>5, <1>6, <1>7, EditorCallStep

(***************************************************************************)
(* The marks go from every tab of the name, with what each shows by then:  *)
(* that is what was put, or is recorded as unsent.                         *)
(***************************************************************************)
LEMMA RecordedShown ==
    ASSUME EditorSafe, NEW call, unsent' = Recorded(call), UNCHANGED held
    PROVE  /\ unsent' \in [Files -> SUBSET Contents] /\ MarkedGrows
           /\ \A i \in TabsNamed(Name(call.file)) :
                 \/ tabs[i].file = call.file /\ tabs[i].content = call.content
                 \/ tabs[i].content \in Marked'[tabs[i].file]
<1> DEFINE shown(f) == {tabs[i].content : i \in {j \in Overtyped(call) : tabs[j].file = f}}
<1>1. /\ \A i \in DOMAIN tabs : tabs[i].file \in Files /\ tabs[i].content \in Contents
      /\ unsent \in [Files -> SUBSET Contents]
  BY SafeTabs DEF Tabs, ServerTyped
<1>2. Overtyped(call) \subseteq DOMAIN tabs
  BY DEF Overtyped, TabsNamed
<1>3. \A f \in Files : shown(f) \subseteq Contents
  BY <1>1, <1>2
<1>4. unsent' = [f \in Files |-> unsent[f] \cup shown(f)]
  BY DEF Recorded
<1>5. unsent' \in [Files -> SUBSET Contents] /\ MarkedGrows
  <2> HIDE DEF shown
  <2> QED
    BY <1>1, <1>3, <1>4 DEF MarkedGrows, Marked
<1>6. ASSUME NEW i \in Overtyped(call) PROVE tabs[i].content \in Marked'[tabs[i].file]
  <2>1. tabs[i].content \in shown(tabs[i].file) /\ tabs[i].file \in Files
    BY <1>1, <1>2
  <2> HIDE DEF shown
  <2> QED
    BY <1>4, <2>1 DEF Marked
<1> QED
  BY <1>5, <1>6 DEF Overtyped

LEMMA PutAnsweredStep ==
    ASSUME EditorSafe, NEW s \in Slots, PutAnswered(s)
    PROVE  EditorSafe'
<1> DEFINE old == editorCalls[s]
           n == Name(old.file)
           due == old.apply \/ (IsConfig(old.file) /\ n = old.known)
           call == [old EXCEPT !.apply = due]
           next == Onward(call)
<1>0. old \in EditorCalls /\ SoundCall(old, Marked)
  BY SoundSlot
<1>1. /\ NoInput /\ old.op = "put" /\ old.served /\ Set(s, next)
      /\ tabs' = Mapped(n, LAMBDA t : [t EXCEPT !.savedContent = t.content, !.dirty = FALSE])
      /\ unsent' = Recorded(old)
      /\ UNCHANGED <<disk, active, unapplied, held, activeTab, activeConfig, validation, autoFixResult,
                     deleteTarget>>
  BY DEF PutAnswered, Under
<1>2. due \in BOOLEAN
  BY <1>0 DEF EditorCalls
<1> HIDE DEF due
<1>3. call \in EditorCalls
  BY <1>0, <1>2 DEF EditorCalls
<1> HIDE DEF call
<1>4. next \in EditorCalls /\ SoundCall(next, Marked') /\ GuardedPut(next, Marked')
  BY <1>3, OnwardCall, OnwardSound
<1> HIDE DEF next
<1>5. /\ unsent' \in [Files -> SUBSET Contents] /\ MarkedGrows
      /\ \A i \in TabsNamed(n) : \/ tabs[i].file = old.file /\ tabs[i].content = old.content
                                 \/ tabs[i].content \in Marked'[tabs[i].file]
  BY <1>1, RecordedShown
<1>6. ServerTyped' /\ PageTyped' /\ Counted'
  BY <1>1, <1>5, SafeTabs, CountersStep DEF EditorSafe, ServerTyped, PageTyped
<1>7. tabs' \in Seq(Tabs) /\ DOMAIN tabs' = DOMAIN tabs
  BY <1>1, SafeTabs, CleanKeeps
<1>8. \A i \in DOMAIN tabs : IF i \in TabsNamed(n)
         THEN /\ tabs'[i].file = tabs[i].file /\ tabs'[i].content = tabs'[i].savedContent
              /\ tabs'[i].content = tabs[i].content
         ELSE tabs'[i] = tabs[i]
  <2> DEFINE Saved(t) == [t EXCEPT !.savedContent = t.content, !.dirty = FALSE]
  <2>1. \A i \in DOMAIN tabs : tabs'[i] = IF i \in TabsNamed(n) THEN Saved(tabs[i]) ELSE tabs[i]
    BY <1>1 DEF Mapped
  <2>2. \A t \in Tabs : /\ Saved(t).file = t.file /\ Saved(t).content = t.content
                        /\ Saved(t).savedContent = t.content
    BY DEF Tabs
  <2> HIDE DEF Saved
  <2> QED
    BY <2>1, <2>2, SafeTabs
<1>9. old.file \in Files /\ old.content \in Marked[old.file] /\ Marked[old.file] \subseteq Marked'[old.file]
  BY <1>0, <1>1, <1>5 DEF SoundCall, MarkedGrows
<1>10. ASSUME NEW i \in DOMAIN tabs PROVE CleanTab(tabs'[i], Marked')
  <2>1. CASE i \in TabsNamed(n)
    <3>1. tabs[i].content \in Marked'[tabs[i].file]
      BY <1>5, <1>9, <2>1
    <3> QED
      BY <1>8, <2>1, <3>1 DEF CleanTab
  <2>2. CASE i \notin TabsNamed(n)
    <3>1. tabs[i].file \in Files /\ CleanTab(tabs[i], Marked)
      BY SafeTabs
    <3> QED
      BY <1>5, <1>8, <2>2, <3>1 DEF CleanTab, MarkedGrows
  <2> QED
    BY <2>1, <2>2
<1>11. \A i \in DOMAIN tabs' : CleanTab(tabs'[i], Marked')
  BY <1>7, <1>10
<1>12. Set(s, next)
  BY <1>1
<1> QED
  BY <1>4, <1>5, <1>6, <1>7, <1>11, <1>12, EditorSlot

LEMMA FailedStep ==
    ASSUME EditorSafe, NEW s \in Slots, PutRefused(s) \/ CallFails(s)
    PROVE  EditorSafe'
<1> DEFINE old == editorCalls[s]
<1>1. /\ NoInput \/ Mishap
      /\ UNCHANGED <<disk, active, held, unsent, tabs, activeTab, validation, autoFixResult, deleteTarget>>
      /\ activeConfig' \in {activeConfig, None}
      /\ unapplied' \in {unapplied, FALSE}
  <2>1. CASE PutRefused(s)
    BY <2>1 DEF PutRefused, server, view
  <2>2. CASE CallFails(s)
    <3>1. /\ Mishap /\ activeConfig' \in {activeConfig, None}
          /\ UNCHANGED <<disk, active, held, unsent, tabs, activeTab, validation, autoFixResult, deleteTarget>>
          /\ unapplied' = (unapplied /\ old.op \notin {"put", "restart"})
      BY <2>2 DEF CallFails
    <3>2. unapplied \in BOOLEAN
      BY SafeTabs DEF ServerTyped
    <3>3. unapplied' \in {unapplied, FALSE}
      BY <3>1, <3>2
    <3> QED
      BY <3>1, <3>3
  <2> QED
    BY <2>1, <2>2
<1>2. ServerTyped' /\ PageTyped' /\ Counted' /\ MarkedGrows
  BY <1>1, SafeTabs, CountersStep, MarkedStays DEF EditorSafe, ServerTyped, PageTyped
<1>3. \/ old.op \in {"check", "put"} /\ Set(s, Onward(old))
      \/ Set(s, NoCall)
  BY DEF PutRefused, CallFails, Under
<1>4. CASE Set(s, NoCall)
  BY <1>1, <1>2, <1>4, EmptyCall, EditorCallStep
<1>5. CASE old.op \in {"check", "put"} /\ Set(s, Onward(old))
  BY <1>1, <1>2, <1>5, GoesOnStep
<1> QED
  BY <1>3, <1>4, <1>5

-----------------------------------------------------------------------------
LEMMA EditorSafeStart == EditorInit => EditorSafe
<1> SUFFICES ASSUME EditorInit PROVE EditorSafe
  OBVIOUS
<1>1. /\ disk \in [Files -> Contents \cup {None}] /\ active \in Configs /\ unapplied = FALSE
      /\ held = [f \in Files |-> {}] /\ unsent = held /\ tabs = <<>> /\ activeTab = None /\ activeConfig = active
      /\ validation = [n \in TabNames |-> "none"] /\ autoFixResult = None /\ deleteTarget = None
      /\ editorCalls = [s \in Slots |-> NoCall] /\ editorInputs = 0 /\ editorMishaps = 0
  BY DEF EditorInit
<1>2. /\ editorCalls \in [Slots -> EditorCalls] /\ \A s \in Slots : editorCalls[s] = NoCall
  BY <1>1, EmptyCall
<1>3. EditorTypeOK
  <2>1. held \in [Files -> SUBSET Contents] /\ unsent \in [Files -> SUBSET Contents]
    BY <1>1
  <2>2. tabs \in Seq(Tabs)
    BY <1>1
  <2>3. validation \in [TabNames -> {"none", "valid", "invalid"}]
    BY <1>1
  <2>4. editorInputs \in 0..MaxEditorInputs /\ editorMishaps \in 0..MaxEditorMishaps
    BY <1>1, EditorAssumption
  <2> QED
    BY <1>1, <1>2, <2>1, <2>2, <2>3, <2>4 DEF EditorTypeOK
<1>4. EditorCallsSound /\ CleanTabs
  BY <1>1, <1>2, EmptyCall DEF EditorCallsSound, CleanTabs
<1> QED
  BY <1>3, <1>4 DEF EditorSafe

LEMMA EditorSafeStep == EditorSafe /\ [EditorNext]_editorVars => EditorSafe'
<1> SUFFICES ASSUME EditorSafe, [EditorNext]_editorVars PROVE EditorSafe'
  OBVIOUS
<1>1. CASE \/ \E n \in TabNames : SelectTab(n)
           \/ \E n \in Configs : AskDelete(n)
           \/ CloseDialog \/ OtherWindow \/ UNCHANGED editorVars
  BY <1>1, EditorStill
<1>2. CASE \/ \E n \in TabNames : CloseTab(n)
           \/ \E c \in Contents : EditTab(c)
           \/ RevertCurrent
  BY <1>2, CloseTabStep, EditTabStep, RevertStep
<1>3. ASSUME NEW s \in Slots,
             \/ LoadFiles(s) \/ HandleValidate(s) \/ DebouncedValidate(s) \/ HandleAutoFix(s)
             \/ \E f \in Files : OpenFile(s, f)
             \/ \E n \in Configs : HandleSetActive(s, n)
      PROVE  EditorSafe'
  BY <1>3, OneEditorCallStep
<1>4. ASSUME NEW s \in Slots,
             \/ ApplyAutoFix(s) \/ HandleSave(s) \/ HandleSaveAll(s) \/ ConfirmDelete(s)
             \/ \E n \in Configs : HandleCreateFile(s, n)
      PROVE  EditorSafe'
  BY <1>4, ApplyAutoFixStep, HandleSaveStep, HandleSaveAllStep, ConfigCallStep
<1>5. ASSUME NEW s \in Slots,
             ServeLoad(s) \/ ServeOpen(s) \/ ServeActivate(s) \/ ServeCreate(s) \/ ServeDelete(s)
      PROVE  EditorSafe'
  BY <1>5, ServeEditorStep
<1>6. ASSUME NEW s \in Slots,
             \/ ValidateAnswered(s) \/ AutoFixAnswered(s) \/ LoadAnswered(s) \/ ActivateAnswered(s)
             \/ CreateAnswered(s) \/ CallRefused(s) \/ RestartAnswered(s)
      PROVE  EditorSafe'
  BY <1>6, AnswerStep
<1>7. ASSUME NEW s \in Slots,
             \/ OpenAnswered(s) \/ DeleteAnswered(s) \/ CheckAnswered(s) \/ ServePut(s)
             \/ PutAnswered(s) \/ PutRefused(s) \/ CallFails(s)
      PROVE  EditorSafe'
  BY <1>7, TabAnswerStep, CheckAnsweredStep, ServePutStep, PutAnsweredStep, FailedStep
<1> QED
  BY <1>1, <1>2, <1>3, <1>4, <1>5, <1>6, <1>7 DEF EditorNext

LEMMA EditorInvariant == EditorSpec => []EditorSafe
BY EditorSafeStart, EditorSafeStep, PTL DEF EditorSpec

\* Every variable of the configuration editor has its type.
THEOREM EditorTypes == EditorSpec => []EditorTypeOK
<1>1. EditorSafe => EditorTypeOK
  BY DEF EditorSafe
<1> QED
  BY <1>1, EditorInvariant, PTL

(***************************************************************************)
(* A tab without the mark holds what the page has read from its file or    *)
(* stored in it, or what stood in it when the save of another text was     *)
(* answered (page.tsx, saveTab), and nothing else: however many tabs a     *)
(* name has, whatever is typed meanwhile, in whatever order answers come   *)
(* in and whatever fails.                                                  *)
(***************************************************************************)
THEOREM CleanTabsAreStored == EditorSpec => []CleanMeansStored
<1>1. EditorSafe => CleanMeansStored
  <2> SUFFICES ASSUME EditorSafe, NEW i \in DOMAIN tabs, ~tabs[i].dirty
               PROVE  tabs[i].content \in held[tabs[i].file] \cup unsent[tabs[i].file]
    BY DEF CleanMeansStored
  <2>1. tabs[i].file \in Files /\ CleanTab(tabs[i], Marked)
    BY SafeTabs
  <2> QED
    BY <2>1 DEF CleanTab, Marked
<1> QED
  BY <1>1, EditorInvariant, PTL

-----------------------------------------------------------------------------
(***************************************************************************)
(* What a step may not do                                                  *)
(***************************************************************************)
\* The call of another slot stays.
LEMMA OtherSlot ==
    ASSUME EditorSafe, NEW s \in Slots, NEW r \in Slots, NEW call, Set(r, call), editorCalls'[s] # editorCalls[s]
    PROVE  r = s /\ editorCalls'[s] = call
<1>1. editorCalls \in [Slots -> EditorCalls] /\ editorCalls' = [editorCalls EXCEPT ![r] = call]
  BY SafeTabs DEF Set
<1> QED
  BY <1>1

\* Nothing but ServePut serves a put.
LEMMA PutIsServed ==
    ASSUME EditorSafe, [EditorNext]_editorVars, NEW s \in Slots, editorCalls[s].op = "put",
           ~editorCalls[s].served, editorCalls'[s].served
    PROVE  ServePut(s)
<1>0. editorCalls'[s] # editorCalls[s]
  OBVIOUS
<1>1. CASE \/ \E n \in TabNames : SelectTab(n) \/ CloseTab(n)
           \/ \E n \in Configs : AskDelete(n)
           \/ \E c \in Contents : EditTab(c)
           \/ RevertCurrent \/ CloseDialog \/ OtherWindow \/ UNCHANGED editorVars
  BY <1>0, <1>1 DEF SelectTab, CloseTab, AskDelete, EditTab, RevertCurrent, CloseDialog, OtherWindow, editorVars
<1>2. ASSUME NEW r \in Slots, Under(r, "none"), NEW call, Set(r, call)
      PROVE  FALSE
  BY <1>0, <1>2, OtherSlot DEF Under
<1>3. ASSUME NEW r \in Slots,
             \/ LoadFiles(r) \/ HandleValidate(r) \/ DebouncedValidate(r) \/ HandleAutoFix(r)
             \/ ApplyAutoFix(r) \/ HandleSave(r) \/ HandleSaveAll(r) \/ ConfirmDelete(r)
             \/ \E n \in Configs : HandleSetActive(r, n) \/ HandleCreateFile(r, n)
      PROVE  FALSE
  <2>1. Under(r, "none") /\ \E call : Set(r, call)
    BY <1>3 DEF LoadFiles, HandleValidate, DebouncedValidate, HandleAutoFix, ApplyAutoFix, HandleSave,
                HandleSaveAll, ConfirmDelete, HandleSetActive, HandleCreateFile, Send
  <2> QED
    BY <1>2, <2>1
<1>4. ASSUME NEW r \in Slots, NEW f \in Files, OpenFile(r, f)
      PROVE  FALSE
  <2>1. UNCHANGED editorCalls \/ (Under(r, "none") /\ \E call : Set(r, call))
    BY <1>4 DEF OpenFile, Send
  <2> QED
    BY <1>0, <1>2, <2>1
<1>5. ASSUME NEW r \in Slots, editorCalls[r].op # "put", NEW call, Set(r, call)
      PROVE  FALSE
  BY <1>0, <1>5, OtherSlot
<1>6. ASSUME NEW r \in Slots,
             \/ ServeLoad(r) \/ ServeOpen(r) \/ ServeActivate(r) \/ ServeCreate(r) \/ ServeDelete(r)
             \/ ValidateAnswered(r) \/ AutoFixAnswered(r) \/ CheckAnswered(r) \/ RestartAnswered(r)
             \/ LoadAnswered(r) \/ OpenAnswered(r) \/ ActivateAnswered(r) \/ CreateAnswered(r)
             \/ DeleteAnswered(r) \/ CallRefused(r)
      PROVE  FALSE
  <2>1. editorCalls[r].op # "put" /\ \E call : Set(r, call)
    BY <1>6 DEF ServeLoad, ServeOpen, ServeActivate, ServeCreate, ServeDelete, Serve, Under, Answer,
                ValidateAnswered, AutoFixAnswered, CheckAnswered, RestartAnswered, LoadAnswered,
                OpenAnswered, ActivateAnswered, CreateAnswered, DeleteAnswered, CallRefused
  <2> QED
    BY <1>5, <2>1
<1>7. ASSUME NEW r \in Slots, PutAnswered(r) \/ PutRefused(r) \/ CallFails(r)
      PROVE  FALSE
  <2>1. CASE PutAnswered(r)
    <3>1. editorCalls[r].served /\ \E call : Set(r, call)
      BY <2>1 DEF PutAnswered
    <3> QED
      BY <1>0, <3>1, OtherSlot
  <2>2. CASE PutRefused(r) \/ CallFails(r)
    <3>1. ~Onward(editorCalls[r]).served /\ ~NoCall.served
      BY SafeTabs, OnwardCall, EmptyCall
    <3>2. PICK call : Set(r, call) /\ ~call.served
      BY <2>2, <3>1 DEF PutRefused, CallFails
    <3> QED
      BY <1>0, <3>2, OtherSlot
  <2> QED
    BY <1>7, <2>1, <2>2
<1>8. ASSUME NEW r \in Slots, ServePut(r) PROVE ServePut(s)
  BY <1>0, <1>8, OtherSlot DEF ServePut
<1> QED
  BY <1>1, <1>3, <1>4, <1>6, <1>7, <1>8 DEF EditorNext

(***************************************************************************)
(* The server stores in a config file nothing from this page that did not  *)
(* pass the check (page.tsx, saveTab), unless it had been read from that   *)
(* file or stood in its tab when the save of another text was answered.    *)
(* The check and the put carry one text; and what skips the check is       *)
(* what a tab without the mark holds.                                      *)
(***************************************************************************)
THEOREM SavesAreChecked == EditorSpec => NoNewInvalidConfig
<1>1. ASSUME EditorSafe, [EditorNext]_editorVars, NEW s \in Slots, NEW f \in Files, IsConfig(f),
             editorCalls[s].op = "put", editorCalls[s].file = f, ~editorCalls[s].served, editorCalls'[s].served
      PROVE  disk'[f] \in Accepted \cup held[f] \cup unsent[f]
  <2>1. ServePut(s) /\ disk \in [Files -> Contents \cup {None}]
    BY <1>1, PutIsServed DEF EditorSafe, EditorTypeOK
  <2>2. disk'[f] = editorCalls[s].content
    BY <1>1, <2>1 DEF ServePut
  <2>3. editorCalls[s].content \in Accepted \cup Marked[f]
    BY <1>1, SoundSlot DEF GuardedPut
  <2> QED
    BY <2>2, <2>3 DEF Marked
<1>2. ASSUME EditorSafe, [EditorNext]_editorVars
      PROVE  [\A s \in Slots, f \in Files :
                 /\ IsConfig(f) /\ editorCalls[s].op = "put" /\ editorCalls[s].file = f
                 /\ ~editorCalls[s].served /\ editorCalls'[s].served
                 => disk'[f] \in Accepted \cup held[f] \cup unsent[f]]_editorVars
  BY <1>1, <1>2
<1> QED
  BY <1>2, EditorInvariant, PTL DEF EditorSpec, NoNewInvalidConfig

-----------------------------------------------------------------------------
\* Between inputs, only three answers change the tabs.
LEMMA TabsMove ==
    ASSUME EditorSafe, [EditorNext]_editorVars, UNCHANGED editorInputs, ~UNCHANGED tabs
    PROVE  \E s \in Slots : OpenAnswered(s) \/ DeleteAnswered(s) \/ PutAnswered(s)
<1>1. ~Input
  BY DEF Input, EditorSafe, EditorTypeOK
<1>2. ~OtherWindow /\ ~UNCHANGED editorVars
  BY DEF OtherWindow, view, editorVars
<1>3. ASSUME NEW s \in Slots,
             \/ DebouncedValidate(s) \/ ServePut(s) \/ ServeLoad(s) \/ ServeOpen(s) \/ ServeActivate(s)
             \/ ServeCreate(s) \/ ServeDelete(s) \/ ValidateAnswered(s) \/ AutoFixAnswered(s)
             \/ CheckAnswered(s) \/ PutRefused(s) \/ RestartAnswered(s) \/ LoadAnswered(s)
             \/ ActivateAnswered(s) \/ CreateAnswered(s) \/ CallRefused(s) \/ CallFails(s)
      PROVE  FALSE
  BY <1>3 DEF DebouncedValidate, ServePut, ServeLoad, ServeOpen, ServeActivate, ServeCreate, ServeDelete,
              ValidateAnswered, AutoFixAnswered, CheckAnswered, PutRefused, RestartAnswered, LoadAnswered,
              ActivateAnswered, CreateAnswered, CallRefused, CallFails, view
<1>4. /\ \A n \in TabNames : ~SelectTab(n) /\ ~CloseTab(n)
      /\ \A n \in Configs : ~AskDelete(n)
      /\ \A c \in Contents : ~EditTab(c)
      /\ ~RevertCurrent /\ ~CloseDialog
  BY <1>1 DEF SelectTab, CloseTab, AskDelete, EditTab, RevertCurrent, CloseDialog
<1>5. \A s \in Slots :
         /\ ~LoadFiles(s) /\ ~HandleValidate(s) /\ ~HandleAutoFix(s) /\ ~ApplyAutoFix(s)
         /\ ~HandleSave(s) /\ ~HandleSaveAll(s) /\ ~ConfirmDelete(s)
         /\ \A f \in Files : ~OpenFile(s, f)
         /\ \A n \in Configs : ~HandleSetActive(s, n) /\ ~HandleCreateFile(s, n)
  BY <1>1 DEF LoadFiles, HandleValidate, HandleAutoFix, ApplyAutoFix, HandleSave, HandleSaveAll,
              ConfirmDelete, OpenFile, HandleSetActive, HandleCreateFile
<1> QED
  BY <1>2, <1>3, <1>4, <1>5 DEF EditorNext

\* What is saved stays in its tab.
LEMMA SavedKeeps ==
    ASSUME tabs \in Seq(Tabs), NEW n,
           tabs' = Mapped(n, LAMBDA t : [t EXCEPT !.savedContent = t.content, !.dirty = FALSE])
    PROVE  /\ DOMAIN tabs' = DOMAIN tabs
           /\ \A i \in DOMAIN tabs : tabs'[i].file = tabs[i].file /\ tabs'[i].content = tabs[i].content
<1> DEFINE saved == Mapped(n, LAMBDA t : [t EXCEPT !.savedContent = t.content, !.dirty = FALSE])
<1>1. /\ DOMAIN saved = DOMAIN tabs
      /\ \A i \in DOMAIN tabs : IF Name(tabs[i].file) = n
            THEN saved[i].file = tabs[i].file /\ saved[i].content = tabs[i].content
            ELSE saved[i] = tabs[i]
  BY ContentClean
<1> QED
  BY <1>1

\* Of the tabs that are kept, the first of a name is the one it was.
LEMMA KeptFirst ==
    ASSUME tabs \in Seq(Tabs), NEW m, NEW n, m # n, tabs' = WithoutName(m), IsOpen(n)
    PROVE  \E p \in DOMAIN tabs' :
              /\ tabs'[p] = tabs[First(n)]
              /\ \A i \in DOMAIN tabs' : Name(tabs'[i].file) = n => p <= i
<1> DEFINE S == DOMAIN tabs \ TabsNamed(m)
<1>1. First(n) \in TabsNamed(n) /\ \A j \in TabsNamed(n) : First(n) <= j
  BY FirstIsLeast
<1>2. /\ tabs' = Kept(S) /\ S \in SUBSET DOMAIN tabs /\ First(n) \in S
  BY <1>1 DEF WithoutName, TabsNamed
<1>3. /\ Kept(S) \in Seq(Tabs)
      /\ \A k \in DOMAIN Kept(S) : Place(S, k) \in S /\ Kept(S)[k] = tabs[Place(S, k)]
      /\ \A k, l \in DOMAIN Kept(S) : k < l => Place(S, k) < Place(S, l)
      /\ \A i \in S : \E k \in DOMAIN Kept(S) : Place(S, k) = i
  BY <1>2, KeptTabs
<1> HIDE DEF S
<1>4. PICK p \in DOMAIN tabs' : Place(S, p) = First(n)
  BY <1>2, <1>3
<1>5. ASSUME NEW i \in DOMAIN tabs', Name(tabs'[i].file) = n PROVE p <= i
  <2>1. Place(S, i) \in TabsNamed(n)
    BY <1>2, <1>3, <1>5 DEF TabsNamed
  <2>2. Place(S, p) <= Place(S, i) /\ Place(S, i) \in Nat /\ Place(S, p) \in Nat
    BY <1>1, <1>2, <1>3, <1>4, <2>1
  <2>3. ~(i < p)
    BY <1>2, <1>3, <2>2
  <2>4. i \in Nat /\ p \in Nat
    BY <1>2, <1>3
  <2> QED
    BY <2>3, <2>4
<1> QED
  BY <1>2, <1>3, <1>4, <1>5

(***************************************************************************)
(* No answer takes a draft from the user (page.tsx, handleFileClick,       *)
(* saveTab and the deletion's handler): whatever is answered, refused or   *)
(* lost, the first tab of a name stays the first, with its text, until an  *)
(* input or the deletion that the user confirmed.                          *)
(***************************************************************************)
THEOREM DraftsAreKept == EditorSpec => AnswersKeepDrafts
<1>1. ASSUME EditorSafe, [EditorNext]_editorVars, editorInputs' = editorInputs, NEW n \in TabNames,
             IsOpen(n), tabs[First(n)].dirty,
             ~\E s \in Slots : Under(s, "delete") /\ Name(editorCalls[s].file) = n
      PROVE  IsOpen(n)' /\ tabs'[First(n)'].content = tabs[First(n)].content
  <2>0. tabs \in Seq(Tabs) /\ tabs' \in Seq(Tabs)
    BY <1>1, EditorSafeStep DEF EditorSafe, EditorTypeOK
  <2>1. /\ First(n) \in DOMAIN tabs /\ Name(tabs[First(n)].file) = n
        /\ \A i \in DOMAIN tabs : Name(tabs[i].file) = n => First(n) <= i
    BY <1>1, <2>0, FirstIsLeast DEF TabsNamed
  <2>2. ASSUME NEW p \in DOMAIN tabs', Name(tabs'[p].file) = n, tabs'[p].content = tabs[First(n)].content,
               \A i \in DOMAIN tabs' : Name(tabs'[i].file) = n => p <= i
        PROVE  IsOpen(n)' /\ tabs'[First(n)'].content = tabs[First(n)].content
    BY <2>0, <2>2, FirstStays
  <2>3. CASE UNCHANGED tabs
    BY <2>1, <2>2, <2>3
  <2>4. ASSUME NEW s \in Slots, PutAnswered(s)
        PROVE  IsOpen(n)' /\ tabs'[First(n)'].content = tabs[First(n)].content
    <3>1. tabs' = Mapped(Name(editorCalls[s].file),
                         LAMBDA t : [t EXCEPT !.savedContent = t.content, !.dirty = FALSE])
      BY <2>4 DEF PutAnswered
    <3>2. /\ DOMAIN tabs' = DOMAIN tabs
          /\ \A i \in DOMAIN tabs : tabs'[i].file = tabs[i].file /\ tabs'[i].content = tabs[i].content
      BY <2>0, <3>1, SavedKeeps
    <3> QED
      BY <2>1, <2>2, <3>2
  <2>5. ASSUME NEW s \in Slots, DeleteAnswered(s)
        PROVE  IsOpen(n)' /\ tabs'[First(n)'].content = tabs[First(n)].content
    <3>1. tabs' = WithoutName(Name(editorCalls[s].file)) /\ Name(editorCalls[s].file) # n
      BY <1>1, <2>5 DEF DeleteAnswered, Answer
    <3>2. \E p \in DOMAIN tabs' :
             /\ tabs'[p] = tabs[First(n)]
             /\ \A i \in DOMAIN tabs' : Name(tabs'[i].file) = n => p <= i
      BY <1>1, <2>0, <3>1, KeptFirst
    <3> QED
      BY <2>1, <2>2, <3>2
  <2>6. ASSUME NEW s \in Slots, OpenAnswered(s)
        PROVE  IsOpen(n)' /\ tabs'[First(n)'].content = tabs[First(n)].content
    <3> DEFINE t == Fresh(editorCalls[s])
    <3>1. tabs' = Append(tabs, t)
      BY <2>6 DEF OpenAnswered
    <3> HIDE DEF t
    <3>2. /\ DOMAIN tabs \subseteq DOMAIN tabs' /\ \A i \in DOMAIN tabs : tabs'[i] = tabs[i]
          /\ \A i \in DOMAIN tabs' \ DOMAIN tabs : \A j \in DOMAIN tabs : j <= i
      BY <2>0, <3>1
    <3> QED
      BY <2>1, <2>2, <3>2
  <2> QED
    BY <1>1, <2>3, <2>4, <2>5, <2>6, TabsMove
<1>2. ASSUME EditorSafe, [EditorNext]_editorVars
      PROVE  [editorInputs' = editorInputs =>
                 \A n \in TabNames :
                    /\ IsOpen(n) /\ tabs[First(n)].dirty
                    /\ ~\E s \in Slots : Under(s, "delete") /\ Name(editorCalls[s].file) = n
                    => IsOpen(n)' /\ tabs'[First(n)'].content = tabs[First(n)].content]_editorVars
  BY <1>1, <1>2
<1> QED
  BY <1>2, EditorInvariant, PTL DEF EditorSpec, AnswersKeepDrafts

-----------------------------------------------------------------------------
(***************************************************************************)
(* Settings                                                                *)
(***************************************************************************)
(***************************************************************************)
(* A call of a page that is there is of the page that is shown; what is    *)
(* saved or loaded is what the server has once held.                       *)
(***************************************************************************)
SettingsCallSound(call, seen, shown) ==
    /\ call.op \in {"check", "save", "switch"} => call.object \in Objects
    /\ call.op = "load" => /\ call.mounted
                           /\ call.served => \E settings \in seen : call.object = Encode(settings)
    /\ call.op = "save" /\ call.served => Displayed(call.object) \in seen
    /\ call.mounted /\ call.op \in {"check", "switch"} => shown = "dashboard"
    /\ call.mounted /\ call.op = "save" => shown = "settings"

SettingsCallsSound ==
    \A s \in SettingsSlots : SettingsCallSound(settingsCalls[s], settingsSeen, page)

FormSound ==
    page = "settings" /\ config # Absent =>
        /\ config \in Objects /\ savedConfigRef \in Objects /\ rawJson \in Objects
        /\ Displayed(savedConfigRef) \in settingsSeen

CleanIsSeen ==
    page = "settings" /\ config # Absent /\ ~dirty
    => Displayed(config) \in settingsSeen \cup settingsUnsent

SettingsInv == SettingsTypeOK /\ SettingsCallsSound /\ FormSound /\ CleanIsSeen

-----------------------------------------------------------------------------
(***************************************************************************)
(* The two spellings.  What is read, written and read again stays what it  *)
(* was.                                                                    *)
(***************************************************************************)
LEMMA ValueTyped ==
    ASSUME NEW object \in Objects, NEW f \in Fields
    PROVE  /\ object[f] \in [pascal : Values \cup {Absent}, snake : Values \cup {Absent}]
           /\ Value(object[f]) \in Values \cup {Absent}
BY DEF Objects, Value

LEMMA DisplayedTyped ==
    ASSUME NEW object \in Objects
    PROVE  Displayed(object) \in Settings
BY ValueTyped, SettingsAssumption DEF Displayed, Settings

LEMMA StoredIsDisplayed ==
    ASSUME NEW object \in Objects
    PROVE  Decode(Serialize(object)) = Displayed(object)
<1> DEFINE both == Serialize(object)
<1>1. ASSUME NEW f \in Fields
      PROVE  Value(both[f]) = Value(object[f]) /\ both[f].snake = Value(object[f])
  <2> DEFINE v == Value(object[f])
  <2>1. both[f] = [pascal |-> v, snake |-> v]
    BY DEF Serialize
  <2> HIDE DEF v, both
  <2>2. both[f].pascal = v /\ both[f].snake = v
    BY <2>1
  <2> QED
    BY <2>2 DEF Value, v
<1> HIDE DEF both
<1>2. \A f \in Fields : Decode(both)[f] = Displayed(object)[f]
  BY <1>1 DEF Decode, Displayed
<1>3. /\ Decode(both) = [f \in Fields |-> Decode(both)[f]]
      /\ Displayed(object) = [f \in Fields |-> Displayed(object)[f]]
  BY DEF Decode, Displayed
<1> QED
  BY <1>2, <1>3 DEF both

LEMMA NormalizeReads ==
    ASSUME NEW object \in Objects
    PROVE  Normalize(object) \in Objects /\ Displayed(Normalize(object)) = Displayed(object)
<1>1. \A f \in Fields : Value(object[f]) \in Values \cup {Absent}
  BY ValueTyped
<1>2. Normalize(object) \in Objects
  BY <1>1 DEF Normalize, Objects
<1>3. \A f \in Fields : Value(Normalize(object)[f]) = Value(object[f])
  BY DEF Normalize, Value
<1> QED
  BY <1>2, <1>3 DEF Displayed

LEMMA EncodeReads ==
    ASSUME NEW settings \in Settings
    PROVE  Encode(settings) \in Objects /\ Displayed(Encode(settings)) = settings
<1>1. \A f \in Fields : settings[f] \in Values /\ settings[f] # Absent
  BY SettingsAssumption DEF Settings
<1>2. Encode(settings) \in Objects
  BY <1>1 DEF Encode, Objects
<1>3. \A f \in Fields : Value(Encode(settings)[f]) = settings[f]
  BY <1>1 DEF Encode, Value
<1>4. Displayed(Encode(settings)) = [f \in Fields |-> settings[f]]
  BY <1>1, <1>3 DEF Displayed
<1>5. settings = [f \in Fields |-> settings[f]]
  BY DEF Settings
<1> QED
  BY <1>2, <1>4, <1>5

LEMMA ChangedTyped ==
    ASSUME NEW object \in Objects, NEW f \in Fields, NEW v \in Values \cup {Absent}
    PROVE  /\ [object EXCEPT ![f].pascal = v] \in Objects
           /\ \A spelling \in {"pascal", "snake"} : [object EXCEPT ![f][spelling] = v] \in Objects
<1>1. [object EXCEPT ![f].pascal = v] \in Objects
  BY DEF Objects
<1>2. [object EXCEPT ![f]["pascal"] = v] \in Objects
  BY DEF Objects
<1>3. [object EXCEPT ![f]["snake"] = v] \in Objects
  BY DEF Objects
<1> QED
  BY <1>1, <1>2, <1>3

LEMMA ModeSwitched ==
    ASSUME NEW object \in Objects, NEW mode \in Values
    PROVE  [object EXCEPT !["mode"].pascal = mode] \in Objects
BY ChangedTyped DEF Fields

-----------------------------------------------------------------------------
(***************************************************************************)
(* A step puts one call into a slot, and the others stay as sound as they  *)
(* were.                                                                   *)
(***************************************************************************)
ViewTyped ==
    /\ config \in Objects \cup {Absent} /\ savedConfigRef \in Objects \cup {Absent}
    /\ rawJson \in Objects \cup {Absent}
    /\ dirty \in BOOLEAN /\ issues \in BOOLEAN /\ unchecked \in BOOLEAN

LEMMA NoSettingsCallTyped ==
    /\ NoSettingsCall \in SettingsCalls /\ NoSettingsCall.op = "none" /\ NoSettingsCall.mounted = FALSE
    /\ \A seen, shown : SettingsCallSound(NoSettingsCall, seen, shown)
BY DEF NoSettingsCall, SettingsCalls, SettingsCallSound

LEMMA SettingsSlot ==
    ASSUME SettingsInv, NEW s \in SettingsSlots, NEW call \in SettingsCalls, Now(s, call), UNCHANGED page,
           settingsSeen \subseteq settingsSeen', SettingsCallSound(call, settingsSeen', page),
           stored' \in Settings, settingsSeen' \subseteq Settings, settingsUnsent' \subseteq Settings,
           ViewTyped', FormSound', CleanIsSeen'
    PROVE  SettingsInv'
<1>1. /\ settingsCalls \in [SettingsSlots -> SettingsCalls] /\ page \in {"settings", "dashboard"}
      /\ settingsCalls' = [settingsCalls EXCEPT ![s] = call]
  BY DEF SettingsInv, SettingsTypeOK, Now
<1>2. /\ settingsCalls' \in [SettingsSlots -> SettingsCalls] /\ settingsCalls'[s] = call
      /\ \A r \in SettingsSlots : r # s => settingsCalls'[r] = settingsCalls[r]
  BY <1>1
<1>3. SettingsTypeOK'
  BY <1>1, <1>2 DEF SettingsTypeOK, ViewTyped
<1>4. SettingsCallsSound'
  <2> SUFFICES ASSUME NEW r \in SettingsSlots, r # s
               PROVE  SettingsCallSound(settingsCalls[r], settingsSeen', page)
    BY <1>2 DEF SettingsCallsSound
  <2>1. SettingsCallSound(settingsCalls[r], settingsSeen, page)
    BY DEF SettingsInv, SettingsCallsSound
  <2> QED
    BY <2>1 DEF SettingsCallSound
<1> QED
  BY <1>3, <1>4 DEF SettingsInv

\* The page is shown as it was.
LEMMA SettingsViewKept ==
    ASSUME SettingsInv, UNCHANGED <<page, config, savedConfigRef, dirty, rawJson>>,
           issues' \in BOOLEAN, unchecked' \in BOOLEAN,
           settingsSeen \subseteq settingsSeen', settingsUnsent \subseteq settingsUnsent'
    PROVE  ViewTyped' /\ FormSound' /\ CleanIsSeen'
BY DEF SettingsInv, SettingsTypeOK, ViewTyped, FormSound, CleanIsSeen

\* The same for a step that only changes what is under way.
LEMMA SettingsCallStep ==
    ASSUME SettingsInv, NEW s \in SettingsSlots, NEW call \in SettingsCalls, Now(s, call),
           UNCHANGED <<stored, settingsSeen, page, config, savedConfigRef, dirty, rawJson>>,
           settingsUnsent \subseteq settingsUnsent', settingsUnsent' \subseteq Settings,
           issues' \in BOOLEAN, unchecked' \in BOOLEAN,
           SettingsCallSound(call, settingsSeen, page)
    PROVE  SettingsInv'
<1>1. stored \in Settings /\ settingsSeen \subseteq Settings
  BY DEF SettingsInv, SettingsTypeOK
<1>2. ViewTyped' /\ FormSound' /\ CleanIsSeen'
  BY SettingsViewKept
<1> QED
  BY <1>1, <1>2, SettingsSlot

-----------------------------------------------------------------------------
\* The form and the raw editor: nothing is sent.
LEMMA SettingsFormStep ==
    ASSUME SettingsInv,
           \/ HandleRawSave \/ UNCHANGED settingsVars
           \/ \E f \in Fields, v \in Values \cup {Absent} :
                 \/ v # Absent /\ ChangeField(f, v)
                 \/ \E spelling \in {"pascal", "snake"} : EditRawJson(f, v, spelling)
    PROVE  SettingsInv'
<1>0. SettingsTypeOK
  BY DEF SettingsInv
<1>1. CASE UNCHANGED settingsVars
  BY <1>1 DEF settingsVars, settingsServer, pageView, SettingsInv, SettingsTypeOK, SettingsCallsSound, FormSound,
              CleanIsSeen
<1>2. ASSUME Form PROVE config \in Objects /\ savedConfigRef \in Objects /\ rawJson \in Objects
                        /\ page = "settings" /\ Displayed(savedConfigRef) \in settingsSeen
  BY <1>0, <1>2 DEF Form, SettingsInv, FormSound
<1>3. ASSUME NEW object \in Objects, Edit(object), UNCHANGED rawJson PROVE SettingsInv'
  <2>1. /\ Form /\ config' = object /\ dirty' = (object # savedConfigRef) /\ unchecked' = TRUE
        /\ UNCHANGED <<stored, settingsSeen, settingsUnsent>>
        /\ UNCHANGED <<page, savedConfigRef, issues, settingsCalls, rawJson>>
    BY <1>3 DEF Edit, settingsServer
  <2>2. SettingsTypeOK'
    BY <1>0, <2>1 DEF SettingsTypeOK
  <2>3. SettingsCallsSound' /\ FormSound'
    BY <1>0, <1>2, <2>1 DEF SettingsInv, SettingsCallsSound, FormSound
  <2>4. CleanIsSeen'
    BY <1>2, <2>1 DEF CleanIsSeen
  <2> QED
    BY <2>2, <2>3, <2>4 DEF SettingsInv
<1>4. ASSUME NEW f \in Fields, NEW v \in Values, ChangeField(f, v) PROVE SettingsInv'
  <2> DEFINE object == [config EXCEPT ![f].pascal = v]
  <2>1. Form /\ Edit(object) /\ UNCHANGED rawJson
    BY <1>4 DEF ChangeField
  <2>2. object \in Objects
    BY <1>2, <2>1, ChangedTyped
  <2> QED
    BY <1>3, <2>1, <2>2
<1>5. CASE HandleRawSave
  <2> DEFINE opts == IF Value(rawJson["restart"]) = Absent THEN Blank ELSE Value(rawJson["restart"])
             object == [rawJson EXCEPT !["restart"].pascal = opts]
  <2>1. Form /\ Edit(object) /\ UNCHANGED rawJson
    BY <1>5 DEF HandleRawSave
  <2>2. "restart" \in Fields /\ opts \in Values \cup {Absent}
    <3>1. "restart" \in Fields
      BY DEF Fields
    <3>2. Value(rawJson["restart"]) \in Values \cup {Absent}
      BY <1>2, <2>1, <3>1, ValueTyped
    <3> QED
      BY <3>1, <3>2, SettingsAssumption
  <2> HIDE DEF opts
  <2>3. object \in Objects
    BY <1>2, <2>1, <2>2, ChangedTyped
  <2> QED
    BY <1>3, <2>1, <2>3
<1>6. ASSUME NEW f \in Fields, NEW v \in Values \cup {Absent}, NEW spelling \in {"pascal", "snake"},
             EditRawJson(f, v, spelling)
      PROVE  SettingsInv'
  <2>1. /\ Form /\ rawJson' = [rawJson EXCEPT ![f][spelling] = v]
        /\ UNCHANGED <<stored, settingsSeen, settingsUnsent>>
        /\ UNCHANGED <<page, config, savedConfigRef, dirty, issues, unchecked, settingsCalls>>
    BY <1>6 DEF EditRawJson, settingsServer
  <2>2. rawJson' \in Objects
    BY <1>2, <2>1, ChangedTyped
  <2>3. SettingsTypeOK'
    BY <1>0, <2>1, <2>2 DEF SettingsTypeOK
  <2>4. SettingsCallsSound' /\ FormSound'
    BY <1>0, <2>1, <2>2 DEF SettingsInv, SettingsCallsSound, FormSound
  <2>5. CleanIsSeen'
    BY <2>1 DEF SettingsInv, CleanIsSeen
  <2> QED
    BY <2>3, <2>4, <2>5 DEF SettingsInv
<1> QED
  BY <1>1, <1>4, <1>5, <1>6

LEMMA Called ==
    ASSUME NEW s, NEW op, NEW object, Calls(s, op, object),
           op \in {"none", "load", "validate", "check", "save", "switch"}, object \in Objects \cup {Absent}
    PROVE  \E call \in SettingsCalls :
              /\ Now(s, call) /\ call.op = op /\ ~call.served /\ call.mounted /\ call.object = object
<1> DEFINE call == [op |-> op, served |-> FALSE, mounted |-> TRUE, object |-> object]
<1>1. Now(s, call)
  BY DEF Calls
<1>2. call \in SettingsCalls /\ call.op = op /\ ~call.served /\ call.mounted /\ call.object = object
  BY DEF SettingsCalls
<1> HIDE DEF call
<1> QED
  BY <1>1, <1>2

LEMMA SettingsSendStep ==
    ASSUME SettingsInv, NEW s \in SettingsSlots,
           \/ Reload(s) \/ ValidateRouting(s) \/ HandleSubmit(s)
           \/ \E mode \in Values : HandleRoutingSwitch(s, mode)
    PROVE  SettingsInv'
<1>0. /\ config \in Objects \cup {Absent} /\ Absent \in Objects \cup {Absent}
      /\ issues \in BOOLEAN /\ unchecked \in BOOLEAN /\ settingsUnsent \subseteq Settings
  BY DEF SettingsInv, SettingsTypeOK
<1>1. CASE Reload(s)
  <2>1. /\ Calls(s, "load", Absent)
        /\ UNCHANGED <<stored, settingsSeen, settingsUnsent>>
        /\ UNCHANGED <<page, config, savedConfigRef, dirty, rawJson, issues, unchecked>>
    BY <1>1 DEF Reload, settingsServer, pageView
  <2>2. PICK call \in SettingsCalls :
           /\ Now(s, call) /\ call.op = "load" /\ ~call.served /\ call.mounted /\ call.object = Absent
    BY <1>0, <2>1, Called
  <2> QED
    BY <1>0, <2>1, <2>2, SettingsCallStep DEF SettingsCallSound
<1>2. CASE ValidateRouting(s)
  <2>1. /\ Calls(s, "validate", config) /\ unchecked' = FALSE
        /\ UNCHANGED <<stored, settingsSeen, settingsUnsent>>
        /\ UNCHANGED <<page, config, savedConfigRef, dirty, rawJson, issues>>
    BY <1>2 DEF ValidateRouting, settingsServer
  <2>2. PICK call \in SettingsCalls :
           /\ Now(s, call) /\ call.op = "validate" /\ ~call.served /\ call.mounted /\ call.object = config
    BY <1>0, <2>1, Called
  <2> QED
    BY <1>0, <2>1, <2>2, SettingsCallStep DEF SettingsCallSound
<1>3. CASE HandleSubmit(s)
  <2>1. /\ Calls(s, "save", config) /\ Form
        /\ UNCHANGED <<stored, settingsSeen, settingsUnsent>>
        /\ UNCHANGED <<page, config, savedConfigRef, dirty, rawJson, issues, unchecked>>
    BY <1>3 DEF HandleSubmit, settingsServer, pageView
  <2>2. PICK call \in SettingsCalls :
           /\ Now(s, call) /\ call.op = "save" /\ ~call.served /\ call.mounted /\ call.object = config
    BY <1>0, <2>1, Called
  <2>3. config \in Objects /\ page = "settings"
    BY <1>0, <2>1 DEF Form
  <2> QED
    BY <1>0, <2>1, <2>2, <2>3, SettingsCallStep DEF SettingsCallSound
<1>4. ASSUME NEW mode \in Values, HandleRoutingSwitch(s, mode) PROVE SettingsInv'
  <2> DEFINE object == [config EXCEPT !["mode"].pascal = mode]
  <2>1. /\ Calls(s, "check", object) /\ page = "dashboard" /\ config # Absent
        /\ UNCHANGED <<stored, settingsSeen, settingsUnsent>>
        /\ UNCHANGED <<page, config, savedConfigRef, dirty, rawJson, issues, unchecked>>
    BY <1>4 DEF HandleRoutingSwitch, settingsServer, pageView
  <2>2. object \in Objects
    BY <1>0, <2>1, ModeSwitched
  <2> HIDE DEF object
  <2>3. PICK call \in SettingsCalls :
           /\ Now(s, call) /\ call.op = "check" /\ ~call.served /\ call.mounted /\ call.object = object
    BY <2>1, <2>2, Called
  <2> QED
    BY <1>0, <2>1, <2>2, <2>3, SettingsCallStep DEF SettingsCallSound
<1> QED
  BY <1>1, <1>2, <1>3, <1>4

\* What is left of the calls of the page that is gone, and the load of the other.
LEMMA NavigateStep ==
    ASSUME SettingsInv, NEW s \in SettingsSlots, Navigate(s)
    PROVE  SettingsInv'
<1> DEFINE first == [NoSettingsCall EXCEPT !.op = "load", !.mounted = TRUE]
<1>0. /\ settingsCalls \in [SettingsSlots -> SettingsCalls] /\ page \in {"settings", "dashboard"}
      /\ stored \in Settings /\ settingsSeen \subseteq Settings /\ settingsUnsent \subseteq Settings
      /\ SettingsCallsSound
  BY DEF SettingsInv, SettingsTypeOK
<1>1. /\ settingsCalls' = [Unmount EXCEPT ![s] = first]
      /\ page' = IF page = "settings" THEN "dashboard" ELSE "settings"
      /\ config' = Absent /\ savedConfigRef' = Absent /\ rawJson' = Absent
      /\ dirty' = FALSE /\ issues' = FALSE /\ unchecked' = FALSE
      /\ UNCHANGED <<stored, settingsSeen, settingsUnsent>>
  BY DEF Navigate, settingsServer
<1>2. first \in SettingsCalls /\ first.op = "load" /\ first.mounted /\ ~first.served
  BY DEF NoSettingsCall, SettingsCalls
<1> HIDE DEF first
<1>3. ASSUME NEW call \in SettingsCalls
      PROVE  /\ Left(call) \in SettingsCalls /\ ~Left(call).mounted
             /\ Left(call).op = call.op \/ Left(call).op = "none"
             /\ Left(call).op # "load" /\ Left(call).served \in {call.served, FALSE}
             /\ Left(call).op # "none" => Left(call).object = call.object
  <2>1. CASE call.op \in {"load", "validate"}
    BY <2>1, NoSettingsCallTyped DEF Left, NoSettingsCall
  <2>2. CASE call.op \notin {"load", "validate"}
    BY <2>2 DEF Left, SettingsCalls
  <2> QED
    BY <2>1, <2>2
<1>4. /\ settingsCalls' \in [SettingsSlots -> SettingsCalls] /\ settingsCalls'[s] = first
      /\ \A r \in SettingsSlots : r # s => settingsCalls'[r] = Left(settingsCalls[r])
  BY <1>0, <1>1, <1>2, <1>3 DEF Unmount
<1>5. SettingsTypeOK'
  BY <1>0, <1>1, <1>4 DEF SettingsTypeOK
<1>6. SettingsCallsSound'
  <2>1. SettingsCallSound(first, settingsSeen', page')
    BY <1>2 DEF SettingsCallSound
  <2>2. ASSUME NEW r \in SettingsSlots, r # s
        PROVE  SettingsCallSound(Left(settingsCalls[r]), settingsSeen', page')
    <3>1. settingsCalls[r] \in SettingsCalls /\ SettingsCallSound(settingsCalls[r], settingsSeen, page)
      BY <1>0 DEF SettingsCallsSound
    <3> QED
      BY <1>1, <1>3, <3>1 DEF SettingsCallSound
  <2> QED
    BY <1>4, <2>1, <2>2 DEF SettingsCallsSound
<1>7. FormSound' /\ CleanIsSeen'
  BY <1>1 DEF FormSound, CleanIsSeen
<1> QED
  BY <1>5, <1>6, <1>7 DEF SettingsInv

-----------------------------------------------------------------------------
(***************************************************************************)
(* The server.  What a save or the switch stores is what its object showed *)
(* and, unless it is rolled back, has been seen.                           *)
(***************************************************************************)
LEMMA SettingsServeStep ==
    ASSUME SettingsInv, NEW s \in SettingsSlots,
           ServeSettings(s) \/ UpdateConfig(s) \/ UpdateRolledBack(s)
    PROVE  SettingsInv'
<1> DEFINE old == settingsCalls[s]
<1>0. /\ old \in SettingsCalls /\ SettingsCallSound(old, settingsSeen, page) /\ stored \in Settings
      /\ settingsSeen \subseteq Settings /\ settingsUnsent \subseteq Settings
      /\ issues \in BOOLEAN /\ unchecked \in BOOLEAN /\ page \in {"settings", "dashboard"}
  BY DEF SettingsInv, SettingsTypeOK, SettingsCallsSound
<1>1. UNCHANGED <<settingsUnsent, page, config, savedConfigRef, dirty, rawJson, issues, unchecked>>
  BY DEF ServeSettings, UpdateConfig, UpdateRolledBack, pageView
<1>2. CASE ServeSettings(s)
  <2> DEFINE object == Encode(stored)
             new == [old EXCEPT !.served = TRUE, !.object = object]
  <2>1. old.op = "load" /\ Now(s, new) /\ settingsSeen' = settingsSeen \cup {stored} /\ UNCHANGED stored
    BY <1>2 DEF ServeSettings
  <2>2. object \in Objects /\ \E settings \in settingsSeen' : object = Encode(settings)
    BY <1>0, <2>1, EncodeReads
  <2> HIDE DEF object
  <2>3. new \in SettingsCalls /\ SettingsCallSound(new, settingsSeen', page)
    BY <1>0, <2>1, <2>2 DEF SettingsCalls, SettingsCallSound
  <2> HIDE DEF new
  <2>4. ViewTyped' /\ FormSound' /\ CleanIsSeen'
    BY <1>0, <1>1, <2>1, SettingsViewKept
  <2> QED
    BY <1>0, <1>1, <2>1, <2>3, <2>4, SettingsSlot
<1>3. CASE UpdateConfig(s)
  <2> DEFINE new == [old EXCEPT !.served = TRUE]
  <2>1. /\ old.op \in {"save", "switch"} /\ Now(s, new) /\ stored' = Decode(Serialize(old.object))
        /\ settingsSeen' = settingsSeen \cup {stored'}
    BY <1>3 DEF UpdateConfig
  <2>2. old.object \in Objects /\ stored' = Displayed(old.object) /\ stored' \in Settings
    BY <1>0, <2>1, StoredIsDisplayed, DisplayedTyped DEF SettingsCallSound
  <2>3. new \in SettingsCalls /\ SettingsCallSound(new, settingsSeen', page)
    BY <1>0, <2>1, <2>2 DEF SettingsCalls, SettingsCallSound
  <2> HIDE DEF new
  <2>4. ViewTyped' /\ FormSound' /\ CleanIsSeen'
    BY <1>0, <1>1, <2>1, SettingsViewKept
  <2> QED
    BY <1>0, <1>1, <2>1, <2>2, <2>3, <2>4, SettingsSlot
<1>4. CASE UpdateRolledBack(s)
  <2> DEFINE sent == Decode(Serialize(old.object))
  <2>1. /\ old.op \in {"save", "switch"} /\ Now(s, NoSettingsCall) /\ UNCHANGED settingsSeen
        /\ stored' = [f \in Fields |-> IF f \in Routing THEN stored[f] ELSE sent[f]]
    BY <1>4 DEF UpdateRolledBack
  <2>2. sent \in Settings
    BY <1>0, <2>1, StoredIsDisplayed, DisplayedTyped DEF SettingsCallSound
  <2> HIDE DEF sent
  <2>3. stored' \in Settings
    BY <1>0, <2>1, <2>2 DEF Settings
  <2>4. ViewTyped' /\ FormSound' /\ CleanIsSeen'
    BY <1>0, <1>1, <2>1, SettingsViewKept
  <2> QED
    BY <1>0, <1>1, <2>1, <2>3, <2>4, NoSettingsCallTyped, SettingsSlot
<1> QED
  BY <1>2, <1>3, <1>4

-----------------------------------------------------------------------------
(***************************************************************************)
(* Answers                                                                 *)
(***************************************************************************)
LEMMA SettingsLoadedStep ==
    ASSUME SettingsInv, NEW s \in SettingsSlots, SettingsLoaded(s)
    PROVE  SettingsInv'
<1> DEFINE old == settingsCalls[s]
           object == Normalize(old.object)
<1>0. /\ old \in SettingsCalls /\ SettingsCallSound(old, settingsSeen, page) /\ stored \in Settings
      /\ settingsSeen \subseteq Settings /\ settingsUnsent \subseteq Settings /\ ViewTyped
      /\ page \in {"settings", "dashboard"}
  BY DEF SettingsInv, SettingsTypeOK, SettingsCallsSound, ViewTyped
<1>1. /\ old.op = "load" /\ old.served /\ Now(s, NoSettingsCall) /\ config' = object
      /\ UNCHANGED <<stored, settingsSeen, settingsUnsent, page, issues>>
      /\ page = "settings" => savedConfigRef' = object /\ rawJson' = object
                              /\ dirty' = FALSE /\ unchecked' = TRUE
      /\ page # "settings" => UNCHANGED <<savedConfigRef, rawJson, dirty, unchecked>>
  BY DEF SettingsLoaded, settingsServer
<1>2. PICK settings \in settingsSeen : old.object = Encode(settings)
  BY <1>0, <1>1 DEF SettingsCallSound
<1>3. old.object \in Objects /\ Displayed(old.object) = settings
  BY <1>0, <1>2, EncodeReads
<1>4. object \in Objects /\ Displayed(object) = settings
  BY <1>3, NormalizeReads
<1> HIDE DEF object
<1>5. ViewTyped'
  BY <1>0, <1>1, <1>4 DEF ViewTyped
<1>6. FormSound' /\ CleanIsSeen'
  BY <1>1, <1>4 DEF FormSound, CleanIsSeen
<1> QED
  BY <1>0, <1>1, <1>5, <1>6, NoSettingsCallTyped, SettingsSlot

LEMMA SettingsAnswerStep ==
    ASSUME SettingsInv, NEW s \in SettingsSlots,
           RoutingValidated(s) \/ ModeChecked(s) \/ SwitchAnswered(s) \/ SettingsCallFails(s)
    PROVE  SettingsInv'
<1> DEFINE old == settingsCalls[s]
<1>0. /\ old \in SettingsCalls /\ SettingsCallSound(old, settingsSeen, page) /\ stored \in Settings
      /\ settingsSeen \subseteq Settings /\ settingsUnsent \subseteq Settings /\ ViewTyped
      /\ page \in {"settings", "dashboard"} /\ issues \in BOOLEAN /\ unchecked \in BOOLEAN
  BY DEF SettingsInv, SettingsTypeOK, SettingsCallsSound, ViewTyped
<1>1. UNCHANGED <<stored, settingsSeen, settingsUnsent, page>>
  BY DEF RoutingValidated, ModeChecked, SwitchAnswered, SettingsCallFails, settingsServer, pageView
<1>2. CASE RoutingValidated(s) \/ SettingsCallFails(s)
  <2>1. /\ Now(s, NoSettingsCall) /\ UNCHANGED <<config, savedConfigRef, dirty, rawJson, unchecked>>
        /\ issues' \in BOOLEAN
    <3>1. CASE RoutingValidated(s)
      <4>1. /\ Now(s, NoSettingsCall) /\ UNCHANGED <<config, savedConfigRef, dirty, rawJson, unchecked>>
            /\ issues' \in {TRUE, Decode(old.object)["bypass"] \in Malformed}
        BY <3>1 DEF RoutingValidated
      <4>2. ASSUME NEW P \in BOOLEAN, issues' \in {TRUE, P} PROVE issues' \in BOOLEAN
        BY <4>2
      <4>3. (Decode(old.object)["bypass"] \in Malformed) \in BOOLEAN
        OBVIOUS
      <4>4. issues' \in BOOLEAN
        BY <4>1, <4>2, <4>3, Zenon
      <4> QED
        BY <4>1, <4>4
    <3>2. CASE SettingsCallFails(s)
      BY <1>0, <3>2 DEF SettingsCallFails, pageView
    <3> QED
      BY <1>2, <3>1, <3>2
  <2> QED
    BY <1>0, <1>1, <2>1, NoSettingsCallTyped, SettingsCallStep
<1>3. CASE ModeChecked(s)
  <2> DEFINE new == [old EXCEPT !.op = "switch"]
  <2>1. /\ UNCHANGED <<config, savedConfigRef, dirty, rawJson, issues, unchecked>>
        /\ old.op = "check" /\ (Now(s, new) \/ Now(s, NoSettingsCall))
    BY <1>3 DEF ModeChecked, pageView
  <2>2. new \in SettingsCalls /\ SettingsCallSound(new, settingsSeen, page)
    BY <1>0, <2>1 DEF SettingsCalls, SettingsCallSound
  <2> HIDE DEF new
  <2>3. CASE Now(s, new)
    BY <1>0, <1>1, <2>1, <2>2, <2>3, SettingsCallStep
  <2>4. CASE Now(s, NoSettingsCall)
    BY <1>0, <1>1, <2>1, <2>4, NoSettingsCallTyped, SettingsCallStep
  <2> QED
    BY <2>1, <2>3, <2>4
<1>4. CASE SwitchAnswered(s)
  <2>1. /\ old.op = "switch" /\ config' = IF old.mounted THEN old.object ELSE config
        /\ Now(s, NoSettingsCall) /\ UNCHANGED <<savedConfigRef, dirty, rawJson, issues, unchecked>>
    BY <1>4 DEF SwitchAnswered
  <2>2. CASE old.mounted
    <3>1. page = "dashboard" /\ old.object \in Objects
      BY <1>0, <2>1, <2>2 DEF SettingsCallSound
    <3>2. ViewTyped' /\ FormSound' /\ CleanIsSeen'
      BY <1>0, <1>1, <2>1, <2>2, <3>1 DEF ViewTyped, FormSound, CleanIsSeen
    <3> QED
      BY <1>0, <1>1, <2>1, <3>2, NoSettingsCallTyped, SettingsSlot
  <2>3. CASE ~old.mounted
    BY <1>0, <1>1, <2>1, <2>3, NoSettingsCallTyped, SettingsCallStep
  <2> QED
    BY <2>2, <2>3
<1> QED
  BY <1>2, <1>3, <1>4

(***************************************************************************)
(* A save is answered: what it sent has been stored.  What stands in the   *)
(* form is that, or is now among what was marked as saved without being    *)
(* sent.                                                                   *)
(***************************************************************************)
LEMMA SettingsSavedStep ==
    ASSUME SettingsInv, NEW s \in SettingsSlots, SettingsSaved(s)
    PROVE  SettingsInv'
<1> DEFINE old == settingsCalls[s]
           late == {c \in {config} \ {Absent, old.object} : old.mounted}
<1>0. /\ old \in SettingsCalls /\ SettingsCallSound(old, settingsSeen, page) /\ stored \in Settings
      /\ settingsSeen \subseteq Settings /\ settingsUnsent \subseteq Settings /\ ViewTyped
      /\ page \in {"settings", "dashboard"} /\ issues \in BOOLEAN /\ unchecked \in BOOLEAN
  BY DEF SettingsInv, SettingsTypeOK, SettingsCallsSound, ViewTyped
<1>1. /\ old.op = "save" /\ old.served /\ Now(s, NoSettingsCall)
      /\ UNCHANGED <<stored, settingsSeen, page, config, issues, unchecked>>
      /\ settingsUnsent' = settingsUnsent \cup {Displayed(o) : o \in late}
      /\ old.mounted => savedConfigRef' = old.object /\ rawJson' = old.object /\ dirty' = FALSE
      /\ ~old.mounted => UNCHANGED <<savedConfigRef, rawJson, dirty>>
  BY DEF SettingsSaved
<1>2. old.object \in Objects /\ Displayed(old.object) \in settingsSeen
      /\ (old.mounted => page = "settings")
  BY <1>0, <1>1 DEF SettingsCallSound
<1>3. settingsUnsent' \subseteq Settings
  <2>1. late \subseteq Objects
    BY <1>0 DEF ViewTyped
  <2> HIDE DEF late
  <2> QED
    BY <1>0, <1>1, <2>1, DisplayedTyped
<1>4. CASE old.mounted
  <2>1. ViewTyped' /\ FormSound'
    BY <1>0, <1>1, <1>2, <1>4 DEF ViewTyped, FormSound
  <2>2. CleanIsSeen'
    <3>1. CASE config \in {Absent, old.object}
      BY <1>1, <1>2, <3>1 DEF CleanIsSeen
    <3>2. CASE config \notin {Absent, old.object}
      BY <1>1, <1>4, <3>2 DEF CleanIsSeen
    <3> QED
      BY <3>1, <3>2
  <2> QED
    BY <1>0, <1>1, <1>3, <2>1, <2>2, NoSettingsCallTyped, SettingsSlot
<1>5. CASE ~old.mounted
  BY <1>0, <1>1, <1>3, <1>5, NoSettingsCallTyped, SettingsCallStep
<1> QED
  BY <1>4, <1>5

-----------------------------------------------------------------------------
LEMMA SettingsStart == SettingsInit => SettingsInv
<1> SUFFICES ASSUME SettingsInit PROVE SettingsInv
  OBVIOUS
<1>1. /\ stored \in Settings /\ settingsSeen = {stored} /\ settingsUnsent = {} /\ page = "settings"
      /\ config = Normalize(Encode(stored)) /\ savedConfigRef = config /\ rawJson = config
      /\ dirty = FALSE /\ issues = FALSE /\ unchecked = TRUE
      /\ settingsCalls = [s \in SettingsSlots |-> NoSettingsCall]
  BY DEF SettingsInit
<1>2. config \in Objects /\ Displayed(config) = stored
  <2>1. Encode(stored) \in Objects /\ Displayed(Encode(stored)) = stored
    BY <1>1, EncodeReads
  <2> QED
    BY <1>1, <2>1, NormalizeReads
<1>3. settingsCalls \in [SettingsSlots -> SettingsCalls] /\ \A s \in SettingsSlots : settingsCalls[s] = NoSettingsCall
  BY <1>1, NoSettingsCallTyped
<1>4. SettingsTypeOK /\ FormSound
  BY <1>1, <1>2, <1>3 DEF SettingsTypeOK, FormSound
<1>5. SettingsCallsSound
  BY <1>3, NoSettingsCallTyped DEF SettingsCallsSound
<1>6. CleanIsSeen
  BY <1>1, <1>2 DEF CleanIsSeen
<1> QED
  BY <1>4, <1>5, <1>6 DEF SettingsInv

LEMMA SettingsStep == SettingsInv /\ [SettingsNext]_settingsVars => SettingsInv'
<1> SUFFICES ASSUME SettingsInv, [SettingsNext]_settingsVars PROVE SettingsInv'
  OBVIOUS
<1>1. CASE \/ HandleRawSave \/ UNCHANGED settingsVars
           \/ \E f \in Fields, v \in Values \cup {Absent} :
                 \/ v # Absent /\ ChangeField(f, v)
                 \/ \E spelling \in {"pascal", "snake"} : EditRawJson(f, v, spelling)
  BY <1>1, SettingsFormStep
<1>2. ASSUME NEW s \in SettingsSlots,
             \/ Reload(s) \/ ValidateRouting(s) \/ HandleSubmit(s)
             \/ \E mode \in Values : HandleRoutingSwitch(s, mode)
      PROVE  SettingsInv'
  BY <1>2, SettingsSendStep
<1>3. ASSUME NEW s \in SettingsSlots, ServeSettings(s) \/ UpdateConfig(s) \/ UpdateRolledBack(s)
      PROVE  SettingsInv'
  BY <1>3, SettingsServeStep
<1>4. ASSUME NEW s \in SettingsSlots,
             RoutingValidated(s) \/ ModeChecked(s) \/ SwitchAnswered(s) \/ SettingsCallFails(s)
      PROVE  SettingsInv'
  BY <1>4, SettingsAnswerStep
<1> QED
  BY <1>1, <1>2, <1>3, <1>4, NavigateStep, SettingsLoadedStep, SettingsSavedStep
     DEF SettingsNext

LEMMA SettingsInvariant == SettingsSpec => []SettingsInv
BY SettingsStart, SettingsStep, PTL DEF SettingsSpec

\* Every variable of the settings, the two pages and their calls has its type.
THEOREM SettingsTypes == SettingsSpec => []SettingsTypeOK
<1>1. SettingsInv => SettingsTypeOK
  BY DEF SettingsInv
<1> QED
  BY <1>1, SettingsInvariant, PTL

(***************************************************************************)
(* What the Settings page shows without the mark of unsaved changes is     *)
(* what the server has once held, however normalizeAppConfig and           *)
(* serializeAppConfig (services/api.ts) spelt it on the way and in         *)
(* whatever order loads, saves and changes of page were answered; or it    *)
(* stood in the form when the save of something else was answered.         *)
(***************************************************************************)
THEOREM CleanSettingsAreStored == SettingsSpec => []CleanSettingsStored
<1>1. SettingsInv => CleanSettingsStored
  BY DEF SettingsInv, CleanIsSeen, CleanSettingsStored, Form
<1> QED
  BY <1>1, SettingsInvariant, PTL

=============================================================================
