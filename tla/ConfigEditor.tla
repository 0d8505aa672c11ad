---------------------------- MODULE ConfigEditor ----------------------------
(***************************************************************************)
(* The configuration editor of the web interface                           *)
(* (src/web/src/app/mihomo/config/page.tsx) and the part of the file API   *)
(* it calls (services/api.ts, internal/http/handler/mihomo/files.go).      *)
(*                                                                         *)
(* A handler runs to its next await in one step.  A call is sent with the  *)
(* values the handler captured, acts on the server in a step of its own,   *)
(* and is answered in another, so that answers overtake each other, inputs *)
(* come in between, and other windows change the files.  Validation and    *)
(* auto-fix read nothing but what they are sent: their answer is one step. *)
(* A call may fail before or after it acted.                               *)
(*                                                                         *)
(* The lists of files are not kept: a file may be clicked whether or not   *)
(* the server still has it.  auto_restart is off, so that the core is      *)
(* restarted by the page alone.                                            *)
(***************************************************************************)
EXTENDS Naturals, Sequences, FiniteSets

CONSTANTS
    Configs,          \* names in configs
    Providers,        \* names in proxy_providers and rule_providers
    Contents,         \* texts of a file
    Accepted,         \* those that validation accepts
    Fixed,            \* what auto-fix makes of a text
    Empty,            \* the text of a new file; the API takes it for none
    None,
    Slots,            \* calls under way at once
    MaxEditorInputs,  \* bound on inputs
    MaxEditorMishaps  \* bound on calls that fail and acts of other windows

ASSUME EditorAssumption ==
    /\ Accepted \subseteq Contents /\ Fixed \in Contents
    /\ Empty \in Contents \ Accepted /\ None \notin Contents \cup Configs
    /\ MaxEditorInputs \in Nat /\ MaxEditorMishaps \in Nat

VARIABLES
    disk,          \* the files of the working directory
    active,        \* mihomo.config_path
    unapplied,     \* the core is yet to be restarted on a save of its config
    held,          \* what the page has read from each file or stored in it
    unsent,        \* (history) what it marked as saved there without sending it
    tabs,          \* the open tabs
    activeTab,     \* a name
    activeConfig,  \* the page's copy of active
    validation,    \* the last result for each name
    autoFixResult,
    deleteTarget,
    editorCalls,
    editorInputs,
    editorMishaps

server == <<disk, active, unapplied, held, unsent>>
view == <<tabs, activeTab, activeConfig, validation, autoFixResult, deleteTarget>>
editorVars == <<server, view, editorCalls, editorInputs, editorMishaps>>

Files == ({"config"} \X Configs) \cup ({"provider"} \X Providers)
TabNames == Configs \cup Providers
Name(f) == f[2]
IsConfig(f) == f[1] = "config"

Tabs == [file : Files, content : Contents, savedContent : Contents, dirty : BOOLEAN]

Drafts == [file : Files, content : Contents]

EditorCalls ==
    [op : {"none", "load", "open", "validate", "check", "put", "restart",
           "activate", "create", "delete", "fix"},
     served : BOOLEAN,
     file : Files \cup {None},
     content : Contents \cup {None},   \* sent, or read by the server
     known : Configs \cup {None},      \* activeConfig, as captured or as read
     apply : BOOLEAN,                  \* a restart is due; for a new file, that
                                       \* its name was open, and for a deleted
                                       \* one that it was active, at the click
     todo : Seq(Drafts)]               \* what Save All has yet to save

NoCall == [op |-> "none", served |-> FALSE, file |-> None, content |-> None,
           known |-> None, apply |-> FALSE, todo |-> <<>>]

EditorTypeOK ==
    /\ disk \in [Files -> Contents \cup {None}]
    /\ active \in Configs /\ unapplied \in BOOLEAN
    /\ held \in [Files -> SUBSET Contents] /\ unsent \in [Files -> SUBSET Contents]
    /\ tabs \in Seq(Tabs)
    /\ activeTab \in TabNames \cup {None}
    /\ activeConfig \in Configs \cup {None}
    /\ validation \in [TabNames -> {"none", "valid", "invalid"}]
    /\ autoFixResult \in Contents \cup {None}
    /\ deleteTarget \in Configs \cup {None}
    /\ editorCalls \in [Slots -> EditorCalls]
    /\ editorInputs \in 0..MaxEditorInputs
    /\ editorMishaps \in 0..MaxEditorMishaps

-----------------------------------------------------------------------------
(***************************************************************************)
(* Helpers                                                                 *)
(***************************************************************************)
TabsNamed(n) == {i \in DOMAIN tabs : Name(tabs[i].file) = n}

IsOpen(n) == TabsNamed(n) # {}

\* tabs.find: the first of the name.
First(n) == CHOOSE i \in TabsNamed(n) : \A j \in TabsNamed(n) : i <= j

activeFile == tabs[First(activeTab)]

HasActiveFile == activeTab # None /\ IsOpen(activeTab)

\* tabs.map by name.
Mapped(n, Change(_)) ==
    [i \in DOMAIN tabs |-> IF i \in TabsNamed(n) THEN Change(tabs[i]) ELSE tabs[i]]

SetContent(n, c) ==
    Mapped(n, LAMBDA t : [t EXCEPT !.content = c, !.dirty = (c # t.savedContent)])

\* tabs.filter, by place: the k-th of those kept has k of them up to itself.
Kept(S) ==
    [k \in 1..Cardinality(S) |-> tabs[CHOOSE i \in S : Cardinality({j \in S : j <= i}) = k]]

WithoutName(n) == Kept(DOMAIN tabs \ TabsNamed(n))

Under(s, op) == editorCalls[s].op = op

Running(op) == \E s \in Slots : Under(s, op)

Set(s, call) == editorCalls' = [editorCalls EXCEPT ![s] = call]

Send(s, op, f, c) ==
    /\ Under(s, "none")
    /\ Set(s, [NoCall EXCEPT !.op = op, !.file = f, !.content = c])

Input == editorInputs < MaxEditorInputs /\ editorInputs' = editorInputs + 1
                                        /\ UNCHANGED editorMishaps

Mishap == editorMishaps < MaxEditorMishaps /\ editorMishaps' = editorMishaps + 1
                                           /\ UNCHANGED editorInputs

NoInput == UNCHANGED <<editorInputs, editorMishaps>>

\* A dialog covers the page; the keyboard shortcuts work all the same.
Covered == autoFixResult # None \/ deleteTarget # None

-----------------------------------------------------------------------------
(***************************************************************************)
(* Tabs                                                                    *)
(***************************************************************************)
LoadFiles(s) ==
    /\ Input /\ ~Covered /\ ~Running("load")
    /\ Send(s, "load", None, None)
    /\ UNCHANGED <<server, view>>

OpenFile(s, f) ==
    /\ Input /\ ~Covered
    /\ IF IsOpen(Name(f))
       THEN activeTab' = Name(f) /\ UNCHANGED editorCalls
       ELSE Send(s, "open", f, None) /\ UNCHANGED activeTab
    /\ UNCHANGED <<server, tabs, activeConfig, validation, autoFixResult, deleteTarget>>

\* A click on a tab.
SelectTab(n) ==
    /\ Input /\ ~Covered /\ IsOpen(n) /\ n # activeTab
    /\ activeTab' = n
    /\ UNCHANGED <<server, tabs, activeConfig, validation, autoFixResult, deleteTarget, editorCalls>>

\* The user has confirmed, if the tab is dirty.
CloseTab(n) ==
    LET rest == WithoutName(n)
        at == First(n)
    IN  /\ Input /\ ~Covered /\ IsOpen(n)
        /\ tabs' = rest
        /\ activeTab' = IF activeTab # n THEN activeTab
                        ELSE IF at <= Len(rest) THEN Name(rest[at].file)
                        ELSE IF at - 1 \in DOMAIN rest THEN Name(rest[at - 1].file)
                        ELSE None
        /\ UNCHANGED <<server, activeConfig, validation, autoFixResult, deleteTarget, editorCalls>>

EditTab(c) ==
    /\ Input /\ ~Covered /\ HasActiveFile
    /\ c # activeFile.content
    /\ tabs' = SetContent(activeTab, c)
    /\ UNCHANGED <<server, activeTab, activeConfig, validation, autoFixResult, deleteTarget, editorCalls>>

RevertCurrent ==
    /\ Input /\ HasActiveFile /\ activeFile.dirty
    /\ tabs' = Mapped(activeTab, LAMBDA t : [t EXCEPT !.content = t.savedContent, !.dirty = FALSE])
    /\ validation' = [validation EXCEPT ![activeTab] = "none"]
    /\ UNCHANGED <<server, activeTab, activeConfig, autoFixResult, deleteTarget, editorCalls>>

-----------------------------------------------------------------------------
(***************************************************************************)
(* Validation and auto-fix                                                 *)
(***************************************************************************)
\* The timer of 800 ms: in force while the active tab is a dirty config, and
\* no input.  An older validation under way is not called off.
DebouncedValidate(s) ==
    /\ NoInput /\ HasActiveFile /\ IsConfig(activeFile.file) /\ activeFile.dirty
    /\ ~\E r \in Slots : /\ Under(r, "validate")
                         /\ editorCalls[r].file = activeFile.file
                         /\ editorCalls[r].content = activeFile.content
    /\ Send(s, "validate", activeFile.file, activeFile.content)
    /\ UNCHANGED <<server, view>>

HandleValidate(s) ==
    /\ Input /\ HasActiveFile /\ IsConfig(activeFile.file)
    /\ Send(s, "validate", activeFile.file, activeFile.content)
    /\ UNCHANGED <<server, view>>

\* Mutant: the result is a word that the page does not know.
VerdictError(c) == IF c \in Accepted THEN "valid" ELSE "error"

\* ValidateConfig of the server; it takes no empty text.
Verdict(c) == IF c \in Accepted THEN "valid" ELSE "invalid"

ValidateAnswered(s) ==
    LET call == editorCalls[s]
    IN  /\ NoInput /\ Under(s, "validate")
        /\ validation' = IF call.content = Empty THEN validation
                         ELSE [validation EXCEPT ![Name(call.file)] = Verdict(call.content)]
        /\ Set(s, NoCall)
        /\ UNCHANGED <<server, tabs, activeTab, activeConfig, autoFixResult, deleteTarget>>

HandleAutoFix(s) ==
    /\ Input /\ ~Covered /\ HasActiveFile /\ IsConfig(activeFile.file) /\ ~Running("fix")
    /\ Send(s, "fix", activeFile.file, activeFile.content)
    /\ UNCHANGED <<server, view>>

\* Nothing to fix, nothing that parses, or a text to preview.
AutoFixAnswered(s) ==
    /\ NoInput /\ Under(s, "fix")
    /\ autoFixResult' \in {autoFixResult} \cup
          (IF editorCalls[s].content \in {Empty, Fixed} THEN {} ELSE {Fixed})
    /\ Set(s, NoCall)
    /\ UNCHANGED <<server, tabs, activeTab, activeConfig, validation, deleteTarget>>

\* Into the tab that is active by now.
ApplyAutoFix(s) ==
    /\ Input /\ autoFixResult # None /\ HasActiveFile
    /\ tabs' = SetContent(activeTab, autoFixResult)
    /\ Send(s, "validate", activeFile.file, autoFixResult)
    /\ autoFixResult' = None
    /\ UNCHANGED <<server, activeTab, activeConfig, validation, deleteTarget>>

CloseDialog ==
    /\ Input /\ Covered
    /\ autoFixResult' = None /\ deleteTarget' = None
    /\ UNCHANGED <<server, tabs, activeTab, activeConfig, validation, editorCalls>>

-----------------------------------------------------------------------------
(***************************************************************************)
(* Saving.  A save is one call that goes on from a check to a PUT, to the  *)
(* next of the captured tabs and to a restart.                             *)
(***************************************************************************)
Draft(t) == [file |-> t.file, content |-> t.content]

\* saveTab of a dirty tab: a config is checked first.
Begin(call, d) ==
    [call EXCEPT !.op = IF IsConfig(d.file) THEN "check" ELSE "put", !.served = FALSE,
                 !.file = d.file, !.content = d.content]

\* After one tab, saved or refused.
Onward(call) ==
    IF call.todo # <<>> THEN Begin([call EXCEPT !.todo = Tail(@)], Head(call.todo))
    ELSE IF call.apply THEN [NoCall EXCEPT !.op = "restart"]
    ELSE NoCall

\* Mutant: the last result is trusted, whatever was typed since.
NeedsCheckOnce(t) == validation[Name(t.file)] = "none"

NeedsCheck(t) == validation[Name(t.file)] = "none" \/ t.dirty

\* The button is there for a dirty tab; Ctrl+S does not ask.
HandleSave(s) ==
    LET t == activeFile
        call == [NoCall EXCEPT !.known = activeConfig]
    IN  /\ Input /\ HasActiveFile /\ Under(s, "none")
        /\ Set(s, IF ~IsConfig(t.file) \/ NeedsCheck(t) THEN Begin(call, Draft(t))
                  ELSE IF validation[Name(t.file)] = "valid"
                  THEN [Begin(call, Draft(t)) EXCEPT !.op = "put"]
                  ELSE NoCall)
        /\ UNCHANGED <<server, view>>

HandleSaveAll(s) ==
    LET dirtyTabs == Kept({i \in DOMAIN tabs : tabs[i].dirty})
    IN  /\ Input /\ Under(s, "none") /\ dirtyTabs # <<>>
        /\ Set(s, Onward([NoCall EXCEPT !.known = activeConfig,
                              !.todo = [k \in DOMAIN dirtyTabs |-> Draft(dirtyTabs[k])]]))
        /\ UNCHANGED <<server, view>>

CheckAnswered(s) ==
    LET call == editorCalls[s]
        n == Name(call.file)
        refused == call.content = Empty
    IN  /\ NoInput /\ Under(s, "check")
        /\ validation' = IF refused THEN validation
                         ELSE [validation EXCEPT ![n] = Verdict(call.content)]
        /\ IF call.content \in Accepted
           THEN Set(s, [call EXCEPT !.op = "put"]) /\ UNCHANGED activeTab
           ELSE /\ Set(s, Onward(call))
                /\ activeTab' = IF refused THEN activeTab ELSE n
        /\ UNCHANGED <<server, tabs, activeConfig, autoFixResult, deleteTarget>>

\* UpdateFile: an existing file, and a text.
Puttable(call) == disk[call.file] # None /\ call.content # Empty

ServePut(s) ==
    LET call == editorCalls[s]
    IN  /\ NoInput /\ Under(s, "put") /\ ~call.served /\ Puttable(call)
        /\ disk' = [disk EXCEPT ![call.file] = call.content]
        /\ held' = [held EXCEPT ![call.file] = @ \cup {call.content}]
        /\ unapplied' = (unapplied \/ (IsConfig(call.file) /\ Name(call.file) = active
                                                          /\ call.known = active))
        /\ Set(s, [call EXCEPT !.served = TRUE])
        /\ UNCHANGED <<active, unsent, view>>

\* The tabs of the name that are marked as saved, and hold something else than
\* was sent to their file.
Overtyped(call) ==
    {i \in TabsNamed(Name(call.file)) :
        tabs[i].file # call.file \/ tabs[i].content # call.content}

Recorded(call) ==
    [f \in Files |-> unsent[f] \cup
        {tabs[i].content : i \in {j \in Overtyped(call) : tabs[j].file = f}}]

\* Mutant: of several saved tabs the last one decides on the restart.
PutAnsweredLast(s) ==
    LET call == editorCalls[s]
        n == Name(call.file)
    IN  /\ NoInput /\ Under(s, "put") /\ call.served
        /\ tabs' = Mapped(n, LAMBDA t : [t EXCEPT !.savedContent = t.content, !.dirty = FALSE])
        /\ unsent' = Recorded(call)
        /\ Set(s, Onward([call EXCEPT !.apply = IsConfig(call.file) /\ n = call.known]))
        /\ UNCHANGED <<disk, active, unapplied, held, activeTab, activeConfig, validation, autoFixResult, deleteTarget>>

\* What the tab holds by now is marked as saved.
PutAnswered(s) ==
    LET call == editorCalls[s]
        n == Name(call.file)
    IN  /\ NoInput /\ Under(s, "put") /\ call.served
        /\ tabs' = Mapped(n, LAMBDA t : [t EXCEPT !.savedContent = t.content, !.dirty = FALSE])
        /\ unsent' = Recorded(call)
        /\ Set(s, Onward([call EXCEPT !.apply = @ \/ (IsConfig(call.file) /\ n = call.known)]))
        /\ UNCHANGED <<disk, active, unapplied, held, activeTab, activeConfig, validation, autoFixResult, deleteTarget>>

\* Mutant: the tab is marked as saved whatever the answer.
PutRefusedMarks(s) ==
    /\ NoInput /\ Under(s, "put") /\ ~editorCalls[s].served /\ ~Puttable(editorCalls[s])
    /\ tabs' = Mapped(Name(editorCalls[s].file),
                      LAMBDA t : [t EXCEPT !.savedContent = t.content, !.dirty = FALSE])
    /\ Set(s, Onward(editorCalls[s]))
    /\ UNCHANGED <<server, activeTab, activeConfig, validation, autoFixResult, deleteTarget>>

PutRefused(s) ==
    /\ NoInput /\ Under(s, "put") /\ ~editorCalls[s].served /\ ~Puttable(editorCalls[s])
    /\ Set(s, Onward(editorCalls[s]))
    /\ UNCHANGED <<server, view>>

\* The page learns whether it worked and tells the user.
RestartAnswered(s) ==
    /\ NoInput /\ Under(s, "restart")
    /\ unapplied' = FALSE
    /\ Set(s, NoCall)
    /\ UNCHANGED <<disk, active, held, unsent, view>>

-----------------------------------------------------------------------------
(***************************************************************************)
(* Activating, creating, deleting                                          *)
(***************************************************************************)
HandleSetActive(s, n) ==
    /\ Input /\ ~Covered /\ n # activeConfig
    /\ IsOpen(n) => ~tabs[First(n)].dirty
    /\ Send(s, "activate", <<"config", n>>, None)
    /\ UNCHANGED <<server, view>>

HandleCreateFile(s, n) ==
    /\ Input /\ ~Covered
    /\ Under(s, "none")
    /\ Set(s, [NoCall EXCEPT !.op = "create", !.file = <<"config", n>>, !.apply = IsOpen(n)])
    /\ UNCHANGED <<server, view>>

AskDelete(n) ==
    /\ Input /\ ~Covered
    /\ deleteTarget' = n
    /\ UNCHANGED <<server, tabs, activeTab, activeConfig, validation, autoFixResult, editorCalls>>

ConfirmDelete(s) ==
    /\ Input /\ deleteTarget # None /\ deleteTarget # activeConfig /\ ~Running("delete")
    /\ Under(s, "none")
    /\ Set(s, [NoCall EXCEPT !.op = "delete", !.file = <<"config", deleteTarget>>,
                             !.apply = (activeTab = deleteTarget)])
    /\ UNCHANGED <<server, view>>

Serve(s, op) == NoInput /\ Under(s, op) /\ ~editorCalls[s].served

\* The server reads: what it read travels with the answer.
ServeLoad(s) ==
    /\ Serve(s, "load")
    /\ Set(s, [editorCalls[s] EXCEPT !.served = TRUE, !.known = active])
    /\ UNCHANGED <<server, view>>

ServeOpen(s) ==
    LET f == editorCalls[s].file
    IN  /\ Serve(s, "open") /\ disk[f] # None
        /\ Set(s, [editorCalls[s] EXCEPT !.served = TRUE, !.content = disk[f]])
        /\ held' = [held EXCEPT ![f] = @ \cup {disk[f]}]
        /\ UNCHANGED <<disk, active, unapplied, unsent, view>>

ServeActivate(s) ==
    LET f == editorCalls[s].file
    IN  /\ Serve(s, "activate") /\ disk[f] # None
        /\ active' = Name(f)
        /\ unapplied' = FALSE   \* of another file now
        /\ Set(s, [editorCalls[s] EXCEPT !.served = TRUE])
        /\ UNCHANGED <<disk, held, unsent, view>>

ServeCreate(s) ==
    LET f == editorCalls[s].file
    IN  /\ Serve(s, "create") /\ disk[f] = None
        /\ disk' = [disk EXCEPT ![f] = Empty]
        /\ Set(s, [editorCalls[s] EXCEPT !.served = TRUE])
        /\ UNCHANGED <<active, unapplied, held, unsent, view>>

Deletable(f) == disk[f] # None /\ Name(f) # active

ServeDelete(s) ==
    LET f == editorCalls[s].file
    IN  /\ Serve(s, "delete") /\ Deletable(f)
        /\ disk' = [disk EXCEPT ![f] = None]
        /\ Set(s, [editorCalls[s] EXCEPT !.served = TRUE])
        /\ UNCHANGED <<active, unapplied, held, unsent, view>>

Answer(s, op) == NoInput /\ Under(s, op) /\ editorCalls[s].served

LoadAnswered(s) ==
    /\ Answer(s, "load")
    /\ activeConfig' = editorCalls[s].known
    /\ Set(s, NoCall)
    /\ UNCHANGED <<server, tabs, activeTab, validation, autoFixResult, deleteTarget>>

Fresh(call) == [file |-> call.file, content |-> call.content,
                savedContent |-> call.content, dirty |-> FALSE]

\* Mutant: an answer takes the place of a tab of its name.
OpenAnsweredReplaces(s) ==
    /\ Answer(s, "open")
    /\ tabs' = Append(WithoutName(Name(editorCalls[s].file)), Fresh(editorCalls[s]))
    /\ activeTab' = Name(editorCalls[s].file)
    /\ Set(s, NoCall)
    /\ UNCHANGED <<server, activeConfig, validation, autoFixResult, deleteTarget>>

\* Two clicks before the first answer open two tabs of one name.
OpenAnswered(s) ==
    /\ Answer(s, "open")
    /\ tabs' = Append(tabs, Fresh(editorCalls[s]))
    /\ activeTab' = Name(editorCalls[s].file)
    /\ Set(s, NoCall)
    /\ UNCHANGED <<server, activeConfig, validation, autoFixResult, deleteTarget>>

ActivateAnswered(s) ==
    /\ Answer(s, "activate")
    /\ activeConfig' = Name(editorCalls[s].file)
    /\ Set(s, NoCall)
    /\ UNCHANGED <<server, tabs, activeTab, validation, autoFixResult, deleteTarget>>

\* The new file is opened by the rest of the handler.
CreateAnswered(s) ==
    LET f == editorCalls[s].file
    IN  /\ Answer(s, "create")
        /\ IF editorCalls[s].apply
           THEN activeTab' = Name(f) /\ Set(s, NoCall)
           ELSE /\ Set(s, [NoCall EXCEPT !.op = "open", !.file = f])
                /\ UNCHANGED activeTab
        /\ UNCHANGED <<server, tabs, activeConfig, validation, autoFixResult, deleteTarget>>

DeleteAnswered(s) ==
    LET n == Name(editorCalls[s].file)
    IN  /\ Answer(s, "delete")
        /\ tabs' = WithoutName(n)
        /\ activeTab' = IF editorCalls[s].apply THEN None ELSE activeTab
        /\ deleteTarget' = None
        /\ Set(s, NoCall)
        /\ UNCHANGED <<server, activeConfig, validation, autoFixResult>>

\* The server refuses: no such file, a file of that name, the active config.
CallRefused(s) ==
    LET f == editorCalls[s].file
    IN  /\ \/ Serve(s, "open") /\ disk[f] = None
           \/ Serve(s, "activate") /\ disk[f] = None
           \/ Serve(s, "create") /\ disk[f] # None
           \/ Serve(s, "delete") /\ ~Deletable(f)
        /\ Set(s, NoCall)
        /\ UNCHANGED <<server, view>>

-----------------------------------------------------------------------------
\* fetchApi throws, before or after the server acted.  A save goes on with the
\* next tab; getActiveConfig swallows the error and yields no name.
CallFails(s) ==
    LET call == editorCalls[s]
    IN  /\ Mishap /\ ~Under(s, "none")
        /\ Set(s, IF call.op \in {"check", "put"} THEN Onward(call) ELSE NoCall)
        /\ activeConfig' = IF call.op = "load" THEN None ELSE activeConfig
        /\ unapplied' = (unapplied /\ call.op \notin {"put", "restart"})   \* the user is told
        /\ UNCHANGED <<disk, active, held, unsent, tabs, activeTab, validation, autoFixResult,
                       deleteTarget>>

\* Another window saves, creates or deletes a file, or activates a config.
OtherWindow ==
    /\ Mishap
    /\ \/ /\ \E f \in Files, c \in (Contents \ {Empty}) \cup {None} :
                /\ c = None => Deletable(f)
                /\ disk' = [disk EXCEPT ![f] = c]
          /\ UNCHANGED <<active, unapplied>>
       \/ /\ \E n \in Configs : disk[<<"config", n>>] # None /\ active' = n
          /\ unapplied' = FALSE
          /\ UNCHANGED disk
    /\ UNCHANGED <<held, unsent, view, editorCalls>>

EditorInit ==
    /\ disk \in [Files -> (Contents \ {Empty}) \cup {None}]
    /\ active \in {n \in Configs : disk[<<"config", n>>] # None}
    /\ unapplied = FALSE
    /\ held = [f \in Files |-> {}] /\ unsent = held
    /\ tabs = <<>> /\ activeTab = None
    /\ activeConfig = active
    /\ validation = [n \in TabNames |-> "none"]
    /\ autoFixResult = None /\ deleteTarget = None
    /\ editorCalls = [s \in Slots |-> NoCall]
    /\ editorInputs = 0 /\ editorMishaps = 0

EditorNext ==
    \/ \E n \in TabNames : SelectTab(n) \/ CloseTab(n)
    \/ \E n \in Configs : AskDelete(n)
    \/ \E c \in Contents : EditTab(c)
    \/ RevertCurrent \/ CloseDialog \/ OtherWindow
    \/ \E s \in Slots :
          \/ LoadFiles(s) \/ HandleValidate(s) \/ DebouncedValidate(s) \/ HandleAutoFix(s)
          \/ ApplyAutoFix(s) \/ HandleSave(s) \/ HandleSaveAll(s) \/ ConfirmDelete(s)
          \/ \E f \in Files : OpenFile(s, f)
          \/ \E n \in Configs : HandleSetActive(s, n) \/ HandleCreateFile(s, n)
          \/ ServePut(s) \/ ServeLoad(s) \/ ServeOpen(s) \/ ServeActivate(s)
          \/ ServeCreate(s) \/ ServeDelete(s)
          \/ ValidateAnswered(s) \/ AutoFixAnswered(s) \/ CheckAnswered(s) \/ PutAnswered(s)
          \/ PutRefused(s) \/ RestartAnswered(s) \/ LoadAnswered(s) \/ OpenAnswered(s)
          \/ ActivateAnswered(s) \/ CreateAnswered(s) \/ DeleteAnswered(s)
          \/ CallRefused(s) \/ CallFails(s)

EditorSpec == EditorInit /\ [][EditorNext]_editorVars

-----------------------------------------------------------------------------
(***************************************************************************)
(* Properties                                                              *)
(***************************************************************************)
\* A tab without the mark of unsaved changes holds what the page once read
\* from its file or stored in it, whatever order answers come in - or what stood
\* in it when the save of another text was answered, and nothing else.
CleanMeansStored ==
    \A i \in DOMAIN tabs : ~tabs[i].dirty =>
        tabs[i].content \in held[tabs[i].file] \cup unsent[tabs[i].file]

\* "Config saves are guarded by validation" (page.tsx:860): a save by this page
\* never puts a text that validation does not accept into a config file, unless
\* the page had read that very text from it. The code keeps to it but in one case:
\* a text typed while an earlier one was being saved counts as saved, is not
\* "dirty", and the next Ctrl+S stores it unchecked.
NoNewInvalidConfig ==
    [][\A s \in Slots, f \in Files :
          /\ IsConfig(f) /\ editorCalls[s].op = "put" /\ editorCalls[s].file = f
          /\ ~editorCalls[s].served /\ editorCalls'[s].served
          => disk'[f] \in Accepted \cup held[f] \cup unsent[f]]_editorVars

\* No answer of the server takes a draft from the user: what a tab holds
\* survives every step but an input, or the deletion that was confirmed.
AnswersKeepDrafts ==
    [][editorInputs' = editorInputs =>
          \A n \in TabNames :
             /\ IsOpen(n) /\ tabs[First(n)].dirty
             /\ ~\E s \in Slots : Under(s, "delete") /\ Name(editorCalls[s].file) = n
             => IsOpen(n)' /\ tabs'[First(n)'].content = tabs[First(n)].content]_editorVars

\* Once the page has stored the config that it knows the core to run, it has
\* the core restarted before it comes to rest, whatever fails on the way.
SavesAreApplied ==
    (\A s \in Slots : Under(s, "none")) => ~unapplied

=============================================================================
