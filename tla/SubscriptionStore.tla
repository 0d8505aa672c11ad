------------------------- MODULE SubscriptionStore --------------------------
(***************************************************************************)
(* What the subscription service promises the web interface: a list of     *)
(* records under ids, changed by one operation at a time.  Subscription    *)
(* implements it; the Profiles page is written against it.                 *)
(***************************************************************************)
EXTENDS Naturals

CONSTANTS Ids, Names, Urls, Filenames

VARIABLES
    records,   \* the settings and the status of each listed subscription
    readable   \* the list parses

store == <<records, readable>>

StoreSettings == [name : Names, url : Urls, file : Filenames, enabled : BOOLEAN]

Statuses == {"draft", "healthy", "error"}

Entries == [set : StoreSettings, status : Statuses]

Listed == DOMAIN records

\* No other subscription has the name or the file.
Distinct(set, self) ==
    \A i \in Listed \ {self} : records[i].set.name # set.name /\ records[i].set.file # set.file

With(i, entry) == [j \in Listed \cup {i} |-> IF j = i THEN entry ELSE records[j]]

StoreCreate(i, set) ==
    /\ readable /\ i \notin Listed /\ Distinct(set, i)
    /\ records' = With(i, [set |-> set, status |-> "draft"])
    /\ UNCHANGED readable

\* The status is that of the last refresh.
StoreUpdate(i, set) ==
    /\ readable /\ i \in Listed /\ Distinct(set, i)
    /\ records' = With(i, [records[i] EXCEPT !.set = set])
    /\ UNCHANGED readable

StoreDelete(i) ==
    /\ readable /\ i \in Listed
    /\ records' = [j \in Listed \ {i} |-> records[j]]
    /\ UNCHANGED readable

\* A refresh, asked for or due, leaves what the user set alone.
StoreRefresh(i, status) ==
    /\ readable /\ i \in Listed /\ status \in {"healthy", "error"}
    /\ records' = With(i, [records[i] EXCEPT !.status = status])
    /\ UNCHANGED readable

\* A list that was being written when a write or the controller failed.
StoreLose ==
    /\ records' = [i \in {} |-> [set |-> {}, status |-> "draft"]]
    /\ readable' \in BOOLEAN

StoreInit ==
    /\ records = [i \in {} |-> [set |-> {}, status |-> "draft"]]
    /\ readable = TRUE

StoreNext ==
    \/ \E i \in Ids, set \in StoreSettings : StoreCreate(i, set) \/ StoreUpdate(i, set)
    \/ \E i \in Ids : StoreDelete(i) \/ \E status \in Statuses : StoreRefresh(i, status)
    \/ StoreLose

StoreSpec == StoreInit /\ [][StoreNext]_store

=============================================================================
