------------------------------ MODULE ImportList ------------------------------
(***************************************************************************)
(* The user's imports as the application shows them: the list with its     *)
(* refetch and its poll, the active library, the deletions under way and   *)
(* the notices that announce the end of an import or of a deletion         *)
(* (src/App.tsx, src/hooks/useImportList.ts,                               *)
(* src/hooks/useLatestRekordboxImport.ts).                                 *)
(*                                                                         *)
(* The rows and the settings row are what the backend and the SQL          *)
(* functions make of them.  An import that stalls for an hour, the         *)
(* reanalysis of a completed import, Delete All and another user are left  *)
(* out.                                                                    *)
(***************************************************************************)
EXTENDS Integers, FiniteSets

CONSTANTS
  MaxLibraries,     \* imports, numbered in the order of their imported_at
  MaxLibraryActs,   \* activations and deletions the user asks for
  DeleteRetries     \* MAX_AUTOMATIC_DELETE_RETRIES (3)

ASSUME ImportListAssumption ==
  /\ MaxLibraries \in Nat \ {0}
  /\ {MaxLibraryActs, DeleteRetries} \subseteq Nat

VARIABLES
  ilRows,       \* rekordbox_imports
  ilActive,     \* rekordbox_user_settings.active_import_id
  ilList,       \* imports, the rows on the screen
  ilListFetch,  \* fetchAllImports of the current generation
  ilPoll,       \* the poll of the rows in flight
  ilShown,      \* latestImport
  ilShownFetch, \* fetchActiveImport of the current generation
  ilChanged,    \* a realtime event of the settings row is on its way
  ilSeen,       \* importStatusRef: the imports last seen in flight
  ilTried,      \* activationAttemptsRef
  ilActivate,   \* set_active_import calls under way
  ilPending,    \* pendingDeletionContextsRef
  ilDelete,     \* the delete dialog and its request
  ilAnnounced,  \* history: imports whose deletion was announced
  ilLeft        \* user actions left

listVars == <<ilRows, ilActive, ilList, ilListFetch, ilPoll, ilShown, ilShownFetch, ilChanged,
              ilSeen, ilTried, ilActivate, ilPending, ilDelete, ilAnnounced, ilLeft>>

Libraries == 1 .. MaxLibraries
NoLibrary == 0
NoSettings == -1     \* the user has no settings row
Plans == {"activate_next", "start_over"}

LibRow == [st : {"none", "processing", "completed", "paused", "failed", "deleting", "gone"},
           plan : Plans \cup {"none"}]
NoLibRow == [st |-> "none", plan |-> "none"]
Exists(row) == row.st \notin {"none", "gone"}

\* libraryDeletion.ts and importLifecycle.ts.  The library of a completed or
\* paused import is ready, that of any other is not looked for by these reads.
IsUsable(row) == row.st \in {"completed", "paused"}
IsBrowseable(row) == IsUsable(row)
IsPendingDelete(row) == row.st = "deleting"
IsInFlight(row) == row.st \in {"processing", "deleting"}

Newest(S) == IF S = {} THEN NoLibrary ELSE CHOOSE i \in S : \A j \in S : j <= i
LatestUsable == Newest({i \in Libraries : IsUsable(ilRows[i])})

-----------------------------------------------------------------------------
(* The backend.                                                            *)

\* Any change of the settings row is published.
SettingsBecome(active) ==
  /\ ilActive' = active
  /\ ilChanged' = (ilChanged \/ active # ilActive)

ServerFrame ==
  UNCHANGED <<ilList, ilListFetch, ilPoll, ilShown, ilShownFetch, ilSeen, ilTried, ilActivate,
              ilPending, ilDelete, ilAnnounced, ilLeft>>

LibraryCreated(i) ==
  /\ ilRows[i].st = "none" /\ \A j \in 1 .. i - 1 : ilRows[j].st # "none"
  /\ ilRows' = [ilRows EXCEPT ![i].st = "processing"]
  /\ UNCHANGED <<ilActive, ilChanged>> /\ ServerFrame

\* The import completes and the trigger makes it the active library, or it
\* pauses or fails.
LibraryEnds(i) ==
  /\ ilRows[i].st = "processing"
  /\ \E st \in {"completed", "paused", "failed"} :
       /\ ilRows' = [ilRows EXCEPT ![i].st = st]
       /\ SettingsBecome(IF st = "completed" THEN i ELSE ilActive)
  /\ ServerFrame

\* hard_delete_rekordbox_import: the row and the active library change at once.
ActiveAfter(rows, i) ==
  LET usable == {j \in Libraries \ {i} : IsUsable(rows[j])}
  IN  CASE ilActive = i -> IF rows[i].plan = "activate_next" THEN Newest(usable) ELSE NoLibrary
        [] ilActive \in Libraries \ {i} /\ ~IsUsable(rows[ilActive]) -> Newest(usable)
        [] OTHER -> ilActive

RowGone(rows, i) == [rows EXCEPT ![i] = [NoLibRow EXCEPT !.st = "gone"]]

\* The finalizer, once the worker has stopped.
DeleteFinalized(i) ==
  /\ IsPendingDelete(ilRows[i])
  /\ ilRows' = RowGone(ilRows, i)
  /\ SettingsBecome(ActiveAfter(ilRows, i))
  /\ ServerFrame

-----------------------------------------------------------------------------
(* What the page reads.                                                    *)

NoFetch == [on |-> FALSE, read |-> FALSE, rows |-> [i \in Libraries |-> NoLibRow]]
ListAsked == [NoFetch EXCEPT !.on = TRUE]
NoShownFetch == [at |-> "idle", id |-> NoLibrary]
ShownAsked == [at |-> "settings", id |-> NoLibrary]
NoPoll == [on |-> FALSE, read |-> FALSE, rows |-> [i \in Libraries |-> NoLibRow]]

\* A mutant: the list leaves pending deletions out.
ListableLive(row) == Exists(row) /\ ~IsPendingDelete(row)

\* fetchAllImports leaves cancelled rows out, and pending deletions in.
Listable(row) == Exists(row)
ListRead ==
  /\ ilListFetch.on /\ ~ilListFetch.read
  /\ ilListFetch' = [ilListFetch EXCEPT !.read = TRUE,
                       !.rows = [i \in Libraries |-> IF Listable(ilRows[i]) THEN ilRows[i] ELSE NoLibRow]]
  /\ UNCHANGED <<ilRows, ilActive, ilList, ilPoll, ilShown, ilShownFetch, ilChanged, ilSeen, ilTried,
                 ilActivate, ilPending, ilDelete, ilAnnounced, ilLeft>>

\* A call of setActiveImport, the page's own or the user's.
Activation(i, by) == [id |-> i, by |-> by, at |-> "sent"]

InFlightIds(list) == {i \in Libraries : IsInFlight(list[i])}

\* The effects of App.tsx that observe the list, and what they ask for: a row
\* that left the list under a pending deletion is announced as deleted, and an
\* import that completed is activated once.
Observed(list, shown, listFetch, shownFetch, poll) ==
  LET flying == InFlightIds(list)
      ended == {i \in ilSeen \ flying : list[i].st # "none"}
      completed == {i \in ended : list[i].st = "completed"}
      known == ilPending \cup {i \in Libraries : IsPendingDelete(list[i])}
      left == {i \in known : list[i].st = "none"}
      orphan == shown # NoLibrary /\ list[shown].st = "none"
  IN  /\ ilList' = list /\ ilShown' = shown
      /\ ilSeen' = {i \in ilSeen : list[i].st = "none"} \cup flying
      /\ ilTried' = ilTried \cup completed
      /\ ilActivate' = ilActivate \cup {Activation(i, "page") : i \in completed \ ilTried}
      /\ ilPending' = known \ left
      /\ ilAnnounced' = ilAnnounced \cup left
      /\ ilListFetch' = IF completed \cap ilTried # {} THEN ListAsked ELSE listFetch
      /\ ilShownFetch' = IF left # {} \/ orphan THEN ShownAsked ELSE shownFetch
      /\ ilPoll' = IF flying = InFlightIds(ilList) THEN poll ELSE NoPoll

\* Nothing on the screen changes.
Unobserved(listFetch, shownFetch, poll) ==
  /\ ilListFetch' = listFetch /\ ilShownFetch' = shownFetch /\ ilPoll' = poll
  /\ UNCHANGED <<ilList, ilShown, ilSeen, ilTried, ilActivate, ilPending, ilAnnounced>>

PageFrame == UNCHANGED <<ilRows, ilActive, ilChanged, ilDelete, ilLeft>>

ListAnswered ==
  /\ ilListFetch.read
  /\ \/ Observed(ilListFetch.rows, ilShown, NoFetch, ilShownFetch, ilPoll)
     \/ Unobserved(NoFetch, ilShownFetch, ilPoll)
  /\ PageFrame

\* The poll of the rows in flight reads each of them.
PollStarted ==
  /\ ~ilPoll.on /\ InFlightIds(ilList) # {}
  /\ Unobserved(ilListFetch, ilShownFetch,
                [NoPoll EXCEPT !.on = TRUE])
  /\ PageFrame

PollRead ==
  /\ ilPoll.on /\ ~ilPoll.read
  /\ Unobserved(ilListFetch, ilShownFetch,
                [ilPoll EXCEPT !.read = TRUE,
                   !.rows = [i \in Libraries |-> IF i \in InFlightIds(ilList) THEN ilRows[i] ELSE NoLibRow]])
  /\ PageFrame

\* A row that is gone leaves the list if the list knows of its deletion;
\* otherwise the page reports an import that disappeared.
Polled(i) ==
  LET row == ilPoll.rows[i]
  IN  IF i \notin InFlightIds(ilList) THEN ilList[i]
      ELSE IF Exists(row) THEN row
      ELSE IF IsPendingDelete(ilList[i]) THEN NoLibRow ELSE ilList[i]

PollAnswered ==
  /\ ilPoll.read
  /\ LET list == [i \in Libraries |-> Polled(i)]
     IN  IF list = ilList THEN Unobserved(ilListFetch, ilShownFetch, NoPoll)
         ELSE Observed(list, ilShown, ilListFetch, ilShownFetch, NoPoll)
  /\ PageFrame

\* fetchActiveImport: the settings, the row they name, and the settings again
\* when that row is gone.
ShownIs(i) == [at |-> "answered", id |-> i]
ShownOf(i, otherwise) ==
  IF IsBrowseable(ilRows[i]) THEN ShownIs(i)
  ELSE IF IsPendingDelete(ilRows[i]) /\ ilRows[i].plan = "start_over" THEN ShownIs(NoLibrary)
  ELSE otherwise

LatestNext == [at |-> "latest", id |-> NoLibrary]
ShownNext ==
  LET f == ilShownFetch
  IN  CASE f.at \in {"settings", "again"} /\ ilActive = NoSettings -> LatestNext
        [] f.at \in {"settings", "again"} /\ ilActive = NoLibrary -> ShownIs(NoLibrary)
        [] f.at = "settings" /\ ilActive \in Libraries -> [at |-> "row", id |-> ilActive]
        [] f.at = "again" /\ ilActive \in Libraries ->
             IF ilActive = f.id THEN LatestNext ELSE [at |-> "second", id |-> ilActive]
        [] f.at = "row" -> IF Exists(ilRows[f.id]) THEN ShownOf(f.id, LatestNext)
                           ELSE [f EXCEPT !.at = "again"]
        [] f.at = "second" -> ShownOf(f.id, LatestNext)
        [] OTHER -> ShownIs(LatestUsable)

ShownRead ==
  /\ ilShownFetch.at \notin {"idle", "failed", "answered"}
  /\ \E f \in {ShownNext, [at |-> "failed", id |-> NoLibrary]} : Unobserved(ilListFetch, f, ilPoll)
  /\ PageFrame

ShownAnswered ==
  /\ ilShownFetch.at = "answered"
  /\ Observed(ilList, ilShownFetch.id, ilListFetch, NoShownFetch, ilPoll)
  /\ PageFrame

\* A mutant: the event is dropped while a fetch is under way.
SettingsChangedWhenIdle ==
  /\ ilChanged /\ ilChanged' = FALSE
  /\ Unobserved(ilListFetch, IF ilShownFetch.at = "idle" THEN ShownAsked ELSE ilShownFetch, ilPoll)
  /\ UNCHANGED <<ilRows, ilActive, ilDelete, ilLeft>>

\* The realtime event of the settings row: a fetch supersedes the one under way.
SettingsChanged ==
  /\ ilChanged /\ ilChanged' = FALSE
  /\ Unobserved(ilListFetch, ShownAsked, ilPoll)
  /\ UNCHANGED <<ilRows, ilActive, ilDelete, ilLeft>>

-----------------------------------------------------------------------------
(* What the user does.                                                     *)

UserActs == ilLeft > 0 /\ ilLeft' = ilLeft - 1

\* set_active_import refuses an import that is not usable, and the call may
\* fail or its answer be lost.
ActivationReached(c) ==
  /\ c.at = "sent"
  /\ \E at \in {"done", "failed"} :
       /\ \/ IsUsable(ilRows[c.id]) /\ SettingsBecome(c.id)
          \/ at = "failed" /\ UNCHANGED <<ilActive, ilChanged>>
       /\ ilActivate' = (ilActivate \ {c}) \cup {[c EXCEPT !.at = at]}
  /\ UNCHANGED <<ilRows, ilList, ilListFetch, ilPoll, ilShown, ilShownFetch, ilSeen, ilTried,
                 ilPending, ilDelete, ilAnnounced, ilLeft>>

\* The page reads everything again after its own attempt, and the active
\* library after a choice of the user that succeeded.
ActivationAnswered(c) ==
  /\ c.at # "sent"
  /\ ilActivate' = ilActivate \ {c}
  /\ ilListFetch' = IF c.by = "page" THEN ListAsked ELSE ilListFetch
  /\ ilShownFetch' = IF c.by = "page" \/ c.at = "done" THEN ShownAsked ELSE ilShownFetch
  /\ UNCHANGED <<ilList, ilShown, ilSeen, ilTried, ilPending, ilAnnounced, ilPoll>> /\ PageFrame

LibraryChosen(i) ==
  /\ UserActs /\ IsUsable(ilList[i])
  /\ ilActivate' = ilActivate \cup {Activation(i, "user")}
  /\ UNCHANGED <<ilRows, ilActive, ilChanged, ilList, ilListFetch, ilPoll, ilShown, ilShownFetch,
                 ilSeen, ilTried, ilPending, ilDelete, ilAnnounced>>

NoDeletion == [at |-> "idle", id |-> NoLibrary, plan |-> "none", tries |-> 0, active |-> FALSE]

\* handleConfirmDeleteImport, of the row as the list shows it.
DeleteConfirmed(i, plan) ==
  /\ UserActs /\ ilDelete.at = "idle" /\ ilList[i].st # "none"
  /\ plan = IF IsPendingDelete(ilList[i]) THEN ilList[i].plan ELSE plan
  /\ ilDelete' = [at |-> "sent", id |-> i, plan |-> plan, tries |-> 0, active |-> ilShown = i]
  /\ ilPending' = ilPending \cup {i}
  /\ UNCHANGED <<ilRows, ilActive, ilChanged, ilList, ilListFetch, ilPoll, ilShown, ilShownFetch,
                 ilSeen, ilTried, ilActivate, ilAnnounced>>

\* The request marks the row, keeping the plan of an earlier one, and may see
\* it removed; a cleanup that failed is retried.
PlanMarked(row, plan) ==
  IF ~Exists(row) \/ IsPendingDelete(row) THEN row ELSE [row EXCEPT !.st = "deleting", !.plan = plan]

DeleteArrived ==
  /\ ilDelete.at = "sent"
  /\ \/ /\ Exists(ilRows[ilDelete.id])
        /\ ilRows' = [ilRows EXCEPT ![ilDelete.id] = PlanMarked(@, ilDelete.plan)]
        /\ ilDelete' \in {[ilDelete EXCEPT !.at = "accepted"],
                          IF ilDelete.tries < DeleteRetries
                          THEN [ilDelete EXCEPT !.tries = @ + 1] ELSE [ilDelete EXCEPT !.at = "refused"]}
     \/ ilDelete' = [ilDelete EXCEPT !.at = "refused"] /\ UNCHANGED ilRows
  /\ UNCHANGED <<ilActive, ilChanged, ilList, ilListFetch, ilPoll, ilShown, ilShownFetch, ilSeen,
                 ilTried, ilActivate, ilPending, ilAnnounced, ilLeft>>

DeleteResponded ==
  /\ ilDelete.at \in {"accepted", "refused"}
  /\ ilDelete' = NoDeletion
  /\ ilListFetch' = ListAsked
  /\ IF ilDelete.at = "accepted"
     THEN /\ UNCHANGED ilPending
          /\ ilShownFetch' = IF ilDelete.active \/ ilDelete.plan = "start_over"
                             THEN ShownAsked ELSE ilShownFetch
     ELSE ilPending' = ilPending \ {ilDelete.id} /\ UNCHANGED ilShownFetch
  /\ UNCHANGED <<ilRows, ilActive, ilChanged, ilList, ilPoll, ilShown, ilSeen, ilTried, ilActivate,
                 ilAnnounced, ilLeft>>

\* An import was started from the dialog, finished there, or the user refreshes.
ListAskedAgain ==
  /\ UserActs
  /\ ilListFetch' = ListAsked /\ ilShownFetch' = ShownAsked
  /\ UNCHANGED <<ilRows, ilActive, ilChanged, ilList, ilPoll, ilShown, ilSeen, ilTried, ilActivate,
                 ilPending, ilDelete, ilAnnounced>>

-----------------------------------------------------------------------------
\* The page opens on one import that is complete, and active unless the user
\* has no settings row yet.
ListInit ==
  /\ ilRows = [[i \in Libraries |-> NoLibRow] EXCEPT ![1].st = "completed"]
  /\ ilActive \in {1, NoSettings}
  /\ ilList = [i \in Libraries |-> NoLibRow] /\ ilListFetch = ListAsked /\ ilPoll = NoPoll
  /\ ilShown = NoLibrary /\ ilShownFetch = ShownAsked /\ ilChanged = FALSE
  /\ ilSeen = {} /\ ilTried = {} /\ ilActivate = {} /\ ilPending = {}
  /\ ilDelete = NoDeletion /\ ilAnnounced = {} /\ ilLeft = MaxLibraryActs

ListNext ==
  \/ \E i \in Libraries : \/ LibraryCreated(i) \/ LibraryEnds(i) \/ DeleteFinalized(i)
                          \/ LibraryChosen(i)
                          \/ \E plan \in Plans : DeleteConfirmed(i, plan)
  \/ ListRead \/ ListAnswered \/ PollStarted \/ PollRead \/ PollAnswered
  \/ ShownRead \/ ShownAnswered \/ SettingsChanged
  \/ \E c \in ilActivate : ActivationReached(c) \/ ActivationAnswered(c)
  \/ DeleteArrived \/ DeleteResponded
  \/ ListAskedAgain

ListSpec == ListInit /\ [][ListNext]_listVars

ListTypeOK ==
  /\ ilRows \in [Libraries -> LibRow] /\ ilList \in [Libraries -> LibRow]
  /\ ilActive \in Libraries \cup {NoLibrary, NoSettings} /\ ilShown \in Libraries \cup {NoLibrary}
  /\ ilShownFetch.at \in {"idle", "failed", "settings", "row", "again", "second", "latest", "answered"}
  /\ ilPoll.read => ilPoll.on
  /\ \A S \in {ilSeen, ilTried, ilPending, ilAnnounced} : S \subseteq Libraries
  /\ ilActivate \subseteq [id : Libraries, by : {"page", "user"}, at : {"sent", "done", "failed"}]
  /\ ilDelete.at \in {"idle", "sent", "accepted", "refused"} /\ ilDelete.tries \in 0 .. DeleteRetries
  /\ ilChanged \in BOOLEAN /\ ilLeft \in 0 .. MaxLibraryActs

-----------------------------------------------------------------------------
\* The page announces a deletion only when the import is gone.
DeletedIsGone == \A i \in ilAnnounced : ilRows[i].st = "gone"

\* Once the reads it has asked for are answered and the settings' events are
\* delivered, the page shows the library the settings name, or none when the
\* user chose to start over.
ShownFollowsSettings ==
  (ilShownFetch.at = "idle" /\ ~ilChanged) =>
     /\ ilActive = NoLibrary => ilShown = NoLibrary
     /\ \A i \in Libraries : (ilActive = i /\ IsBrowseable(ilRows[i])) => ilShown = i
=============================================================================
