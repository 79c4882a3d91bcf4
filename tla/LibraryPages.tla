---------------------------- MODULE LibraryPages ----------------------------
(***************************************************************************)
(* The track lists that grow page by page: useLibraryTracks of             *)
(* useRekordboxTracks.ts (an import with its filter) and                   *)
(* useRekordboxPlaylistTracks.ts (a playlist).                             *)
(*                                                                         *)
(* A list is a sequence of rows that the database keeps in one order, and  *)
(* a row is its place in it.  The answers of the database arrive in any    *)
(* order; an ask is fresh while the generation it was made in is current.  *)
(***************************************************************************)
EXTENDS Naturals, Sequences, FiniteSets

CONSTANTS
  Lists, NoList,        \* what can be shown; NoList is no import, no playlist or not enabled
  RowsOf,               \* the number of rows of every list
  PageSize,
  MaxAsks               \* bound: asks under way at a time

ASSUME PagesAssumption == RowsOf \in Nat /\ PageSize \in Nat /\ NoList \notin Lists

VARIABLES
  pgHook,      \* whose list it is, "library" or "playlist"
  pgList,      \* the list that is shown
  pgRows,      \* its rows, each with the list it was read from
  pgTotal,
  pgLoading, pgMore,    \* loading, loadingMore
  pgAsks,      \* the requests under way
  pgRaced,     \* history: a refresh cut rows off under a request for more
  pgStuck      \* history: a playlist was left while it loaded more

pageVars == <<pgHook, pgList, pgRows, pgTotal, pgLoading, pgMore, pgAsks, pgRaced, pgStuck>>

\* get_rekordbox_library_track_page and get_rekordbox_playlist_track_page.
Page(l, from, count) == [n \in 1..(IF from + count <= RowsOf THEN count ELSE RowsOf - from) |-> <<l, from + n>>]

Ask(kind, from, count) == [kind |-> kind, list |-> pgList, from |-> from, count |-> count, fresh |-> TRUE]
AsksFor(kind) == {a \in pgAsks : a.kind = kind /\ a.fresh}

\* A mutant: the generation is not compared.
AnyAsk(a) == TRUE

\* generation === generationRef.current.
IsFreshAsk(a) == a.fresh

-----------------------------------------------------------------------------
\* The effect of another list, or of refresh() in the library: the asks before
\* are superseded and a first page that still waits for its delay is not asked for.
\* The playlist page keeps loadingMore as it is.
ShowList(l) ==
  /\ l # pgList \/ (pgHook = "library" /\ l # NoList)
  /\ Cardinality(pgAsks) < MaxAsks
  /\ pgList' = l /\ pgRows' = << >> /\ pgTotal' = 0 /\ pgLoading' = (l # NoList)
  /\ pgMore' = (pgMore /\ pgHook = "playlist" /\ l # NoList)
  /\ pgStuck' = pgMore'
  /\ pgAsks' = {[a EXCEPT !.fresh = FALSE] : a \in {b \in pgAsks : b.kind # "due"}}
               \cup (IF l = NoList THEN {}
                     ELSE {[kind |-> IF pgHook = "library" THEN "due" ELSE "first", list |-> l,
                            from |-> 0, count |-> PageSize, fresh |-> TRUE]})
  /\ pgRaced' = FALSE /\ UNCHANGED pgHook

\* The delay of a search is over.
FirstPageDue ==
  /\ \E a \in pgAsks : a.kind = "due" /\ pgAsks' = (pgAsks \ {a}) \cup {[a EXCEPT !.kind = "first"]}
  /\ UNCHANGED <<pgHook, pgList, pgRows, pgTotal, pgLoading, pgMore, pgRaced, pgStuck>>

\* Analysis has progressed: as many rows as are shown are read again.
ProgressAnnounced ==
  /\ pgList # NoList /\ Cardinality(pgAsks) < MaxAsks
  /\ pgAsks' = pgAsks \cup {Ask("refresh", 0, IF Len(pgRows) > PageSize THEN Len(pgRows) ELSE PageSize)}
  /\ UNCHANGED <<pgHook, pgList, pgRows, pgTotal, pgLoading, pgMore, pgRaced, pgStuck>>

LoadMore ==
  /\ pgList # NoList /\ ~pgLoading /\ ~pgMore /\ Len(pgRows) < pgTotal
  /\ Cardinality(pgAsks) < MaxAsks
  /\ pgMore' = TRUE /\ pgAsks' = pgAsks \cup {Ask("more", Len(pgRows), PageSize)}
  /\ UNCHANGED <<pgHook, pgList, pgRows, pgTotal, pgLoading, pgRaced, pgStuck>>

\* What an ask ends: the first page the loading, a request for more loadingMore.
AskSettled(a) ==
  /\ pgAsks' = pgAsks \ {a}
  /\ pgLoading' = (pgLoading /\ ~(a.kind = "first" /\ IsFreshAsk(a)))
  /\ pgMore' = (pgMore /\ ~(a.kind = "more" /\ IsFreshAsk(a)))
  /\ UNCHANGED <<pgHook, pgList, pgStuck>>

PageAnswers(a) ==
  /\ a \in pgAsks /\ a.kind # "due" /\ AskSettled(a)
  /\ IF ~IsFreshAsk(a) THEN UNCHANGED <<pgRows, pgTotal, pgRaced>>
     ELSE /\ pgRows' = (IF a.kind = "more" THEN pgRows ELSE << >>) \o Page(a.list, a.from, a.count)
          /\ pgTotal' = RowsOf
          /\ pgRaced' = (pgRaced \/ \E m \in AsksFor("more") \ {a} : m.from # Len(pgRows'))

\* The library forgets its rows when the first page fails.
PageFails(a) ==
  /\ a \in pgAsks /\ a.kind # "due" /\ AskSettled(a)
  /\ IF IsFreshAsk(a) /\ a.kind = "first" /\ pgHook = "library"
     THEN pgRows' = << >> /\ pgTotal' = 0 ELSE UNCHANGED <<pgRows, pgTotal>>
  /\ UNCHANGED pgRaced

-----------------------------------------------------------------------------
PagesInit ==
  /\ pgHook \in {"library", "playlist"} /\ pgList = NoList /\ pgRows = << >> /\ pgTotal = 0
  /\ pgLoading = FALSE /\ pgMore = FALSE /\ pgAsks = {} /\ pgRaced = FALSE /\ pgStuck = FALSE

PagesNext ==
  \/ \E l \in Lists \cup {NoList} : ShowList(l)
  \/ FirstPageDue \/ ProgressAnnounced \/ LoadMore
  \/ \E a \in pgAsks : PageAnswers(a) \/ PageFails(a)

PagesSpec == PagesInit /\ [][PagesNext]_pageVars

PagesTypeOK ==
  /\ pgHook \in {"library", "playlist"} /\ pgList \in Lists \cup {NoList}
  /\ pgRows \in Seq(Lists \X (1..RowsOf)) /\ pgTotal \in {0, RowsOf}
  /\ pgLoading \in BOOLEAN /\ pgMore \in BOOLEAN /\ pgRaced \in BOOLEAN /\ pgStuck \in BOOLEAN
  /\ pgAsks \subseteq [kind : {"due", "first", "refresh", "more"}, list : Lists, from : 0..RowsOf,
                       count : 0..(RowsOf + PageSize), fresh : BOOLEAN]

-----------------------------------------------------------------------------
\* The rows that are shown are the first rows of the list that is shown, none
\* missing and none twice, although pages, refreshes and lists overtake one
\* another.  Exempt is pgRaced: a refresh begun with fewer rows answers while a
\* request for more is under way (see README).
RowsAreWhole == pgRaced \/ pgRows = Page(pgList, 0, Len(pgRows))

\* A list that says it loads, and asks for nothing more meanwhile, has a request
\* under way that ends it.  Exempt is pgStuck: the playlist that was left while it
\* loaded more (see README).
PagesLoad ==
  /\ pgLoading => AsksFor("due") \cup AsksFor("first") # {}
  /\ pgMore /\ ~pgStuck => AsksFor("more") # {}
=============================================================================
