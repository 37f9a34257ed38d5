------------------------------ MODULE Listing ------------------------------
(***************************************************************************)
(* A person at the dashboard: a list of jobs that polls and grows by pages *)
(* (useJobList), the page of one job that polls too, and the button that   *)
(* replays a dead job, while the jobs themselves come and change.  The     *)
(* query library decides which request runs: an interval joins the one in  *)
(* flight, "load more" cancels it, and an invalidation cancels it if there *)
(* is something to show in the meantime, and joins it if there is not.     *)
(***************************************************************************)
EXTENDS Pages

CONSTANTS
  Old,         \* the jobs that are dead when the dashboard opens
  Changes,     \* bounds on what may happen: rows inserted or changed,
  Failures,    \* requests that fail,
  Visits       \* visits to the page of one job

ASSUME DashboardAssumption ==
  Old \subseteq Jobs /\ Changes \in Nat /\ Failures \in Nat /\ Visits \in Nat

VARIABLES
  table,       \* status of every job, in Postgres
  cache,       \* the pages this list shows
  fetch,       \* the request of the list that is in flight
  detail,      \* the query of one job: which, what it shows, what it has read
  screen,      \* "list" or "detail"
  replay,      \* POST /jobs/:id/replay: the job and how far the request is
  told,        \* jobs a list or a page on screen was told are replayed, and that
               \* have not died since
  left         \* what is left of the bounds

vars == <<table, cache, fetch, detail, screen, replay, told, left>>

\* steady holds the rows the filter has matched since the first of the pages was
\* read.  No code keeps it: it is there to say what a reader may expect to see.
Idle == [kind |-> "none", pages |-> <<>>, want |-> 0, retried |-> FALSE, steady |-> {}]
NoDetail == [id |-> 0, seen |-> "none", asked |-> "no"]
NoReplay == [id |-> 0, at |-> "idle"]

Init ==
  /\ table = [i \in Jobs |-> IF i \in Old THEN "dead" ELSE "none"]
  /\ cache = [pages |-> <<>>, steady |-> {}]
  /\ fetch = Idle
  /\ detail = NoDetail
  /\ screen = "list"
  /\ replay = NoReplay
  /\ told = [list |-> {}, detail |-> {}]
  /\ left = [changes |-> Changes, failures |-> Failures, visits |-> Visits]

----------------------------------------------------------------------------
\* The rows the page draws, page after page.
Shown == UNION {ToSet(cache.pages[n].jobs) : n \in DOMAIN cache.pages}
Loaded == cache.pages # <<>>

\* getNextPageParam, and hasNextPage of a list that has some pages.
NextParam(pages) == Last(pages).next
HasNextPage == Loaded /\ NextParam(cache.pages) # End

\* A row that comes, goes, or enters or leaves the filter is not steady any more.
Disturbed(i, s, steady) == IF {table[i], s} \subseteq Filter THEN steady ELSE steady \ {i}

\* Row i gets status s, and whoever watches it is no longer up to date.
ChangeRow(i, s) ==
  /\ table' = [table EXCEPT ![i] = s]
  /\ cache' = [cache EXCEPT !.steady = Disturbed(i, s, @)]
  /\ fetch' = [fetch EXCEPT !.steady = Disturbed(i, s, @)]
  /\ told' = IF s = "dead" THEN [list |-> told.list \ {i}, detail |-> told.detail \ {i}]
             ELSE told

\* Somebody submits a job, a job dies, somebody else replays one.  Rows do not
\* appear in the order of their created_at: it is the time a transaction began.
Change(i, s) ==
  /\ left.changes > 0
  /\ \/ table[i] = "none" /\ s = "live"
     \/ table[i] = "live" /\ s = "dead"
     \/ table[i] = "dead" /\ s = "live"
  /\ ChangeRow(i, s)
  /\ left' = [left EXCEPT !.changes = @ - 1]
  /\ UNCHANGED <<detail, screen, replay>>

----------------------------------------------------------------------------
\* As many pages as are loaded are fetched again, from the top.
Reload == [Idle EXCEPT !.kind = "all",
                       !.want = IF Loaded THEN Len(cache.pages) ELSE 1]

PollsUnlessExtended ==                                           \* a mutant
  /\ screen = "list"
  /\ fetch.kind = "none"
  /\ Len(cache.pages) <= 1
  /\ fetch' = Reload
  /\ UNCHANGED <<table, cache, detail, screen, replay, told, left>>

\* refetchInterval, and the refetch of a list that comes back on screen: nothing
\* when a request is in flight already.
Refresh ==
  /\ screen = "list"
  /\ fetch.kind = "none"
  /\ fetch' = Reload
  /\ UNCHANGED <<table, cache, detail, screen, replay, told, left>>

\* The button is there when there is a next page, and dead while one is loading;
\* a refresh in flight is cancelled.
LoadMore ==
  /\ screen = "list"
  /\ HasNextPage
  /\ fetch.kind # "next"
  /\ fetch' = [Idle EXCEPT !.kind = "next", !.want = 1, !.steady = cache.steady]
  /\ UNCHANGED <<table, cache, detail, screen, replay, told, left>>

\* The cursor of the page to ask for: of the page just read, never of one that
\* is on screen, except when only the next page is wanted.
PageParam ==
  IF fetch.kind = "next" THEN NextParam(cache.pages)
  ELSE IF fetch.pages = <<>> THEN Start
  ELSE NextParam(fetch.pages)

\* A fetch goes on until it has the pages it wanted or there are no more.
Complete ==
  /\ fetch.pages # <<>>
  /\ Len(fetch.pages) = fetch.want \/ NextParam(fetch.pages) = End

\* GET /jobs?status&limit&cursor answers with one page.
ReadPage ==
  /\ fetch.kind # "none"
  /\ ~Complete
  /\ fetch' = [fetch EXCEPT
       !.pages = Append(@, Page(table, PageParam)),
       !.steady = IF fetch.kind = "all" /\ fetch.pages = <<>> THEN Matching(table) ELSE @]
  /\ UNCHANGED <<table, cache, detail, screen, replay, told, left>>

\* Only now the list changes, all of it at once.
ShowPages ==
  /\ fetch.kind # "none"
  /\ Complete
  /\ cache' = [pages |-> IF fetch.kind = "next" THEN cache.pages \o fetch.pages
                                                ELSE fetch.pages,
               steady |-> IF fetch.kind = "next" THEN cache.steady ELSE fetch.steady]
  /\ fetch' = Idle
  /\ UNCHANGED <<table, detail, screen, replay, told, left>>

\* retry: 1.  The first failure of a fetch asks for the same page again, the
\* second gives up and leaves what is on screen.
PageFails ==
  /\ fetch.kind # "none"
  /\ ~Complete
  /\ left.failures > 0
  /\ left' = [left EXCEPT !.failures = @ - 1]
  /\ fetch' = IF fetch.retried THEN Idle ELSE [fetch EXCEPT !.retried = TRUE]
  /\ UNCHANGED <<table, cache, detail, screen, replay, told>>

----------------------------------------------------------------------------
\* A click on a row; what an earlier visit to the same job has cached is shown.
OpenDetail(i) ==
  /\ screen = "list"
  /\ left.visits > 0
  /\ i \in Shown
  /\ screen' = "detail"
  /\ left' = [left EXCEPT !.visits = @ - 1]
  /\ detail' = IF detail.id = i THEN detail ELSE [NoDetail EXCEPT !.id = i]
  /\ UNCHANGED <<table, cache, fetch, replay, told>>

\* A list out of sight keeps its pages and the request in flight.
BackToList ==
  /\ screen = "detail"
  /\ screen' = "list"
  /\ UNCHANGED <<table, cache, fetch, detail, replay, told, left>>

\* GET /jobs/:id every two seconds: asked, read, shown.
AskDetail ==
  /\ screen = "detail"
  /\ detail.asked = "no"
  /\ detail' = [detail EXCEPT !.asked = "yes"]
  /\ UNCHANGED <<table, cache, fetch, screen, replay, told, left>>

ReadDetail ==
  /\ detail.asked = "yes"
  /\ detail' = [detail EXCEPT !.asked = table[detail.id]]
  /\ UNCHANGED <<table, cache, fetch, screen, replay, told, left>>

ShowDetail ==
  /\ detail.asked \in Statuses
  /\ detail' = [detail EXCEPT !.seen = detail.asked, !.asked = "no"]
  /\ UNCHANGED <<table, cache, fetch, screen, replay, told, left>>

----------------------------------------------------------------------------
\* The button is on every row of the dead-letter list, and on the page of a job
\* that is seen dead.
Replayed(i) ==
  \/ screen = "list" /\ Filter = {"dead"} /\ i \in Shown
  \/ screen = "detail" /\ i = detail.id /\ detail.seen = "dead"

ClickReplay(i) ==
  /\ replay.at = "idle"
  /\ left.changes > 0
  /\ Replayed(i)
  /\ replay' = [id |-> i, at |-> "sent"]
  /\ left' = [left EXCEPT !.changes = @ - 1]
  /\ UNCHANGED <<table, cache, fetch, detail, screen, told>>

\* The server replays a job that is dead now; for any other, or when the request
\* never gets there, the answer is an error.
ServeReplay ==
  /\ replay.at = "sent"
  /\ \/ /\ table[replay.id] = "dead"
        /\ ChangeRow(replay.id, "live")
        /\ replay' = [replay EXCEPT !.at = "accepted"]
     \/ /\ table[replay.id] # "dead"
        /\ replay' = [replay EXCEPT !.at = "refused"]
        /\ UNCHANGED <<table, cache, fetch, told>>
  /\ UNCHANGED <<detail, screen, left>>

\* An answer that is an error, or that is lost, changes nothing on screen.
ReplayFails ==
  /\ \/ replay.at = "refused"
     \/ replay.at \in {"sent", "accepted"} /\ left.failures > 0
  /\ left' = [left EXCEPT !.failures = @ - (IF replay.at = "refused" THEN 0 ELSE 1)]
  /\ replay' = NoReplay
  /\ UNCHANGED <<table, cache, fetch, detail, screen, told>>

JoinsInFlight(asked) == IF asked.kind = "none" THEN Reload ELSE asked  \* a mutant

\* invalidateQueries cancels what the list on screen has in flight and starts over: the
\* list has pages, for the button that leads here is on one of its rows, or on the page
\* that a click on one has opened.
Invalidated(asked) == Reload

\* The page of a job may have nothing yet, and then what it has in flight is joined.
AskedAnew == IF detail.seen = "none" /\ detail.asked # "no" THEN detail.asked ELSE "yes"

\* The replay is accepted: what is on screen is fetched again, from now on, unless it
\* waits for its very first answer.
ReplayAccepted ==
  /\ replay.at = "accepted"
  /\ replay' = NoReplay
  /\ told' = CASE table[replay.id] = "dead" -> told
               [] table[replay.id] # "dead" /\ screen = "list" ->
                    [told EXCEPT !.list = @ \cup {replay.id}]
               [] table[replay.id] # "dead" /\ screen = "detail" ->
                    [told EXCEPT !.detail = @ \cup ({replay.id} \cap {detail.id})]
  /\ fetch' = IF screen = "list" THEN Invalidated(fetch) ELSE fetch
  /\ detail' = IF screen = "detail" /\ detail.id = replay.id
               THEN [detail EXCEPT !.asked = AskedAnew] ELSE detail
  /\ UNCHANGED <<table, cache, screen, left>>

----------------------------------------------------------------------------
Dashboard ==
  \/ Refresh \/ LoadMore \/ ReadPage \/ ShowPages \/ PageFails
  \/ \E i \in Jobs : OpenDetail(i) \/ ClickReplay(i)
  \/ BackToList \/ AskDetail \/ ReadDetail \/ ShowDetail
  \/ ServeReplay \/ ReplayFails \/ ReplayAccepted

Next == Dashboard \/ \E i \in Jobs, s \in {"live", "dead"} : Change(i, s)

Spec == Init /\ [][Next]_vars

\* The interval timers tick, and a request that does not fail is answered.
FairSpec ==
  /\ Spec
  /\ WF_vars(Refresh) /\ WF_vars(ReadPage) /\ WF_vars(ShowPages)
  /\ WF_vars(AskDetail) /\ WF_vars(ReadDetail) /\ WF_vars(ShowDetail)

----------------------------------------------------------------------------
(***************************************************************************)
(* Properties.                                                             *)
(***************************************************************************)
LastShown == Last(Last(cache.pages).jobs)
Boundaries(pages) == {n \in DOMAIN pages : pages[n].jobs # <<>> /\ pages[n].next # End}

\* Whatever comes and goes between the pages, the list is in order and no job is in
\* it twice: what a cursor is for, and an offset would not give.
InOrder ==
  \A m, n \in DOMAIN cache.pages :
    \A a \in DOMAIN cache.pages[m].jobs, b \in DOMAIN cache.pages[n].jobs :
      m < n \/ (m = n /\ a < b) => Newer(cache.pages[m].jobs[a], cache.pages[n].jobs[b])

\* The rows the list must have: they matched all the time, and they are not below
\* the last row shown, unless the list says there is no more.
Expected ==
  {i \in cache.steady : HasNextPage => i = LastShown \/ Newer(i, LastShown)}

\* The jobs in the millisecond of the last row of a page, which a cursor skips.
AtBoundary ==
  {i \in Jobs : \E n \in Boundaries(cache.pages) :
                   Millisecond(i) = Millisecond(Last(cache.pages[n].jobs))}

\* A row that matched the filter all through the reading of the pages is in the list,
\* however many others came, went or moved, but for the rows that share the
\* millisecond of the last row of a page.
SkippedOnlyWithinAMillisecond ==
  Loaded => Expected \ AtBoundary \subseteq Shown

\* The same without the exception, as db/schema.sql has it: "Comparing the pair makes
\* every row's position unique."
NothingSkipped ==
  Loaded => Expected \subseteq Shown

\* Once a replay is acknowledged, no answer that was read before it may put the job
\* back on screen as dead: the list, or the page, that was on screen then has nothing
\* of the kind in flight.  The one exception is the first answer of a page that has
\* nothing to show yet, which the invalidation waits for instead of asking anew.
AcknowledgedStaysReplayed ==
  /\ Filter = {"dead"} =>
       \A n \in DOMAIN fetch.pages : ToSet(fetch.pages[n].jobs) \cap told.list = {}
  /\ detail.asked = "dead" /\ detail.id \in told.detail => detail.seen = "none"

\* The list shows no row that should not be there, and lacks none that should.
Fresh ==
  LET rows == Matching(table)
  IN  /\ Loaded
      /\ Shown \subseteq rows
      /\ {i \in rows : HasNextPage => Newer(i, LastShown)} \ AtBoundary
            \subseteq Shown

\* When the jobs have stopped changing, what is on screen becomes what the table
\* says and stays so: the polling of the list and of the page never gets stuck, not
\* behind a page that is loading nor behind a request that was given up.
EventuallyFresh ==
  /\ <>[](screen = "list" => Fresh)
  /\ <>[](screen = "detail" => detail.seen = table[detail.id])
=============================================================================
