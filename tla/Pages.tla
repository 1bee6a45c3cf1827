------------------------------- MODULE Pages --------------------------------
(***************************************************************************)
(* The pages of the web front end that do work asynchronously: a handler   *)
(* is started by a click, by the choice of a file, by a timer or by the    *)
(* page itself, waits for the browser or for the backend, and then stores  *)
(* what it got in the state of the page.                                   *)
(*                                                                         *)
(* The handlers differ in a few respects, so each is an entry of a table,  *)
(* PageSites.  One set of actions runs every page.  Data is a version      *)
(* number: of what the user chose, or of what the backend serves.          *)
(***************************************************************************)
EXTENDS Integers, Sequences, SequencesExt, FiniteSets

CONSTANTS
  Sites,       \* page -> handler -> what its code and what its page does
  MaxVersion,  \* bound: versions of the data of a handler
  MaxRuns      \* bound: runs of one handler at a time

VARIABLES
  page,    \* the page that is open
  data,    \* handler -> the version chosen by the user, or held by the backend
  runs,    \* handler -> its runs in progress, by the version they started from
  busy,    \* the flag of the page: isProcessing, loading, testing...
  armed,   \* does the timer of the page run?
  shown    \* handler -> the version whose result the page shows

vars == <<page, data, runs, busy, armed, shown>>

NoPage == "none"
None == 0
ErrorBody == -1   \* an error reply stored as if it were data

-----------------------------------------------------------------------------
(* A page by its entries in the table                                      *)

Handlers == DOMAIN shown
Work(h) == Sites[page][h][1]
Control(h) == Sites[page][h][2]

\* Pages whose flag is up before the first run ends, and whose timer the user
\* can stop; on the leak checker it does not run before it is asked for.
LoadsFirst == {"search", "network", "ipDashboard", "monitor"}
Stoppable == {"leakChecker", "dashboard"}

Init ==
  /\ page = NoPage /\ busy = FALSE /\ armed = FALSE
  /\ data = <<>> /\ runs = <<>> /\ shown = <<>>

\* The page is mounted; its effects start the first runs.
Visit(p) ==
  /\ page = NoPage
  /\ page' = p
  /\ LET hs == DOMAIN Sites[p]
     IN /\ data' = [h \in hs |-> IF Sites[p][h][1].reads = "backend" THEN 1 ELSE None]
        /\ shown' = [h \in hs |-> None]
        /\ runs' = [h \in hs |-> IF "mount" \in Sites[p][h][2].starts THEN <<1>> ELSE <<>>]
  /\ busy' = (p \in LoadsFirst)
  /\ armed' = (p # "leakChecker")

-----------------------------------------------------------------------------
(* The actions                                                             *)

Start(h, d) ==
  /\ Len(runs[h]) < MaxRuns
  /\ runs' = [runs EXCEPT ![h] = Append(@, d[h])]
  /\ busy' = (busy \/ Work(h).raises)
  /\ shown' = IF Work(h).clears THEN [shown EXCEPT ![h] = None] ELSE shown

\* The user chooses another file or types other text; a file input that
\* starts its handler does so at once.
Choose(h) ==
  /\ Work(h).reads = "choice" /\ data[h] < MaxVersion
  /\ data' = [data EXCEPT ![h] = @ + 1]
  /\ IF "choose" \in Control(h).starts THEN Start(h, data') ELSE UNCHANGED <<runs, busy, shown>>
  /\ UNCHANGED <<page, armed>>

EnabledAnyTime(h) == "nothing" \in Control(h).disabled => data[h] # None

Enabled(h) ==
  /\ "busy" \in Control(h).disabled => ~busy
  /\ "nothing" \in Control(h).disabled => data[h] # None

Click(h) ==
  /\ "click" \in Control(h).starts /\ Enabled(h)
  /\ Start(h, data)
  /\ UNCHANGED <<page, data, armed>>

Tick(h) ==
  /\ "timer" \in Control(h).starts /\ armed
  /\ Start(h, data)
  /\ UNCHANGED <<page, data, armed>>

\* Start or stop monitoring: the dashboard polls at once when it starts.
Toggle ==
  /\ page \in Stoppable
  /\ armed' = ~armed
  /\ IF page = "dashboard" /\ armed'
     THEN Start("metrics", data)
     ELSE UNCHANGED <<runs, busy, shown>>
  /\ UNCHANGED <<page, data>>

BackendChanges(h) ==
  /\ Work(h).reads = "backend" /\ data[h] < MaxVersion
  /\ data' = [data EXCEPT ![h] = @ + 1]
  /\ UNCHANGED <<page, runs, busy, armed, shown>>

\* What the i-th run of h may have seen: the choice it was started with, or
\* any state of the backend since it was started.
Seen(h, i) == IF Work(h).reads = "choice" THEN {runs[h][i]} ELSE runs[h][i]..data[h]

Ends(h, i, lowered) ==
  /\ runs' = [runs EXCEPT ![h] = RemoveAt(@, i)]
  /\ busy' = (busy /\ ~lowered)
  /\ UNCHANGED <<page, data, armed>>

Succeeds(h, i) ==
  /\ Ends(h, i, Work(h).lowers # "never")
  /\ \E v \in Seen(h, i) : shown' = [shown EXCEPT ![h] = v]

\* One probe of several is in.
Progresses(h, i) ==
  /\ Work(h).partial
  /\ shown' = [shown EXCEPT ![h] = runs[h][i]]
  /\ UNCHANGED <<page, data, runs, busy, armed>>

\* The work throws, or the reply is an error and the handler looks.
Fails(h, i) ==
  /\ Work(h).fails
  /\ Ends(h, i, Work(h).lowers = "always")
  /\ shown' = IF Work(h).onError = "clear" THEN [shown EXCEPT ![h] = None] ELSE shown

\* The reply is an error, and the handler stores its body.
TakesError(h, i) ==
  /\ Work(h).trusts
  /\ Ends(h, i, Work(h).lowers # "never")
  /\ shown' = [shown EXCEPT ![h] = ErrorBody]

Settle(h, i) == Succeeds(h, i) \/ Fails(h, i) \/ TakesError(h, i)

Next ==
  \/ \E p \in DOMAIN Sites : Visit(p)
  \/ \E h \in Handlers : Choose(h) \/ Click(h) \/ Tick(h) \/ BackendChanges(h)
  \/ Toggle
  \/ \E h \in Handlers : \E i \in DOMAIN runs[h] : Progresses(h, i) \/ Settle(h, i)

\* The polls whose results are compared with the backend; no page has two of
\* one group.
Statuses == {"status", "metrics"}
Counts == {"count"}
PollGroups == {Statuses, Counts}
Polls == UNION PollGroups

SomeSettles == \E h \in Handlers : ~Work(h).hangs /\ \E i \in DOMAIN runs[h] : Settle(h, i)
SomeTicks(group) == \E h \in Handlers \cap group : Tick(h)
SomeSucceeds(group) ==
  \E h \in Handlers \cap group : \E i \in DOMAIN runs[h] : Succeeds(h, i)

\* Intervals fire, requests and file reads come to an end, unless the handler
\* waits for an event that need not come; a backend that is asked again and
\* again answers some time.
Fairness ==
  /\ WF_vars(SomeSettles)
  /\ \A group \in PollGroups : WF_vars(SomeTicks(group)) /\ SF_vars(SomeSucceeds(group))

Spec == Init /\ [][Next]_vars /\ Fairness

-----------------------------------------------------------------------------
(* Properties                                                              *)

\* Runs that lower the flag when they succeed.
Flagged ==
  UNION {{h} \X DOMAIN runs[h] : h \in {g \in Handlers : Work(g).lowers # "never"}}

\* Pages whose runs are started by the page or by a button that is disabled
\* while one goes on: not by a timer, nor by choosing a file.
Exclusive == {"encryption", "compression", "virusChecker", "hashGenerator",
              "networkAnalyzer", "search", "network", "ipDashboard"}

\* Pages with a handler that leaves the flag up when its work fails, and those
\* that wait for an event without an answer for its absence.
Uncaught == {"hashGenerator", "fileHasher"}
Waiting == {"metadataEditor"}

\* The variables are as typed, and no page shows a version nobody chose or served.
TypeOK ==
  /\ page \in DOMAIN Sites \cup {NoPage}
  /\ busy \in BOOLEAN /\ armed \in BOOLEAN
  /\ page # NoPage =>
       /\ Handlers = DOMAIN Sites[page] /\ DOMAIN data = Handlers
       /\ \A h \in Handlers : data[h] \in 0..MaxVersion /\ shown[h] \in -1..data[h]
       /\ \A h \in Handlers : runs[h] \in Seq(1..MaxVersion)

\* Two runs never share the flag of a page whose buttons are disabled while it
\* is up, although the page itself starts the first one: isLoading and its
\* like begin as true there.
OneRunAtATime == page \in Exclusive => Cardinality(Flagged) <= 1

\* The flag says what goes on: it is up only while a run goes on, except where
\* a handler without a catch has failed, and a lone run is never hidden.
FlagIsHonest ==
  /\ busy /\ page \notin Uncaught => Flagged # {}
  /\ page \in Exclusive /\ Flagged # {} => busy

\* Where runs exclude each other, a result is never replaced by an older one:
\* what was chosen or served before does not come back.  (Elsewhere it can: a
\* poll or the hashing of a first file may end after the second.)
NeverOlder ==
  [][\A h \in Handlers : page \in Exclusive /\ shown'[h] > None => shown'[h] >= shown[h]]_vars

\* Together: runs, flag and results of a page belong together.
RunsAreSound == [](TypeOK /\ OneRunAtATime /\ FlagIsHonest) /\ NeverOlder

\* A page does not stay busy: however the work ends, the user can start again.
\* (The two hash pages and the metadata editor are the exceptions.)
ComesBack == []<>(busy => page \in Uncaught \cup Waiting)

\* Polls that overtake each other and polls that fail leave no lasting mark:
\* once the backend holds still, the page shows what it holds for good.  (The
\* monitor shows the body of an error reply whenever there is one.)
PollsConverge ==
  <>[](page \in {"ticker", "dashboard"} /\ armed)
    => <>[](\A h \in Handlers \cap Polls : shown[h] = data[h])

\* Together: a page recovers from what failed.
PagesRecover == ComesBack /\ PollsConverge

=============================================================================
