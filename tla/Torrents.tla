------------------------------- MODULE Torrents -------------------------------
(***************************************************************************)
(* The page of torrents of the web front end (app/torrents/page.tsx, its   *)
(* cards and dialogs) with the handlers of the backend it calls            *)
(* (api/handlers.go, api/router.go, torrent/client.go).  The list is asked *)
(* for every second and after every operation; requests of a user run side *)
(* by side, and their answers come in any order or not at all.             *)
(***************************************************************************)
EXTENDS Naturals, Sequences, FiniteSets

CONSTANTS
  Torrents,   \* info hashes
  Calls,      \* requests that users have under way at once
  Nil,        \* no call; no list yet
  AutoStop,   \* setting auto_stop_seeding
  MaxActs     \* bound: what users and the swarm do

VARIABLES
  known,      \* Client.torrents
  wanted,     \* of these, the ones whose pieces are asked for
  status,     \* what torrentInfo makes of their progress
  favorites,  \* settings torrent_*_favorite
  stopped,    \* settings torrent_*_auto_stopped
  limits,     \* Client.torrentLimits
  list,       \* page: the torrents last received
  filter,     \* page: filterStatus
  star,       \* cards: isFavorite
  poll,       \* page: the request for the list, and what it brings
  events,     \* page: whether the request for events is under way
  isLoading,  \* add dialog: whether its request is under way
  calls,      \* requests under way
  refused, mixed, gone,   \* history
  \* torrents of which the backend refused a star; torrents with different stars
  \* under way at once; torrents whose deletion was confirmed to the page
  acts

client == <<known, wanted, status, limits>>
server == <<client, favorites, stopped>>
window == <<list, filter, star, poll, events, isLoading>>
history == <<refused, mixed, gone>>
vars == <<server, window, calls, history, acts>>

Statuses == {"starting", "downloading", "completed"}
Filters == {"all", "completed"}   \* of six

Idle == [at |-> "none", list |-> Nil]
Asked == [at |-> "asked", list |-> Nil]

Init ==
  /\ known = {} /\ wanted = {} /\ favorites = {} /\ stopped = {}
  /\ status = [t \in Torrents |-> "starting"] /\ limits = [t \in Torrents |-> 0]
  /\ list = Nil /\ filter = "all" /\ star = [t \in Torrents |-> FALSE]
  /\ poll = Idle /\ events = FALSE /\ isLoading = FALSE
  /\ calls = [c \in Calls |-> Nil]
  /\ refused = {} /\ mixed = {} /\ gone = {}
  /\ acts = 0

Act == acts < MaxActs /\ acts' = acts + 1

-----------------------------------------------------------------------------
(* The backend                                                             *)

\* torrentInfo: neither "paused" nor "seeding" is ever its status, and whether
\* it is a favorite is not filled in.
Info(t) == [status |-> status[t], favorite |-> FALSE]

\* GetAllTorrents: an empty list arrives as null.
GetTorrents == IF known = {} THEN Nil ELSE [t \in known |-> Info(t)]

\* The swarm: a torrent makes progress.
Progress(t) ==
  /\ Act /\ t \in known /\ status[t] # "completed"
  /\ status' = [status EXCEPT ![t] = IF @ = "starting" THEN "downloading" ELSE "completed"]
  /\ UNCHANGED <<known, wanted, limits, favorites, stopped, window, calls, history>>

\* What a handler leaves of the client and of the settings.
Done(op, t) ==
  /\ known' = CASE op = "add" -> known \cup {t} [] op = "delete" -> known \ {t} [] OTHER -> known
  /\ wanted' = CASE op \in {"add", "resume"} -> wanted \cup {t}
                 [] op \in {"delete", "pause"} -> wanted \ {t}
                 [] OTHER -> wanted
  /\ status' = IF op \in {"add", "delete"} /\ (op = "add" => t \notin known)
                 THEN [status EXCEPT ![t] = "starting"] ELSE status

\* SetLimits takes no limits for what the client does not know.
LimitsAfter(op, t, value) ==
  CASE op = "limits" /\ t \in known -> [limits EXCEPT ![t] = value]
    [] op = "delete" -> [limits EXCEPT ![t] = 0]
    [] OTHER -> limits

\* PauseTorrent, ResumeTorrent and DeleteTorrent refuse what the client does
\* not know; SetTorrentLimits stores and tells no one of a client that refuses.
Refuses(op, t) == op \in {"pause", "resume", "delete"} /\ t \notin known

\* The routes for the page's events, in the order in which they are registered:
\* the first that matches handles a request.
Routes == <<"/torrents/{infoHash}", "/torrents/events">>

\* GetTorrentEvents: finished torrents that still seed are stopped, once.  The
\* other handler takes "events" for an info hash, which it refuses.
Seeding == {t \in known : Info(t).status = "seeding" /\ t \notin stopped}
Handled(route) == IF route = "/torrents/events" /\ AutoStop THEN Seeding ELSE {}

-----------------------------------------------------------------------------
(* The list                                                                *)

\* sortedTorrents: the cards on show.
Shown(l, f) ==
  IF l = Nil THEN {} ELSE {t \in DOMAIN l : f = "all" \/ l[t].status = f}

cards == Shown(list, filter)

\* A card that appears takes its star from the list; one that goes, goes with
\* its state, and what its requests bring is lost.
Render(l, f) ==
  LET now == Shown(l, f)
  IN  /\ list' = l /\ filter' = f
      /\ star' = [t \in Torrents |->
                    IF t \in cards \cap now THEN star[t] ELSE t \in now /\ l[t].favorite]
      /\ calls' = [c \in Calls |->
                    IF calls[c] # Nil /\ calls[c].t \notin now THEN [calls[c] EXCEPT !.card = FALSE]
                    ELSE calls[c]]

\* useSWR, every second
PollAsked ==
  /\ poll = Idle
  /\ poll' = Asked
  /\ UNCHANGED <<server, list, filter, star, events, isLoading, calls, history, acts>>

PollServed ==
  /\ poll = Asked
  /\ poll' = [at |-> "served", list |-> GetTorrents]
  /\ UNCHANGED <<server, list, filter, star, events, isLoading, calls, history, acts>>

\* A failed request leaves the list as it is.
AfterFailure == Idle
PollFails ==
  /\ Act /\ poll = Asked
  /\ poll' = AfterFailure
  /\ UNCHANGED <<server, list, filter, star, events, isLoading, calls, history>>

PollArrives ==
  /\ poll.at = "served"
  /\ Render(poll.list, filter)
  /\ poll' = Idle
  /\ UNCHANGED <<server, events, isLoading, history, acts>>

\* The menu of filters.
ChooseFilter(f) ==
  /\ Act /\ f # filter
  /\ Render(list, f)
  /\ UNCHANGED <<server, poll, events, isLoading, history>>

\* The events, every two seconds; the page takes nothing from a refusal.
EventsAsked ==
  /\ ~events /\ events' = TRUE
  /\ UNCHANGED <<server, list, filter, star, poll, isLoading, calls, history, acts>>

EventsAnswered ==
  /\ events /\ events' = FALSE
  /\ wanted' = wanted \ Handled(Head(Routes))
  /\ stopped' = stopped \cup Handled(Head(Routes))
  /\ UNCHANGED <<known, status, limits, favorites, list, filter, star, poll, isLoading, calls,
                 history, acts>>

-----------------------------------------------------------------------------
(* Requests of users                                                       *)

Send(c, op, t, value) ==
  /\ calls[c] = Nil
  /\ calls' = [calls EXCEPT ![c] = [op |-> op, t |-> t, value |-> value, at |-> "sent",
                                    card |-> t \in cards]]

\* AddTorrentDialog: it offers one request at a time, closed and opened again
\* or not.
CanAdd == ~isLoading
AddTorrent(c, t) ==
  /\ Act /\ CanAdd
  /\ Send(c, "add", t, 0)
  /\ isLoading' = TRUE
  /\ UNCHANGED <<server, list, filter, star, poll, events, history>>

\* The buttons of a card: what the first one does follows the status on show.
Offers(t) == {IF list[t].status = "paused" THEN "resume" ELSE "pause", "delete"}
Click(c, t) ==
  /\ Act /\ t \in cards
  /\ \E op \in Offers(t) : Send(c, op, t, 0)
  /\ UNCHANGED <<server, window, history>>

\* handleToggleFavorite: the star that is asked for is fixed by the click.
Toggle(c, t) ==
  /\ Act /\ t \in cards
  /\ Send(c, "favorite", t, ~star[t])
  /\ mixed' = mixed \cup {u \in {t} : \E d \in Calls :
       calls[d] # Nil /\ calls[d].op = "favorite" /\ calls[d].t = t /\ calls[d].value = star[t]}
  /\ UNCHANGED <<server, window, refused, gone>>

\* TorrentLimitsDialog: what the sliders say is sent as the dialog closes.
SaveLimits(c, t) ==
  /\ Act /\ t \in cards
  /\ \E limit \in {0, 1} : Send(c, "limits", t, limit)
  /\ UNCHANGED <<server, window, history>>

\* ScheduleDialog: a schedule is stored, and nothing acts upon it.
SaveSchedule(c, t) ==
  /\ Act /\ t \in cards
  /\ Send(c, "schedule", t, 0)
  /\ UNCHANGED <<server, window, history>>

\* The backend handles a request.
Serve(c) ==
  /\ calls[c] # Nil /\ calls[c].at = "sent"
  /\ LET op == calls[c].op
         t == calls[c].t
         Answer(at) == calls' = [calls EXCEPT ![c].at = at]
     IN  \/ /\ ~Refuses(op, t)
            /\ Done(op, t)
            /\ favorites' = IF op # "favorite" THEN favorites
                            ELSE IF calls[c].value THEN favorites \cup {t} ELSE favorites \ {t}
            /\ limits' = LimitsAfter(op, t, calls[c].value)
            /\ gone' = IF op = "add" THEN gone \ {t} ELSE gone
            /\ Answer("done")
            /\ UNCHANGED <<refused, acts>>
         \/ /\ IF Refuses(op, t) THEN UNCHANGED acts ELSE Act
            /\ refused' = IF op = "favorite" THEN refused \cup {t} ELSE refused
            /\ Answer("refused")
            /\ UNCHANGED <<client, favorites, gone>>
  /\ UNCHANGED <<stopped, window, mixed>>

\* setIsFavorite(!isFavorite), as the click saw it.
NewStar(c) == calls[c].value

\* Mutant of Updated: the page waits for the next look at the list.
UpdatedLater(c) == poll

\* onUpdate: the list is asked for anew, and an answer under way is not taken.
\* The dialog for new torrents does so only when its request succeeded.
Updated(c) == IF calls[c].op = "add" /\ calls[c].at = "refused" THEN poll ELSE Asked

\* An answer comes; the cards do not look whether it is a refusal.
Answered(c) ==
  /\ calls[c] # Nil /\ calls[c].at # "sent"
  /\ LET op == calls[c].op
         t == calls[c].t
     IN  /\ poll' = Updated(c)
         /\ star' = IF op = "favorite" /\ calls[c].card /\ t \in cards
                      THEN [star EXCEPT ![t] = NewStar(c)] ELSE star
         /\ isLoading' = (isLoading /\ op # "add")
         /\ gone' = IF op = "delete" /\ calls[c].at = "done" THEN gone \cup ({t} \ known) ELSE gone
  /\ calls' = [calls EXCEPT ![c] = Nil]
  /\ UNCHANGED <<server, list, filter, events, refused, mixed, acts>>

\* No answer comes: the user is told, and nothing else happens.
Lost(c) ==
  /\ Act /\ calls[c] # Nil
  /\ refused' = IF calls[c].op = "favorite" THEN refused \cup {calls[c].t} ELSE refused
  /\ isLoading' = (isLoading /\ calls[c].op # "add")
  /\ calls' = [calls EXCEPT ![c] = Nil]
  /\ UNCHANGED <<server, list, filter, star, poll, events, mixed, gone>>

Next ==
  \/ \E t \in Torrents :
       \/ Progress(t)
       \/ \E c \in Calls : \/ AddTorrent(c, t) \/ Click(c, t) \/ Toggle(c, t)
                          \/ SaveLimits(c, t) \/ SaveSchedule(c, t)
  \/ \E c \in Calls : Serve(c) \/ Answered(c) \/ Lost(c)
  \/ \E f \in Filters : ChooseFilter(f)
  \/ PollAsked \/ PollServed \/ PollFails \/ PollArrives
  \/ EventsAsked \/ EventsAnswered

\* The page asks, and a request that was sent gets somewhere.
Polling == PollAsked \/ PollServed \/ PollArrives
Fairness == WF_vars(Polling) /\ \A c \in Calls : WF_vars(Serve(c) \/ Answered(c))

Spec == Init /\ [][Next]_vars /\ Fairness

-----------------------------------------------------------------------------
(* Properties                                                              *)

\* A star on show is one that the backend keeps, however often it is clicked,
\* unless a request failed or different ones overtook each other.
StarIsHonest ==
  \A t \in cards \ (refused \cup mixed) :
    star[t] /\ (\A c \in Calls : calls[c] # Nil => calls[c].t # t) => t \in favorites

\* A torrent that is added again does not inherit limits from its former life,
\* whatever requests for limits were still under way.
LimitsEndWithTorrents == \A t \in Torrents : limits[t] # 0 => t \in known

\* A list that arrives after the deletion of a torrent was confirmed does not
\* bring it back.
NoGhosts ==
  [][ PollArrives => \A t \in gone \ known : list' = Nil \/ t \notin DOMAIN list' ]_vars

ListIsCurrent == list = GetTorrents

\* When nothing more happens, the page comes to show what the backend has.
ListConverges == <>[]ListIsCurrent

\* Together: the list, its stars and its limits are those of the backend, and a
\* torrent that was deleted does not come back.
ListIsHonest == [](StarIsHonest /\ LimitsEndWithTorrents) /\ NoGhosts

==============================================================================
