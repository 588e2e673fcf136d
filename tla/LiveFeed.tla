------------------------------ MODULE LiveFeed -------------------------------
(***************************************************************************)
(* The live feed: from the commit of an event through the bus              *)
(* (server/bus.py) and one WebSocket handler per connection                *)
(* (server/app.py, ws_traces) to the Query Explorer page that reloads on   *)
(* each message (app.js, traces.html).                                     *)
(*                                                                         *)
(* A page keeps the feed of the project it was opened with, whatever the   *)
(* user selects later, and it reloads that project.  A connection that     *)
(* fails is noticed by the page at once and by its handler when it next    *)
(* sends, so the handlers of a page's earlier connections may linger.  The *)
(* 30 s of wait_for are not counted: a handler that waits may time out.    *)
(***************************************************************************)
EXTENDS Naturals, Sequences

CONSTANTS Event, Page, Project,
          ProjectOf,   \* [Event -> Project]
          Opened,      \* [Page -> Project], the project the page opens with
          Unreliable,  \* pages whose requests may fail
          MaxConns     \* bound: connections of one page

ASSUME FeedData ==
  /\ ProjectOf \in [Event -> Project]
  /\ Opened \in [Page -> Project]
  /\ Unreliable \subseteq Page
  /\ MaxConns \in Nat \ {0}

VARIABLES status,    \* what happened to each event at the server
          ready,     \* callbacks scheduled on the event loop: for whom, what
          serving,   \* connections whose handler runs and is subscribed
          queue,     \* the asyncio.Queue of each handler
          page,      \* what each page does
          used,      \* the number of connections each page has opened
          selected,  \* the project in each page's <select>
          flight,    \* requests of each page that are not answered yet
          view       \* the rows each page shows

vars == <<status, ready, serving, queue, page, used, selected, flight, view>>

Conn        == Page \X (1..MaxConns)
FirstLoad   == "first load"
Selection   == "selection"

(* No event is one of the two other causes of a request. *)
ASSUME CausesApart == {FirstLoad, Selection} \cap Event = {}

Alive(c)    == page[c[1]] = "live" /\ c[2] = used[c[1]]
Matches(p, e) == ProjectOf[e] = Opened[p]

(* What the server answers now to a request for a project's traces. *)
Rows(pr) == {e \in Event : status[e] # "new" /\ ProjectOf[e] = pr}

Request(cause, pr) == [cause |-> cause, project |-> pr, rows |-> Rows(pr)]

TypeOK ==
  /\ status \in [Event -> {"new", "committed", "announced"}]
  /\ ready \in Seq((SUBSET Conn) \X Event)
  /\ serving \in SUBSET Conn
  /\ queue \in [Conn -> Seq(Event)]
  /\ page \in [Page -> {"opening", "loaded", "live", "retrying", "static", "gone"}]
  /\ used \in [Page -> 0..MaxConns]
  /\ selected \in [Page -> Project]
  /\ \A p \in Page : \A r \in flight[p] :
       /\ r.cause \in Event \cup {FirstLoad, Selection}
       /\ r.project \in Project
       /\ r.rows \subseteq Event
  /\ view \in [Page -> SUBSET Event]

Init ==
  /\ status = [e \in Event |-> "new"]
  /\ ready = <<>>
  /\ serving = {}
  /\ queue = [c \in Conn |-> <<>>]
  /\ page = [p \in Page |-> "opening"]
  /\ used = [p \in Page |-> 0]
  /\ selected = Opened
  /\ flight = [p \in Page |-> {}]
  /\ view = [p \in Page |-> {}]

Server  == <<status, ready>>
Handler == <<serving, queue>>
Browser == <<page, used, selected, flight, view>>

------------------------------------------------------------------------------
(* The store and the bus. *)

(* ingest_events commits. *)
Commit(e) ==
  /\ status[e] = "new"
  /\ status' = [status EXCEPT ![e] = "committed"]
  /\ UNCHANGED <<ready, Handler, Browser>>

(* Mutant: the event is announced before it is committed. *)
PublishEarly(e) ==
  /\ status[e] = "new"
  /\ ready' = Append(ready, <<serving, e>>)
  /\ UNCHANGED <<status, Handler, Browser>>

(* bus.publish, after the commit and on any thread: one callback for each  *)
(* queue that is subscribed at this moment.                                *)
Publish(e) ==
  /\ status[e] = "committed"
  /\ status' = [status EXCEPT ![e] = "announced"]
  /\ ready' = Append(ready, <<serving, e>>)
  /\ UNCHANGED <<Handler, Browser>>

(* Mutant: the callback puts its whole argument on the queue. *)
RunCallbacksRaw ==
  /\ ready # <<>>
  /\ queue' = [c \in Conn |-> IF c \in Head(ready)[1] \cap serving
                              THEN Append(queue[c], Head(ready)) ELSE queue[c]]
  /\ ready' = Tail(ready)
  /\ UNCHANGED <<status, serving, Browser>>

(* The event loop runs the callbacks in the order they were scheduled.     *)
(* One whose handler ended meanwhile puts on a queue that nobody reads.    *)
RunCallbacks ==
  /\ ready # <<>>
  /\ queue' = [c \in Conn |-> IF c \in Head(ready)[1] \cap serving
                              THEN Append(queue[c], Head(ready)[2]) ELSE queue[c]]
  /\ ready' = Tail(ready)
  /\ UNCHANGED <<status, serving, Browser>>

------------------------------------------------------------------------------
(* ws_traces, the handler of one connection. *)

(* Mutant: an event is taken off the queue and no message is sent. *)
SendEventSilent(c) ==
  /\ c \in serving /\ Alive(c)
  /\ queue[c] # <<>>
  /\ Matches(c[1], Head(queue[c]))
  /\ queue' = [queue EXCEPT ![c] = Tail(@)]
  /\ UNCHANGED <<Server, serving, Browser>>

(* An event of the feed's project is sent; the page reloads. *)
SendEvent(c) ==
  /\ c \in serving /\ Alive(c)
  /\ queue[c] # <<>>
  /\ Matches(c[1], Head(queue[c]))
  /\ queue' = [queue EXCEPT ![c] = Tail(@)]
  /\ flight' = [flight EXCEPT ![c[1]] =
                  @ \cup {Request(Head(queue[c]), Opened[c[1]])}]
  /\ UNCHANGED <<Server, serving, page, used, selected, view>>

(* An event of another project is not sent. *)
SkipEvent(c) ==
  /\ c \in serving
  /\ queue[c] # <<>>
  /\ ~Matches(c[1], Head(queue[c]))
  /\ queue' = [queue EXCEPT ![c] = Tail(@)]
  /\ UNCHANGED <<Server, serving, Browser>>

(* Mutant: a failed send is swallowed and the handler waits again. *)
SendFailsUnnoticed(c) ==
  /\ c \in serving /\ ~Alive(c)
  /\ queue[c] # <<>>
  /\ Matches(c[1], Head(queue[c]))
  /\ queue' = [queue EXCEPT ![c] = Tail(@)]
  /\ UNCHANGED <<Server, serving, Browser>>

(* A send to a connection that failed raises, be it an event or the ping   *)
(* of a wait that timed out: the handler ends and unsubscribes.  (A ping   *)
(* that arrives changes nothing: the page ignores it.)                     *)
SendFails(c) ==
  /\ c \in serving /\ ~Alive(c)
  /\ queue[c] # <<>> => Matches(c[1], Head(queue[c]))
  /\ serving' = serving \ {c}
  /\ queue' = [queue EXCEPT ![c] = <<>>]
  /\ UNCHANGED <<Server, Browser>>

------------------------------------------------------------------------------
(* The page. *)

(* The first load, which the page awaits before it connects. *)
Open(p) ==
  /\ page[p] = "opening"
  /\ flight[p] = {}
  /\ flight' = [flight EXCEPT ![p] = {Request(FirstLoad, Opened[p])}]
  /\ UNCHANGED <<Server, Handler, page, used, selected, view>>

(* A request answers, in whatever order; the page shows what it got. *)
Show(p) ==
  /\ page[p] # "gone"
  /\ \E r \in flight[p] :
       /\ view' = [view EXCEPT ![p] = r.rows]
       /\ flight' = [flight EXCEPT ![p] = @ \ {r}]
       /\ page' = [page EXCEPT ![p] = IF r.cause = FirstLoad THEN "loaded" ELSE @]
  /\ UNCHANGED <<Server, Handler, used, selected>>

(* A request fails: the rows stay, and if it was the first load the page   *)
(* never connects.                                                         *)
LoadFails(p) ==
  /\ p \in Unreliable /\ page[p] # "gone"
  /\ \E r \in flight[p] :
       /\ flight' = [flight EXCEPT ![p] = @ \ {r}]
       /\ page' = [page EXCEPT ![p] = IF r.cause = FirstLoad THEN "static" ELSE @]
  /\ UNCHANGED <<Server, Handler, used, selected, view>>

(* The user selects another project. *)
Select(p, pr) ==
  /\ page[p] \notin {"gone", "opening"}
  /\ selected[p] # pr
  /\ selected' = [selected EXCEPT ![p] = pr]
  /\ flight' = [flight EXCEPT ![p] = @ \cup {Request(Selection, pr)}]
  /\ UNCHANGED <<Server, Handler, page, used, view>>

(* The WebSocket opens and its handler subscribes; a page that reconnects  *)
(* does not reload.                                                        *)
Connect(p) ==
  /\ page[p] \in {"loaded", "retrying"}
  /\ used[p] < MaxConns
  /\ used' = [used EXCEPT ![p] = @ + 1]
  /\ page' = [page EXCEPT ![p] = "live"]
  /\ serving' = serving \cup {<<p, used[p] + 1>>}
  /\ UNCHANGED <<Server, queue, selected, flight, view>>

(* The connection fails; the page will connect again after 3 s. *)
Drop(p) ==
  /\ page[p] = "live"
  /\ used[p] < MaxConns
  /\ page' = [page EXCEPT ![p] = "retrying"]
  /\ UNCHANGED <<Server, Handler, used, selected, flight, view>>

(* The user leaves. *)
Close(p) ==
  /\ page[p] # "gone"
  /\ page' = [page EXCEPT ![p] = "gone"]
  /\ flight' = [flight EXCEPT ![p] = {}]
  /\ UNCHANGED <<Server, Handler, used, selected, view>>

------------------------------------------------------------------------------

HandlerStep(c) == SendEvent(c) \/ SkipEvent(c) \/ SendFails(c)

PageStep(p) ==
  \/ Open(p) \/ Show(p) \/ LoadFails(p) \/ Connect(p) \/ Drop(p) \/ Close(p)
  \/ \E pr \in Project : Select(p, pr)

Next ==
  \/ \E e \in Event : Commit(e) \/ Publish(e)
  \/ RunCallbacks
  \/ \E c \in Conn : HandlerStep(c)
  \/ \E p \in Page : PageStep(p)

Spec == Init /\ [][Next]_vars

(* A committing call goes on to publish, the event loop runs callbacks and *)
(* handlers (a wait times out in the end), requests are answered and pages *)
(* connect.  Nothing makes events arrive, requests or connections fail, or *)
(* a user act.                                                             *)
Fairness ==
  /\ \A e \in Event : WF_vars(Publish(e))
  /\ WF_vars(RunCallbacks)
  /\ \A c \in Conn : WF_vars(HandlerStep(c))
  /\ \A p \in Page : WF_vars(Open(p)) /\ WF_vars(Show(p)) /\ WF_vars(Connect(p))

FairSpec == Spec /\ Fairness

------------------------------------------------------------------------------

InQueue(c) == {queue[c][i] : i \in DOMAIN queue[c]}

(* A page that is told of an event finds it when it reloads: the answer to *)
(* a reload that a message caused has the event's row.  It takes the       *)
(* store's commit before its publish, the subscriber's queue between them  *)
(* and the reload of the feed's own project (db.py:147-157, bus.py:32,     *)
(* traces.html:45).                                                        *)
ReloadFindsEvent ==
  \A p \in Page : \A r \in flight[p] : r.cause \in Event => r.cause \in r.rows

(* A handler whose connection failed is unsubscribed in the end, so the    *)
(* bus does not collect dead queues: the next ping or event finds out      *)
(* (app.py:98-110).                                                        *)
DeadHandlerLeaves == \A c \in Conn : (c \in serving /\ ~Alive(c)) ~> (c \notin serving)

(* An event that reached the queue of a live connection causes a reload,   *)
(* unless the connection fails first: events of other projects before it,  *)
(* pings and other connections do not hold it up.                          *)
QueuedCausesReload ==
  \A c \in Conn, e \in Event :
    (Alive(c) /\ e \in InQueue(c) /\ Matches(c[1], e))
      ~> (~Alive(c) \/ \E r \in flight[c[1]] : r.cause = e)

(* README.md:388: the Query Explorer "auto-refreshes when new events       *)
(* arrive": a page that stays open shows, in the end, each announced event *)
(* of the project it was opened with, unless its user looks at another.    *)
AnnouncedIsShown ==
  \A p \in Page, e \in Event :
    (status[e] = "announced" /\ Matches(p, e))
      ~> (e \in view[p] \/ page[p] \in {"gone", "static"} \/ selected[p] # Opened[p])
==============================================================================
