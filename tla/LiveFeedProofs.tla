---------------------------- MODULE LiveFeedProofs ----------------------------
(***************************************************************************)
(* The live feed for any number of events, pages, projects and             *)
(* connections: a page that is told of an event finds it when it reloads,  *)
(* and no connection is told of an event twice.                            *)
(***************************************************************************)
EXTENDS LiveFeed, TLAPS

Req == [cause : Event \cup {FirstLoad, Selection}, project : Project, rows : SUBSET Event]

(* An event that a callback or a queue holds was committed before. *)
Held ==
  /\ \A i \in 1..Len(ready) : status[ready[i][2]] = "announced"
  /\ \A c \in Conn : \A k \in 1..Len(queue[c]) : status[queue[c][k]] = "announced"

(* No event is on its way to a connection twice: bus.publish schedules one *)
(* callback for each committed event, which moves to a queue once          *)
(* (bus.py:26-34, db.py:152-157).                                          *)
ToldOnce ==
  /\ \A i, j \in 1..Len(ready) : i # j => ready[i][2] # ready[j][2]
  /\ \A c \in Conn : \A k \in 1..Len(queue[c]) :
       /\ \A l \in 1..Len(queue[c]) : k # l => queue[c][k] # queue[c][l]
       /\ \A i \in 1..Len(ready) : queue[c][k] # ready[i][2]

(* A page is only ever answered with committed events (db.py:298-313). *)
RowsCommitted ==
  \A p \in Page :
    /\ \A e \in view[p] : status[e] # "new"
    /\ \A r \in flight[p] : \A e \in r.rows : status[e] # "new"

FeedInv ==
  /\ TypeOK
  /\ flight \in [Page -> SUBSET Req]
  /\ Held
  /\ ToldOnce
  /\ RowsCommitted
  /\ ReloadFindsEvent

(* Before anything happens (app.py:84-96). *)
LEMMA FeedInit == Init => FeedInv
<1> SUFFICES ASSUME Init PROVE FeedInv
  OBVIOUS
<1> USE FeedData DEF Init
<1>1. TypeOK /\ flight \in [Page -> SUBSET Req]
  BY DEF TypeOK, Conn
<1>2. Held /\ ToldOnce
  BY DEF Held, ToldOnce
<1> QED
  BY <1>1, <1>2 DEF FeedInv, RowsCommitted, ReloadFindsEvent

(* What the server answers is typed and committed, and has the row of any  *)
(* committed event of the project asked for (db.py:298-313).               *)
LEMMA RequestOK ==
  ASSUME FeedInv, NEW cause \in Event \cup {FirstLoad, Selection}, NEW pr \in Project
  PROVE  LET r == Request(cause, pr) IN
         /\ r \in Req
         /\ \A e \in r.rows : status[e] # "new"
         /\ (cause \in Event /\ status[cause] # "new" /\ ProjectOf[cause] = pr)
              => cause \in r.rows
  BY DEF Request, Rows, Req

(* A step that only moves events from the bus and the queues away, or not  *)
(* at all, and leaves the pages alone.                                     *)
LEMMA ServerKept ==
  ASSUME FeedInv, UNCHANGED Server, UNCHANGED queue
  PROVE  Held' /\ ToldOnce'
  BY DEF FeedInv, Held, ToldOnce, Server

(* An event leaves a queue at its head (app.py:99-104), or the queue is    *)
(* dropped with its handler (bus.py:22-24).                                *)
LEMMA Dequeued ==
  ASSUME FeedInv, NEW c \in Conn, UNCHANGED Server,
         \/ queue[c] # <<>> /\ queue' = [queue EXCEPT ![c] = Tail(@)]
         \/ queue' = [queue EXCEPT ![c] = <<>>]
  PROVE  Held' /\ ToldOnce' /\ queue' \in [Conn -> Seq(Event)]
<1> USE DEF FeedInv, TypeOK
<1>1. queue' \in [Conn -> Seq(Event)]
  <2>1. queue[c] # <<>> => Tail(queue[c]) \in Seq(Event)
    OBVIOUS
  <2>2. CASE queue[c] # <<>> /\ queue' = [queue EXCEPT ![c] = Tail(@)]
    BY <2>1, <2>2
  <2>3. CASE queue' = [queue EXCEPT ![c] = <<>>]
    BY <2>3
  <2> QED
    BY <2>2, <2>3
<1>2. \A d \in Conn : \E o \in {0, 1} :
        /\ Len(queue'[d]) + o <= Len(queue[d])
        /\ \A k \in 1..Len(queue'[d]) : queue'[d][k] = queue[d][k + o]
  <2> SUFFICES ASSUME NEW d \in Conn
               PROVE \E o \in {0, 1} :
                       /\ Len(queue'[d]) + o <= Len(queue[d])
                       /\ \A k \in 1..Len(queue'[d]) : queue'[d][k] = queue[d][k + o]
    OBVIOUS
  <2>1. CASE queue[c] # <<>> /\ queue' = [queue EXCEPT ![c] = Tail(@)] /\ d = c
    <3>1. queue[c] \in Seq(Event) /\ queue'[c] = Tail(queue[c])
      BY <2>1
    <3>2. Len(queue'[c]) + 1 = Len(queue[c])
      BY <3>1, <2>1
    <3>3. \A k \in 1..Len(queue'[c]) : queue'[c][k] = queue[c][k + 1]
      BY <3>1, <3>2, <2>1
    <3> QED
      BY <3>2, <3>3, <2>1
  <2>2. CASE queue' = [queue EXCEPT ![c] = <<>>] /\ d = c
    BY <2>2
  <2>3. CASE d # c
    <3>1. queue'[d] = queue[d] /\ queue[d] \in Seq(Event)
      BY <2>3
    <3>2. \A k \in 1..Len(queue[d]) : queue[d][k] = queue[d][k + 0]
      OBVIOUS
    <3> QED
      BY <3>1, <3>2
  <2> QED
    BY <2>1, <2>2, <2>3
<1>3. Held'
  <2>1. ASSUME NEW d \in Conn, NEW k \in 1..Len(queue'[d]) PROVE status[queue'[d][k]] = "announced"
    <3>1. PICK o \in {0, 1} : /\ Len(queue'[d]) + o <= Len(queue[d])
                              /\ \A m \in 1..Len(queue'[d]) : queue'[d][m] = queue[d][m + o]
      BY <1>2
    <3>2. queue'[d][k] = queue[d][k + o] /\ k + o \in 1..Len(queue[d])
      BY <3>1, <1>1
    <3> QED
      BY <3>2 DEF Held
  <2> QED
    BY <2>1 DEF Held, Server
<1>4. ToldOnce'
  <2>1. ASSUME NEW d \in Conn, NEW k \in 1..Len(queue'[d])
        PROVE  /\ \A l \in 1..Len(queue'[d]) : k # l => queue'[d][k] # queue'[d][l]
               /\ \A i \in 1..Len(ready) : queue'[d][k] # ready[i][2]
    <3>1. PICK o \in {0, 1} : /\ Len(queue'[d]) + o <= Len(queue[d])
                              /\ \A m \in 1..Len(queue'[d]) : queue'[d][m] = queue[d][m + o]
      BY <1>2
    <3>2. \A m \in 1..Len(queue'[d]) :
            queue'[d][m] = queue[d][m + o] /\ m + o \in 1..Len(queue[d])
      BY <3>1, <1>1
    <3>3. ASSUME NEW l \in 1..Len(queue'[d]), k # l PROVE queue'[d][k] # queue'[d][l]
      <4>1. k + o # l + o
        BY <3>1, <3>3, <1>1
      <4> QED
        BY <3>2, <4>1 DEF ToldOnce
    <3>4. ASSUME NEW i \in 1..Len(ready) PROVE queue'[d][k] # ready[i][2]
      BY <3>2 DEF ToldOnce
    <3> QED
      BY <3>3, <3>4
  <2> QED
    BY <2>1 DEF ToldOnce, Server
<1> QED
  BY <1>1, <1>3, <1>4

(* The pages' part of the invariant, when a page gains at most one request *)
(* and shows at most an answer it waited for.                              *)
LEMMA PagesOK ==
  ASSUME FeedInv, NEW p \in Page, status' = status,
         flight' \in [Page -> SUBSET Req], view' \in [Page -> SUBSET Event],
         \A q \in Page \ {p} : flight'[q] = flight[q] /\ view'[q] = view[q],
         \A e \in view'[p] : status[e] # "new",
         \A r \in flight'[p] : /\ \A e \in r.rows : status[e] # "new"
                               /\ r.cause \in Event => r.cause \in r.rows
  PROVE  RowsCommitted' /\ ReloadFindsEvent'
  BY DEF FeedInv, RowsCommitted, ReloadFindsEvent

------------------------------------------------------------------------------
(* The steps. *)

(* ingest_events commits an event (db.py:123-151). *)
LEMMA CommitOK == ASSUME FeedInv, NEW e \in Event, Commit(e) PROVE FeedInv'
<1> USE DEF FeedInv, TypeOK, Commit, Handler, Browser
<1>1. TypeOK'
  OBVIOUS
<1>2. \A x \in Event : status[x] # "new" => status'[x] = status[x]
  OBVIOUS
<1>3. Held' /\ ToldOnce'
  <2>1. ready' = ready /\ queue' = queue
    OBVIOUS
  <2>2. \A i \in 1..Len(ready) : ready[i][2] \in Event
    OBVIOUS
  <2>3. \A c \in Conn : \A k \in 1..Len(queue[c]) : queue[c][k] \in Event
    OBVIOUS
  <2>4. Held /\ ToldOnce
    OBVIOUS
  <2> HIDE DEF FeedInv, TypeOK, Commit, Handler, Browser
  <2>5. Held'
    BY <1>2, <2>1, <2>2, <2>3, <2>4 DEF Held
  <2>6. ToldOnce'
    BY <2>1, <2>4 DEF ToldOnce
  <2> QED
    BY <2>5, <2>6
<1>4. RowsCommitted'
  BY <1>2 DEF RowsCommitted, Req
<1> QED
  BY <1>1, <1>3, <1>4 DEF ReloadFindsEvent

(* bus.publish after the commit: the event becomes announced and its       *)
(* callback is the only thing that holds it (bus.py:26-34).                *)
LEMMA PublishOK == ASSUME FeedInv, NEW e \in Event, Publish(e) PROVE FeedInv'
<1> USE DEF FeedInv, TypeOK, Publish, Handler, Browser
<1> DEFINE n == Len(ready)
<1>1. TypeOK'
  <2>1. <<serving, e>> \in (SUBSET Conn) \X Event
    OBVIOUS
  <2>2. ready' \in Seq((SUBSET Conn) \X Event)
    BY <2>1
  <2> QED
    BY <2>2
<1>2. /\ \A x \in Event : x # e => status'[x] = status[x]
      /\ status[e] = "committed" /\ status'[e] = "announced"
  OBVIOUS
<1>3. /\ n \in Nat /\ Len(ready') = n + 1
      /\ ready'[n + 1][2] = e
      /\ \A i \in 1..n : ready'[i][2] = ready[i][2] /\ ready[i][2] \in Event \ {e}
  <2>1. ready \in Seq((SUBSET Conn) \X Event) /\ Len(ready') = n + 1
    OBVIOUS
  <2>2. ready'[n + 1] = <<serving, e>> /\ \A i \in 1..n : ready'[i] = ready[i]
    BY <2>1
  <2>3. \A i \in 1..n : ready[i][2] \in Event
    OBVIOUS
  <2> QED
    BY <2>1, <2>2, <2>3, <1>2 DEF Held
<1>4. \A c \in Conn : \A k \in 1..Len(queue[c]) : queue[c][k] \in Event \ {e}
  BY <1>2 DEF Held
<1>5. Held'
  <2>1. \A i \in 1..Len(ready') : status'[ready'[i][2]] = "announced"
    BY <1>2, <1>3 DEF Held
  <2>2. \A c \in Conn : \A k \in 1..Len(queue'[c]) : status'[queue'[c][k]] = "announced"
    BY <1>2, <1>4 DEF Held
  <2> QED
    BY <2>1, <2>2 DEF Held
<1>6. ToldOnce'
  <2>1. ASSUME NEW i \in 1..Len(ready'), NEW j \in 1..Len(ready'), i # j
        PROVE  ready'[i][2] # ready'[j][2]
    BY <1>3, <2>1 DEF ToldOnce
  <2>2. ASSUME NEW c \in Conn, NEW k \in 1..Len(queue'[c])
        PROVE  /\ \A l \in 1..Len(queue'[c]) : k # l => queue'[c][k] # queue'[c][l]
               /\ \A i \in 1..Len(ready') : queue'[c][k] # ready'[i][2]
    BY <1>3, <1>4 DEF ToldOnce
  <2> QED
    BY <2>1, <2>2 DEF ToldOnce
<1>7. RowsCommitted'
  BY <1>2 DEF RowsCommitted, Req
<1> QED
  BY <1>1, <1>5, <1>6, <1>7 DEF ReloadFindsEvent

(* The event loop moves the event of the first callback to the queues that *)
(* were subscribed (bus.py:32).                                            *)
LEMMA RunCallbacksOK == ASSUME FeedInv, RunCallbacks PROVE FeedInv'
<1> USE DEF FeedInv, TypeOK, RunCallbacks, Browser
<1> DEFINE n == Len(ready)
           e == ready[1][2]
           on(c) == c \in Head(ready)[1] \cap serving
<1>1. /\ n \in Nat \ {0} /\ e \in Event /\ Head(ready)[2] = e
      /\ e = ready[1][2]
  <2>1. ready \in Seq((SUBSET Conn) \X Event) /\ ready # <<>>
    OBVIOUS
  <2>2. Head(ready) = ready[1] /\ ready[1] \in (SUBSET Conn) \X Event /\ n \in Nat \ {0}
    BY <2>1
  <2> QED
    BY <2>2
<1>2. /\ ready' \in Seq((SUBSET Conn) \X Event) /\ Len(ready') = n - 1
      /\ \A i \in 1..(n - 1) : ready'[i][2] = ready[i + 1][2]
  <2>1. ready \in Seq((SUBSET Conn) \X Event) /\ ready # <<>> /\ ready' = Tail(ready)
    OBVIOUS
  <2>2. ready' \in Seq((SUBSET Conn) \X Event) /\ Len(ready') = n - 1
    BY <2>1
  <2>3. \A i \in 1..(n - 1) : ready'[i] = ready[i + 1]
    BY <2>1
  <2> QED
    BY <2>2, <2>3
<1>3. \A c \in Conn : queue'[c] = IF on(c) THEN Append(queue[c], e) ELSE queue[c]
  BY <1>1
<1>4. queue' \in [Conn -> Seq(Event)]
  <2>1. \A c \in Conn : (IF on(c) THEN Append(queue[c], e) ELSE queue[c]) \in Seq(Event)
    BY <1>1
  <2>2. queue' = [c \in Conn |-> IF on(c) THEN Append(queue[c], e) ELSE queue[c]]
    BY <1>1
  <2> QED
    BY <2>1, <2>2
<1>5. ASSUME NEW c \in Conn, NEW k \in 1..Len(queue'[c])
      PROVE  \/ k \in 1..Len(queue[c]) /\ queue'[c][k] = queue[c][k]
             \/ k = Len(queue[c]) + 1 /\ k = Len(queue'[c]) /\ queue'[c][k] = e
  <2>1. queue[c] \in Seq(Event)
    OBVIOUS
  <2>2. CASE on(c)
    <3>1. queue'[c] = Append(queue[c], e)
      BY <1>3, <2>2
    <3>2. Len(queue'[c]) = Len(queue[c]) + 1 /\ queue'[c][Len(queue[c]) + 1] = e
      BY <3>1, <2>1
    <3>3. \A l \in 1..Len(queue[c]) : queue'[c][l] = queue[c][l]
      BY <3>1, <2>1
    <3> QED
      BY <3>2, <3>3, <2>1
  <2>3. CASE ~on(c)
    BY <1>3, <2>3
  <2> QED
    BY <2>2, <2>3
<1>6. /\ \A i \in 1..(n - 1) : ready[i + 1][2] # e
      /\ \A c \in Conn : \A k \in 1..Len(queue[c]) : queue[c][k] # e
  BY <1>1 DEF ToldOnce
<1>7. Held'
  <2>1. \A i \in 1..Len(ready') : status'[ready'[i][2]] = "announced"
    BY <1>1, <1>2 DEF Held
  <2>2. \A c \in Conn : \A k \in 1..Len(queue'[c]) : status'[queue'[c][k]] = "announced"
    BY <1>1, <1>5 DEF Held
  <2> QED
    BY <2>1, <2>2 DEF Held
<1>8. ToldOnce'
  <2>1. ASSUME NEW i \in 1..Len(ready'), NEW j \in 1..Len(ready'), i # j
        PROVE  ready'[i][2] # ready'[j][2]
    <3>1. i \in 1..(n - 1) /\ j \in 1..(n - 1)
      BY <1>2
    <3>2. i + 1 \in 1..n /\ j + 1 \in 1..n /\ i + 1 # j + 1
      BY <3>1, <1>1, <2>1
    <3> QED
      BY <3>1, <3>2, <1>2 DEF ToldOnce
  <2>2. ASSUME NEW c \in Conn, NEW k \in 1..Len(queue'[c]), NEW l \in 1..Len(queue'[c]), k # l
        PROVE  queue'[c][k] # queue'[c][l]
    <3>1. /\ \A m \in 1..Len(queue[c]) : \A o \in 1..Len(queue[c]) :
               m # o => queue[c][m] # queue[c][o]
          /\ \A m \in 1..Len(queue[c]) : queue[c][m] # e
      BY <1>6 DEF ToldOnce
    <3>2. \/ k \in 1..Len(queue[c]) /\ queue'[c][k] = queue[c][k]
          \/ k = Len(queue[c]) + 1 /\ queue'[c][k] = e
      BY <1>5
    <3>3. \/ l \in 1..Len(queue[c]) /\ queue'[c][l] = queue[c][l]
          \/ l = Len(queue[c]) + 1 /\ queue'[c][l] = e
      BY <1>5
    <3> HIDE DEF e, n, on
    <3> QED
      BY <2>2, <3>1, <3>2, <3>3
  <2>3. ASSUME NEW c \in Conn, NEW k \in 1..Len(queue'[c]), NEW i \in 1..Len(ready')
        PROVE  queue'[c][k] # ready'[i][2]
    <3>1. i \in 1..(n - 1) /\ i + 1 \in 1..n /\ ready'[i][2] = ready[i + 1][2]
      BY <1>1, <1>2
    <3> QED
      BY <3>1, <1>5, <1>6 DEF ToldOnce
  <2>4. \A i, j \in 1..Len(ready') : i # j => ready'[i][2] # ready'[j][2]
    BY <2>1
  <2>5. \A c \in Conn : \A k \in 1..Len(queue'[c]) :
          /\ \A l \in 1..Len(queue'[c]) : k # l => queue'[c][k] # queue'[c][l]
          /\ \A i \in 1..Len(ready') : queue'[c][k] # ready'[i][2]
    <3> HIDE DEF n, e, on, FeedInv, TypeOK, RunCallbacks
    <3> QED
      BY <2>2, <2>3
  <2> QED
    BY <2>4, <2>5, Zenon DEF ToldOnce
<1>9. TypeOK' /\ RowsCommitted' /\ ReloadFindsEvent'
  BY <1>2, <1>4 DEF RowsCommitted, ReloadFindsEvent
<1> QED
  BY <1>7, <1>8, <1>9

(* One step of a connection's handler: an event is sent, skipped, or finds *)
(* the connection gone (app.py:98-110).                                    *)
LEMMA HandlerOK == ASSUME FeedInv, NEW c \in Conn, HandlerStep(c) PROVE FeedInv'
<1>1. CASE SendEvent(c)
  <2> USE <1>1, FeedData DEF SendEvent
  <2> DEFINE p == c[1]
             e == Head(queue[c])
             r == Request(e, Opened[p])
  <2>t. /\ p \in Page /\ Opened[p] \in Project
        /\ queue[c] \in Seq(Event) /\ queue[c] # <<>>
        /\ flight \in [Page -> SUBSET Req] /\ view \in [Page -> SUBSET Event]
    BY DEF FeedInv, TypeOK, Conn
  <2>1. e = queue[c][1] /\ e \in Event /\ 1 \in 1..Len(queue[c])
    BY <2>t
  <2>2. status[e] # "new" /\ ProjectOf[e] = Opened[p]
    BY <2>1 DEF FeedInv, Held, Matches
  <2>3. r \in Req /\ (\A x \in r.rows : status[x] # "new") /\ e \in r.rows
    BY <2>t, <2>1, <2>2, RequestOK
  <2>4. r.cause = e
    BY DEF Request
  <2>5. Held' /\ ToldOnce' /\ queue' \in [Conn -> Seq(Event)]
    BY Dequeued
  <2> HIDE DEF p, r, e
  <2>6. /\ flight' = [flight EXCEPT ![p] = flight[p] \cup {r}] /\ view' = view
        /\ status' = status
    BY <2>t DEF Server, p, r, e
  <2>7. flight' \in [Page -> SUBSET Req] /\ view' \in [Page -> SUBSET Event]
    <3>1. flight[p] \cup {r} \in SUBSET Req
      BY <2>t, <2>3
    <3> HIDE <1>1 DEF SendEvent
    <3>2. flight' \in [Page -> SUBSET Req]
      BY <2>t, <2>6, <3>1
    <3> QED
      BY <2>t, <2>6, <3>2
  <2>8. RowsCommitted' /\ ReloadFindsEvent'
    <3>1. /\ \A x \in view'[p] : status[x] # "new"
          /\ \A q \in flight'[p] : /\ \A x \in q.rows : status[x] # "new"
                                   /\ q.cause \in Event => q.cause \in q.rows
      BY <2>t, <2>3, <2>4, <2>6 DEF FeedInv, RowsCommitted, ReloadFindsEvent
    <3>2. \A q \in Page \ {p} : flight'[q] = flight[q] /\ view'[q] = view[q]
      BY <2>t, <2>6
    <3> QED
      BY <2>t, <2>6, <2>7, <3>1, <3>2, PagesOK
  <2>9. TypeOK'
    BY <2>5, <2>7 DEF FeedInv, TypeOK, Server, Req
  <2> QED
    BY <2>5, <2>7, <2>8, <2>9 DEF FeedInv
<1>2. CASE SkipEvent(c)
  <2>1. Held' /\ ToldOnce' /\ queue' \in [Conn -> Seq(Event)]
    BY <1>2, Dequeued DEF SkipEvent
  <2> QED
    BY <1>2, <2>1 DEF SkipEvent, FeedInv, TypeOK, Server, Browser, RowsCommitted, ReloadFindsEvent
<1>3. CASE SendFails(c)
  <2>1. Held' /\ ToldOnce' /\ queue' \in [Conn -> Seq(Event)]
    BY <1>3, Dequeued DEF SendFails
  <2> QED
    BY <1>3, <2>1 DEF SendFails, FeedInv, TypeOK, Server, Browser, RowsCommitted, ReloadFindsEvent
<1> QED
  BY <1>1, <1>2, <1>3 DEF HandlerStep

(* One step of a page: it loads, shows an answer, loses one, selects       *)
(* another project, connects, loses its connection or is left              *)
(* (app.js:24-53, traces.html:38-86).                                      *)
LEMMA PageOK == ASSUME FeedInv, NEW p \in Page, PageStep(p) PROVE FeedInv'
<1> USE FeedData
<1>t. /\ flight \in [Page -> SUBSET Req] /\ view \in [Page -> SUBSET Event]
      /\ page \in [Page -> {"opening", "loaded", "live", "retrying", "static", "gone"}]
      /\ used \in [Page -> 0..MaxConns] /\ selected \in [Page -> Project]
      /\ serving \in SUBSET Conn /\ Opened[p] \in Project
  BY DEF FeedInv, TypeOK
<1>u. /\ \A e \in view[p] : status[e] # "new"
      /\ \A r \in flight[p] : /\ \A e \in r.rows : status[e] # "new"
                              /\ r.cause \in Event => r.cause \in r.rows
  BY DEF FeedInv, RowsCommitted, ReloadFindsEvent
<1>1. ASSUME UNCHANGED <<status, ready, queue>>, serving' \in SUBSET Conn,
             page' \in [Page -> {"opening", "loaded", "live", "retrying", "static", "gone"}],
             used' \in [Page -> 0..MaxConns], selected' \in [Page -> Project],
             flight' \in [Page -> SUBSET Req], view' \in [Page -> SUBSET Event],
             \A q \in Page \ {p} : flight'[q] = flight[q] /\ view'[q] = view[q],
             \A e \in view'[p] : status[e] # "new",
             \A r \in flight'[p] : /\ \A e \in r.rows : status[e] # "new"
                                   /\ r.cause \in Event => r.cause \in r.rows
      PROVE  FeedInv'
  <2>1. Held' /\ ToldOnce'
    BY <1>1, ServerKept DEF Server
  <2>2. RowsCommitted' /\ ReloadFindsEvent'
    BY <1>1, PagesOK
  <2>3. TypeOK'
    BY <1>1 DEF FeedInv, TypeOK, Req
  <2> QED
    BY <1>1, <2>1, <2>2, <2>3 DEF FeedInv
<1>2. CASE Open(p)
  <2> DEFINE r == Request(FirstLoad, Opened[p])
  <2>1. r \in Req /\ (\A e \in r.rows : status[e] # "new") /\ r.cause \notin Event
    <3>1. r.cause = FirstLoad
      BY DEF Request
    <3> QED
      BY <1>t, <3>1, RequestOK, CausesApart
  <2> HIDE DEF r
  <2>2. /\ flight' = [flight EXCEPT ![p] = {r}] /\ view' = [view EXCEPT ![p] = view[p]]
        /\ UNCHANGED <<status, ready, queue, serving, page, used, selected>>
    BY <1>2, <1>t DEF Open, Server, Handler, r
  <2> QED
    BY <1>1, <1>t, <1>u, <2>1, <2>2
<1>3. CASE Show(p)
  <2>1. PICK r \in flight[p] :
          /\ view' = [view EXCEPT ![p] = r.rows]
          /\ flight' = [flight EXCEPT ![p] = @ \ {r}]
          /\ page' = [page EXCEPT ![p] = IF r.cause = FirstLoad THEN "loaded" ELSE @]
    BY <1>3 DEF Show
  <2>2. r.rows \in SUBSET Event
    BY <1>t DEF Req
  <2>3. flight[p] \ {r} \in SUBSET Req /\ flight' = [flight EXCEPT ![p] = flight[p] \ {r}]
    BY <1>t, <2>1
  <2>4. UNCHANGED <<status, ready, queue, serving, used, selected>>
    BY <1>3 DEF Show, Server, Handler
  <2>5. page' \in [Page -> {"opening", "loaded", "live", "retrying", "static", "gone"}]
    BY <1>t, <2>1
  <2> QED
    BY <1>1, <1>t, <1>u, <2>1, <2>2, <2>3, <2>4, <2>5
<1>4. CASE LoadFails(p)
  <2>1. PICK r \in flight[p] :
          /\ flight' = [flight EXCEPT ![p] = @ \ {r}]
          /\ page' = [page EXCEPT ![p] = IF r.cause = FirstLoad THEN "static" ELSE @]
    BY <1>4 DEF LoadFails
  <2>2. flight[p] \ {r} \in SUBSET Req /\ flight' = [flight EXCEPT ![p] = flight[p] \ {r}]
    BY <1>t, <2>1
  <2>3. /\ UNCHANGED <<status, ready, queue, serving, used, selected>>
        /\ view' = [view EXCEPT ![p] = view[p]]
    BY <1>4, <1>t DEF LoadFails, Server, Handler
  <2>4. page' \in [Page -> {"opening", "loaded", "live", "retrying", "static", "gone"}]
    BY <1>t, <2>1
  <2> QED
    BY <1>1, <1>t, <1>u, <2>1, <2>2, <2>3, <2>4
<1>5. ASSUME NEW pr \in Project, Select(p, pr) PROVE FeedInv'
  <2> DEFINE r == Request(Selection, pr)
  <2>1. r \in Req /\ (\A e \in r.rows : status[e] # "new") /\ r.cause \notin Event
    <3>1. r.cause = Selection
      BY DEF Request
    <3> QED
      BY <3>1, RequestOK, CausesApart
  <2> HIDE DEF r
  <2>2. /\ flight' = [flight EXCEPT ![p] = flight[p] \cup {r}]
        /\ view' = [view EXCEPT ![p] = view[p]]
        /\ UNCHANGED <<status, ready, queue, serving, page, used>>
        /\ selected' \in [Page -> Project]
    BY <1>5, <1>t DEF Select, Server, Handler, r
  <2> QED
    BY <1>1, <1>t, <1>u, <2>1, <2>2
<1>6. CASE Connect(p)
  <2>1. <<p, used[p] + 1>> \in Conn
    BY <1>6, <1>t DEF Connect, Conn
  <2>2. /\ used' \in [Page -> 0..MaxConns] /\ serving' \in SUBSET Conn
        /\ page' \in [Page -> {"opening", "loaded", "live", "retrying", "static", "gone"}]
    BY <1>6, <1>t, <2>1 DEF Connect
  <2>3. /\ UNCHANGED <<status, ready, queue, selected>>
        /\ flight' = [flight EXCEPT ![p] = flight[p]] /\ view' = [view EXCEPT ![p] = view[p]]
    BY <1>6, <1>t DEF Connect, Server
  <2> QED
    BY <1>1, <1>t, <1>u, <2>2, <2>3
<1>7. CASE Drop(p) \/ Close(p)
  <2>1. /\ page' \in [Page -> {"opening", "loaded", "live", "retrying", "static", "gone"}]
        /\ UNCHANGED <<status, ready, queue, serving, used, selected>>
        /\ view' = [view EXCEPT ![p] = view[p]]
        /\ \/ flight' = [flight EXCEPT ![p] = flight[p]]
           \/ flight' = [flight EXCEPT ![p] = {}]
    BY <1>7, <1>t DEF Drop, Close, Server, Handler
  <2> QED
    BY <1>1, <1>t, <1>u, <2>1
<1> QED
  BY <1>2, <1>3, <1>4, <1>5, <1>6, <1>7 DEF PageStep

------------------------------------------------------------------------------

(* The invariant holds whatever the server, the connections, the pages and *)
(* their users do (bus.py, app.py:84-110, app.js:24-53).                   *)
THEOREM FeedInductive == Spec => []FeedInv
<1>1. ASSUME FeedInv, [Next]_vars PROVE FeedInv'
  <2>1. CASE UNCHANGED vars
    BY <1>1, <2>1 DEF vars, FeedInv, TypeOK, Held, ToldOnce, RowsCommitted,
                      ReloadFindsEvent
  <2>2. CASE Next
    BY <1>1, <2>2, CommitOK, PublishOK, RunCallbacksOK, HandlerOK, PageOK DEF Next
  <2> QED
    BY <1>1, <2>1, <2>2
<1> QED
  BY FeedInit, <1>1, PTL DEF Spec

(* The values the program keeps are the ones it can keep. *)
THEOREM FeedTypes == Spec => []TypeOK
<1> QED
  BY FeedInductive, PTL DEF FeedInv

(* A page that is told of an event finds it when it reloads: the commit    *)
(* comes before the publish, and the reload is of the feed's own project   *)
(* (db.py:147-157, bus.py:32, traces.html:45).                             *)
THEOREM ReloadsFind == Spec => []ReloadFindsEvent
<1> QED
  BY FeedInductive, PTL DEF FeedInv

(* No event is on its way to a connection twice (bus.py:26-34). *)
THEOREM EventsToldOnce == Spec => []ToldOnce
<1> QED
  BY FeedInductive, PTL DEF FeedInv

(* An event that was committed stays so, and one that was announced is     *)
(* never announced again: the commit and the publish each happen once      *)
(* (db.py:146-157).                                                        *)
THEOREM AnnouncedForGood ==
  Spec => [][\A e \in Event : /\ status[e] # "new" => status'[e] # "new"
                              /\ status[e] = "announced" => status'[e] = "announced"]_vars
<1> DEFINE Kept == \A e \in Event : /\ status[e] # "new" => status'[e] # "new"
                                    /\ status[e] = "announced" => status'[e] = "announced"
<1>1. ASSUME TypeOK, [Next]_vars PROVE [Kept]_vars
  <2>1. CASE \E e \in Event : Commit(e) \/ Publish(e)
    BY <1>1, <2>1 DEF Commit, Publish, TypeOK
  <2>2. CASE \/ RunCallbacks
             \/ \E c \in Conn : HandlerStep(c)
             \/ \E p \in Page : PageStep(p)
             \/ UNCHANGED vars
    <3>1. status' = status
      BY <2>2 DEF RunCallbacks, HandlerStep, SendEvent, SkipEvent, SendFails, PageStep, Open,
                  Show, LoadFails, Connect, Drop, Close, Select, Server, vars
    <3> QED
      BY <3>1
  <2> QED
    BY <1>1, <2>1, <2>2 DEF Next
<1> QED
  BY FeedTypes, <1>1, PTL DEF Spec
==============================================================================
