----------------------------- MODULE EventStream -----------------------------
(***************************************************************************)
(* How a visitor learns of the admission: the page (wait/dist/app.js), the *)
(* events handler that holds its stream (api.go) and the hub of one        *)
(* replica, which fans the events of Redis out to the streams (hub.go).    *)
(*                                                                         *)
(* Admissions come from the admitter (module WaitingRoom): a ticket is     *)
(* marked first and the event published afterwards.  Timers have no        *)
(* duration here; a poll or a status may come at any time.                 *)
(***************************************************************************)
EXTENDS Integers, Sequences

CONSTANTS
    Visitor,   \* visitors with a page open, one ticket each
    Slot,      \* roomHub objects, reused once both their goroutines ended
    Cap,       \* capacity of a subscriber's channel, 8 in the code
    Budget     \* bound: broken streams, config events, lost publications

VARIABLES
    state,        \* state of the room's configuration: "queue" or "closed"
    admitted,     \* tickets whose status is admitted
    unpublished,  \* marked by a tick that has not published its event yet
    registered,   \* Hub.rooms[id], None when absent
    pump,         \* life of each roomHub
    inbox,        \* events Redis delivered to its pump and not dispatched yet
    subs,         \* roomHub.subs
    snap,         \* the statusLoop's copy of subs, and the status it read
    conn,         \* the events handler of each visitor's stream
    ch,           \* channel of each subscriber
    page,         \* the page of each visitor
    owed,         \* history: admissions published while the stream was set up
    dropped,      \* history: admissions send dropped
    budget

hubVars == <<registered, pump, inbox, subs, snap>>
roomVars == <<state, admitted, unpublished>>
historyVars == <<owed, dropped>>
vars == <<roomVars, hubVars, conn, ch, page, historyVars, budget>>

None == "none"
Kinds == {"break", "conf", "lost"}
Msg == {"admitted", "refresh", "status", "closed"}

ASSUME StreamAssumption ==
    /\ None \notin Slot
    /\ Cap \in Nat \ {0}
    /\ Budget \in [Kinds -> Nat]

NewPage == [view |-> "load", ticket |-> FALSE, es |-> FALSE, poll |-> FALSE, reopen |-> FALSE]
NoConn == [pc |-> "none", slot |-> None]
NoSnap == [who |-> {}, msg |-> "status"]

Spend(kind) == budget[kind] > 0 /\ budget' = [budget EXCEPT ![kind] = @ - 1]

Init ==
    /\ state \in {"queue", "closed"}
    /\ admitted = {} /\ unpublished = {}
    /\ registered = None
    /\ pump = [h \in Slot |-> "none"]
    /\ inbox = [h \in Slot |-> <<>>]
    /\ subs = [h \in Slot |-> {}]
    /\ snap = [h \in Slot |-> NoSnap]
    /\ conn = [v \in Visitor |-> NoConn]
    /\ ch = [v \in Visitor |-> <<>>]
    /\ page = [v \in Visitor |-> NewPage]
    /\ owed = {} /\ dropped = {}
    /\ budget = Budget

-----------------------------------------------------------------------------
(* What the page does with an answer or a message *)

(* admitted(): every timer and the stream are stopped. *)
Let(p) == [p EXCEPT !.view = "admitted", !.es = FALSE, !.poll = FALSE]

(* showClosed(): the stream is closed and a poll scheduled. *)
ShowClosed(p) == [p EXCEPT !.view = "closed", !.es = FALSE, !.poll = TRUE]

(* start(): POST ticket.  A closed room gives no ticket. *)
Load(v) ==
    /\ page[v].view = "load"
    /\ IF state = "closed"
         THEN /\ page' = [page EXCEPT ![v] = ShowClosed(@)]
              /\ UNCHANGED conn
         ELSE /\ page' = [page EXCEPT ![v] = [@ EXCEPT !.view = "waiting", !.ticket = TRUE,
                                                       !.es = TRUE]]
              /\ conn' = [conn EXCEPT ![v].pc = "opening"]
    /\ UNCHANGED <<roomVars, hubVars, ch, historyVars, budget>>

(* Mutant: a poll that finds the ticket waiting does not schedule the next. *)
PollOnce(v) ==
    /\ page[v].poll
    /\ page' = [page EXCEPT ![v] =
                  IF ~@.ticket THEN [@ EXCEPT !.poll = FALSE]
                  ELSE IF state = "closed" THEN ShowClosed(@)
                  ELSE IF v \in admitted THEN Let(@)
                  ELSE [@ EXCEPT !.view = "waiting", !.poll = FALSE]]
    /\ UNCHANGED <<roomVars, hubVars, conn, ch, historyVars, budget>>

(* pollStatus(): without a ticket it returns and schedules nothing. *)
Poll(v) ==
    /\ page[v].poll
    /\ page' = [page EXCEPT ![v] =
                  IF ~@.ticket THEN [@ EXCEPT !.poll = FALSE]
                  ELSE IF state = "closed" THEN ShowClosed(@)
                  ELSE IF v \in admitted THEN Let(@)
                  ELSE [@ EXCEPT !.view = "waiting"]]
    /\ UNCHANGED <<roomVars, hubVars, conn, ch, historyVars, budget>>

(* The tab becomes visible again, or no status came for 40 s. *)
Nudge(v) ==
    /\ page[v].ticket /\ page[v].view # "admitted" /\ ~page[v].poll
    /\ page' = [page EXCEPT ![v].poll = TRUE]
    /\ UNCHANGED <<roomVars, hubVars, conn, ch, historyVars, budget>>

(* onerror: the stream broke; polling starts, and the stream is to be      *)
(* reopened after a minute.                                                *)
Break(v) ==
    /\ page[v].es
    /\ Spend("break")
    /\ page' = [page EXCEPT ![v] = [@ EXCEPT !.es = FALSE, !.poll = TRUE, !.reopen = TRUE]]
    /\ UNCHANGED <<roomVars, hubVars, conn, ch, historyVars>>

Reopen(v) ==
    /\ page[v].reopen
    /\ conn[v].pc = "none"
    /\ IF page[v].es \/ page[v].view = "admitted"
         THEN /\ page' = [page EXCEPT ![v].reopen = FALSE]
              /\ UNCHANGED conn
         ELSE /\ page' = [page EXCEPT ![v] = [@ EXCEPT !.es = TRUE, !.reopen = FALSE]]
              /\ conn' = [conn EXCEPT ![v].pc = "opening"]
    /\ UNCHANGED <<roomVars, hubVars, ch, historyVars, budget>>

-----------------------------------------------------------------------------
(* The events handler *)

(* The ticket and the configuration are read, a first message is written. *)
StreamOpen(v) ==
    /\ conn[v].pc = "opening"
    /\ IF ~page[v].es
         THEN conn' = [conn EXCEPT ![v] = NoConn] /\ UNCHANGED page
       ELSE IF state = "closed"
         THEN /\ conn' = [conn EXCEPT ![v] = NoConn]
              /\ page' = [page EXCEPT ![v] = ShowClosed(@)]
       ELSE IF v \in admitted
         THEN /\ conn' = [conn EXCEPT ![v] = NoConn]
              /\ page' = [page EXCEPT ![v] = Let(@)]
       ELSE conn' = [conn EXCEPT ![v].pc = "read"] /\ UNCHANGED page
    /\ UNCHANGED <<roomVars, hubVars, ch, historyVars, budget>>

(* Hub.Subscribe: the first subscriber creates the roomHub. *)
StreamSubscribe(v) ==
    /\ conn[v].pc = "read"
    /\ \E h \in Slot :
         /\ IF registered = None
              THEN /\ pump[h] = "none"
                   /\ pump' = [pump EXCEPT ![h] = "starting"]
              ELSE /\ h = registered
                   /\ UNCHANGED pump
         /\ registered' = h
         /\ subs' = [subs EXCEPT ![h] = @ \cup {v}]
         /\ conn' = [conn EXCEPT ![v] = [pc |-> "subscribed", slot |-> h]]
    /\ ch' = [ch EXCEPT ![v] = <<>>]
    /\ UNCHANGED <<roomVars, inbox, snap, page, historyVars, budget>>

(* One message of the channel is written to the stream. *)
Deliver(v) ==
    /\ conn[v].pc = "subscribed"
    /\ page[v].es
    /\ ch[v] # <<>>
    /\ page' = [page EXCEPT ![v] =
                  CASE Head(ch[v]) = "admitted" -> Let(@)
                    [] Head(ch[v]) = "refresh"  -> [@ EXCEPT !.poll = TRUE]
                    [] Head(ch[v]) = "closed"   -> ShowClosed(@)
                    [] Head(ch[v]) = "status"   -> [@ EXCEPT !.view = "waiting"]]
    /\ ch' = [ch EXCEPT ![v] = Tail(@)]
    /\ UNCHANGED <<roomVars, hubVars, conn, historyVars, budget>>

(* Mutant: the roomHub is dropped with the first stream that ends. *)
UnsubscribeAny(v) ==
    /\ conn[v].pc = "subscribed"
    /\ ~page[v].es
    /\ LET h == conn[v].slot
       IN /\ subs' = [subs EXCEPT ![h] = @ \ {v}]
          /\ snap' = [snap EXCEPT ![h].who = @ \ {v}]
          /\ registered' = None
          /\ pump' = [pump EXCEPT ![h] = "stopped"]
    /\ conn' = [conn EXCEPT ![v] = NoConn]
    /\ ch' = [ch EXCEPT ![v] = <<>>]
    /\ UNCHANGED <<roomVars, inbox, page, historyVars, budget>>

(* The stream ended, on either side: the deferred unsubscription.  What    *)
(* the statusLoop still sends to it goes to a channel no one reads.        *)
Unsubscribe(v) ==
    /\ conn[v].pc = "subscribed"
    /\ ~page[v].es
    /\ LET h == conn[v].slot
           last == subs[h] = {v}
       IN /\ subs' = [subs EXCEPT ![h] = @ \ {v}]
          /\ snap' = [snap EXCEPT ![h].who = @ \ {v}]
          /\ registered' = IF last THEN None ELSE registered
          /\ pump' = IF last THEN [pump EXCEPT ![h] = "stopped"] ELSE pump
    /\ conn' = [conn EXCEPT ![v] = NoConn]
    /\ ch' = [ch EXCEPT ![v] = <<>>]
    /\ UNCHANGED <<roomVars, inbox, page, historyVars, budget>>

-----------------------------------------------------------------------------
(* The goroutines of a roomHub *)

(* Mutant: the channel grows instead. *)
SendUnbounded(S, m) == [v \in Visitor |-> IF v \in S THEN Append(ch[v], m) ELSE ch[v]]

(* Hub.send: a full channel drops the message. *)
Send(S, m) == [v \in Visitor |-> IF v \in S /\ Len(ch[v]) < Cap THEN Append(ch[v], m)
                                                               ELSE ch[v]]
Full(S) == {v \in S : Len(ch[v]) >= Cap}

(* pump: SUBSCRIBE reaches Redis after the roomHub is registered. *)
PumpStart(h) ==
    /\ pump[h] = "starting"
    /\ pump' = [pump EXCEPT ![h] = "on"]
    /\ UNCHANGED <<roomVars, registered, inbox, subs, snap, conn, ch, page, historyVars, budget>>

(* Mutant: the loop over the subscribers stops at the first one it serves. *)
PumpDispatchOne(h) ==
    /\ pump[h] = "on"
    /\ inbox[h] # <<>>
    /\ LET ev == Head(inbox[h])
           hit == subs[h] \cap ev.who
       IN /\ \E S \in SUBSET hit : /\ S = {} <=> hit = {}
                                   /\ \A u, w \in S : u = w
                                   /\ ch' = Send(S, ev.msg)
          /\ dropped' = IF ev.msg = "admitted" THEN dropped \cup Full(hit) ELSE dropped
    /\ inbox' = [inbox EXCEPT ![h] = Tail(@)]
    /\ UNCHANGED <<roomVars, registered, pump, subs, snap, conn, page, owed, budget>>

PumpDispatch(h) ==
    /\ pump[h] = "on"
    /\ inbox[h] # <<>>
    /\ LET ev == Head(inbox[h])
           hit == subs[h] \cap ev.who
       IN /\ ch' = Send(hit, ev.msg)
          /\ dropped' = IF ev.msg = "admitted" THEN dropped \cup Full(hit) ELSE dropped
    /\ inbox' = [inbox EXCEPT ![h] = Tail(@)]
    /\ UNCHANGED <<roomVars, registered, pump, subs, snap, conn, page, owed, budget>>

(* statusLoop: the subscribers are copied under the lock... *)
StatusCopy(h) ==
    /\ pump[h] \in {"starting", "on"}
    /\ snap[h].who = {} /\ subs[h] # {}
    /\ snap' = [snap EXCEPT ![h] =
                  [who |-> subs[h], msg |-> IF state = "closed" THEN "closed" ELSE "status"]]
    /\ UNCHANGED <<roomVars, registered, pump, inbox, subs, conn, ch, page, historyVars, budget>>

(* ... and served one by one.  An admitted ticket gets a status like the others. *)
StatusSend(h) ==
    /\ \E v \in snap[h].who :
         /\ ch' = Send({v}, snap[h].msg)
         /\ snap' = [snap EXCEPT ![h].who = @ \ {v}]
    /\ UNCHANGED <<roomVars, registered, pump, inbox, subs, conn, page, historyVars, budget>>

(* Both goroutines saw the cancelled context. *)
Stopped(h) ==
    /\ pump[h] = "stopped"
    /\ pump' = [pump EXCEPT ![h] = "none"]
    /\ inbox' = [inbox EXCEPT ![h] = <<>>]
    /\ snap' = [snap EXCEPT ![h] = NoSnap]
    /\ UNCHANGED <<roomVars, registered, subs, conn, ch, page, historyVars, budget>>

-----------------------------------------------------------------------------
(* The admitter and flyc-control *)

Broadcast(ev) == [h \in Slot |-> IF pump[h] = "on" THEN Append(inbox[h], ev) ELSE inbox[h]]

(* MarkAdmitted *)
Mark(v) ==
    /\ page[v].ticket /\ v \notin admitted /\ state = "queue"
    /\ admitted' = admitted \cup {v}
    /\ unpublished' = unpublished \cup {v}
    /\ UNCHANGED <<state, hubVars, conn, ch, page, historyVars, budget>>

(* The event of the tick. *)
Publish ==
    /\ unpublished # {}
    /\ inbox' = Broadcast([msg |-> "admitted", who |-> unpublished])
    /\ owed' = owed \cup {v \in unpublished : /\ page[v].es
                                              /\ conn[v].pc = "subscribed"
                                              /\ pump[conn[v].slot] = "on"}
    /\ unpublished' = {}
    /\ UNCHANGED <<state, admitted, registered, pump, subs, snap, conn, ch, page, dropped, budget>>

(* The tick failed or the admitter died between the two. *)
PublishLost ==
    /\ unpublished # {}
    /\ Spend("lost")
    /\ unpublished' = {}
    /\ UNCHANGED <<state, admitted, hubVars, conn, ch, page, historyVars>>

(* PUT room, also POST flush: the state is set, every subscriber is told. *)
PutRoom(s) ==
    /\ Spend("conf")
    /\ state' = s
    /\ inbox' = Broadcast([msg |-> "refresh", who |-> Visitor])
    /\ UNCHANGED <<admitted, unpublished, registered, pump, subs, snap, conn, ch, page, historyVars>>

-----------------------------------------------------------------------------
Page(v) == Load(v) \/ Poll(v) \/ Reopen(v)
Handler(v) == StreamOpen(v) \/ StreamSubscribe(v) \/ Deliver(v) \/ Unsubscribe(v)
Pump(h) == PumpStart(h) \/ PumpDispatch(h) \/ Stopped(h)
StatusLoop(h) == StatusCopy(h) \/ StatusSend(h)

Next == \/ \E v \in Visitor : Page(v) \/ Handler(v) \/ Nudge(v) \/ Break(v) \/ Mark(v)
        \/ \E h \in Slot : Pump(h) \/ StatusLoop(h)
        \/ Publish \/ PublishLost \/ \E s \in {"queue", "closed"} : PutRoom(s)

Spec == Init /\ [][Next]_vars

(* The timers of a page fire, the goroutines of the hub run, a stream that *)
(* is up is written to, a tick ends with its publication.  No visitor need *)
(* come back to the tab and nothing need break.                            *)
Fairness ==
    /\ \A v \in Visitor : /\ WF_vars(Load(v)) /\ WF_vars(Poll(v)) /\ WF_vars(Reopen(v))
                          /\ WF_vars(Handler(v))
    /\ \A h \in Slot : WF_vars(Pump(h)) /\ WF_vars(StatusLoop(h))
    /\ WF_vars(Publish)

FairSpec == Spec /\ Fairness

-----------------------------------------------------------------------------
(* Properties *)

Event == [msg : {"admitted", "refresh"}, who : SUBSET Visitor]
PageRec == [view : {"load", "waiting", "closed", "admitted"},
            ticket : BOOLEAN, es : BOOLEAN, poll : BOOLEAN, reopen : BOOLEAN]
ConnRec == [pc : {"none", "opening", "read", "subscribed"}, slot : Slot \cup {None}]

(* Type correctness; a slow stream never holds more than its channel. *)
StreamTypeOK ==
    /\ state \in {"queue", "closed"}
    /\ unpublished \subseteq admitted /\ admitted \subseteq Visitor
    /\ registered \in Slot \cup {None}
    /\ pump \in [Slot -> {"none", "starting", "on", "stopped"}]
    /\ inbox \in [Slot -> Seq(Event)]
    /\ subs \in [Slot -> SUBSET Visitor]
    /\ snap \in [Slot -> [who : SUBSET Visitor, msg : {"status", "closed"}]]
    /\ conn \in [Visitor -> ConnRec]
    /\ ch \in [Visitor -> Seq(Msg)] /\ \A v \in Visitor : Len(ch[v]) <= Cap
    /\ page \in [Visitor -> PageRec]
    /\ owed \subseteq Visitor /\ dropped \subseteq Visitor
    /\ budget \in [Kinds -> Int]

(* The subscribers of a room share one live roomHub: however streams come  *)
(* and go, no handler is left in one that was cancelled or replaced.       *)
OneLiveHub ==
    /\ \A v \in Visitor : conn[v].pc = "subscribed" =>
          /\ registered = conn[v].slot
          /\ v \in subs[conn[v].slot]
          /\ pump[conn[v].slot] \in {"starting", "on"}
    /\ \A h \in Slot : pump[h] \in {"starting", "on"} => h = registered

InTransit(v) == \/ \E i \in 1..Len(ch[v]) : ch[v][i] = "admitted"
                \/ \E i \in 1..Len(inbox[conn[v].slot]) :
                      LET ev == inbox[conn[v].slot][i]
                      IN ev.msg = "admitted" /\ v \in ev.who

(* An admission published while a stream is set up is on its way to it, in *)
(* spite of other streams ending and of hubs being replaced, as long as    *)
(* the stream lasts and its channel is not full.                           *)
OwedInTransit ==
    \A v \in owed \ dropped :
        (page[v].es /\ conn[v].pc = "subscribed") => InTransit(v)

(* Once a page polls, by whatever way it came to it, it learns of its      *)
(* admission, be it before or after, unless the room is closed.            *)
PollingLearns ==
    \A v \in Visitor :
        [](page[v].poll /\ page[v].ticket =>
              [](v \in admitted => <>(page[v].view = "admitted" \/ state = "closed")))
=============================================================================
