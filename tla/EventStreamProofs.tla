-------------------------- MODULE EventStreamProofs --------------------------
(***************************************************************************)
(* Theorems about EventStream, for any number of visitors, any roomHub     *)
(* objects, any capacity of the channels and any number of faults.         *)
(***************************************************************************)
EXTENDS EventStream, SequenceTheorems, TLAPS

(* A registered roomHub is alive, and a stream belongs to one. *)
HubInv ==
    /\ OneLiveHub
    /\ registered \in Slot => pump[registered] \in {"starting", "on"}
    /\ \A v \in Visitor : conn[v].pc = "subscribed" => conn[v].slot \in Slot

(* A page that has not asked for its ticket has no stream. *)
PageInv ==
    \A v \in Visitor : page[v].view = "load" =>
        /\ conn[v].pc = "none"
        /\ ~page[v].ticket /\ ~page[v].es /\ ~page[v].poll /\ ~page[v].reopen

(* A stream that is owed an admission was set up before it: no stream of   *)
(* an admitted ticket gets as far as the subscription.                     *)
OwedInv ==
    /\ OwedInTransit
    /\ owed \subseteq admitted
    /\ \A v \in owed : conn[v].pc # "read"

StreamInv == HubInv /\ PageInv /\ OwedInv

-----------------------------------------------------------------------------
(* Types *)

(* What the page does with an answer leaves it well typed. *)
LEMMA PageTypes ==
    ASSUME NEW q \in PageRec
    PROVE  /\ Let(q) \in PageRec /\ ShowClosed(q) \in PageRec
           /\ \A b \in BOOLEAN : /\ [q EXCEPT !.poll = b] \in PageRec
                                 /\ [q EXCEPT !.reopen = b] \in PageRec
           /\ [q EXCEPT !.view = "waiting"] \in PageRec
           /\ [q EXCEPT !.view = "waiting", !.ticket = TRUE, !.es = TRUE] \in PageRec
           /\ [q EXCEPT !.es = FALSE, !.poll = TRUE, !.reopen = TRUE] \in PageRec
           /\ [q EXCEPT !.es = TRUE, !.reopen = FALSE] \in PageRec
BY DEF PageRec, Let, ShowClosed

(* What the events handler makes of its own state. *)
LEMMA ConnTypes ==
    ASSUME NEW c \in ConnRec
    PROVE  /\ NoConn \in ConnRec
           /\ [c EXCEPT !.pc = "opening"] \in ConnRec /\ [c EXCEPT !.pc = "read"] \in ConnRec
           /\ \A h \in Slot : [pc |-> "subscribed", slot |-> h] \in ConnRec
BY DEF ConnRec, NoConn

(* send keeps every channel within its capacity. *)
LEMMA SendType ==
    ASSUME StreamTypeOK, NEW S, NEW m \in Msg
    PROVE  /\ Send(S, m) \in [Visitor -> Seq(Msg)]
           /\ \A v \in Visitor : Len(Send(S, m)[v]) <= Cap
<1>1. ASSUME NEW v \in Visitor
      PROVE  /\ Send(S, m)[v] \in Seq(Msg)
             /\ Len(Send(S, m)[v]) <= Cap
  <2>1. ch[v] \in Seq(Msg) /\ Len(ch[v]) <= Cap
    BY DEF StreamTypeOK
  <2>2. Send(S, m)[v] = IF v \in S /\ Len(ch[v]) < Cap THEN Append(ch[v], m) ELSE ch[v]
    BY DEF Send
  <2>3. Append(ch[v], m) \in Seq(Msg) /\ Len(Append(ch[v], m)) = Len(ch[v]) + 1
    BY <2>1, AppendProperties
  <2>4. Len(ch[v]) \in Nat
    BY <2>1, LenProperties
  <2> QED
    BY <2>1, <2>2, <2>3, <2>4, StreamAssumption
<1> QED
  BY <1>1 DEF Send

(* An event reaches the pumps that are on. *)
LEMMA BroadcastType ==
    ASSUME StreamTypeOK, NEW ev \in Event
    PROVE  Broadcast(ev) \in [Slot -> Seq(Event)]
<1>1. ASSUME NEW h \in Slot PROVE Broadcast(ev)[h] \in Seq(Event)
  BY AppendProperties DEF Broadcast, StreamTypeOK
<1> QED
  BY <1>1 DEF Broadcast

(* What is left of the faults. *)
LEMMA SpendType ==
    ASSUME StreamTypeOK, NEW kind \in Kinds, Spend(kind)
    PROVE  budget' \in [Kinds -> Int]
BY DEF StreamTypeOK, Spend

(* Every variable keeps its type. *)
LEMMA TypeStep == StreamTypeOK /\ [Next]_vars => StreamTypeOK'
<1> SUFFICES ASSUME StreamTypeOK, [Next]_vars PROVE StreamTypeOK'
  OBVIOUS
<1>0. page \in [Visitor -> PageRec] /\ conn \in [Visitor -> ConnRec]
  BY DEF StreamTypeOK
<1>1. ASSUME NEW v \in Visitor, Load(v) PROVE StreamTypeOK'
  <2>0. /\ ShowClosed(page[v]) \in PageRec
        /\ [page[v] EXCEPT !.view = "waiting", !.ticket = TRUE, !.es = TRUE] \in PageRec
    BY <1>0, PageTypes
  <2>1. \/ page' = [page EXCEPT ![v] = ShowClosed(page[v])]
        \/ page' = [page EXCEPT ![v] = [page[v] EXCEPT !.view = "waiting", !.ticket = TRUE,
                                                       !.es = TRUE]]
    BY <1>1 DEF StreamTypeOK, Load
  <2>2. conn' = conn \/ conn' = [conn EXCEPT ![v].pc = "opening"]
    BY <1>1 DEF StreamTypeOK, Load
  <2>3. page' \in [Visitor -> PageRec]
    BY <1>0, <2>0, <2>1
  <2>4. conn' \in [Visitor -> ConnRec]
    BY <1>0, <2>2 DEF ConnRec, NoConn
  <2> QED
    BY <2>3, <2>4, <1>1 DEF StreamTypeOK, Load, roomVars, hubVars, historyVars
<1>2. ASSUME NEW v \in Visitor, Poll(v) PROVE StreamTypeOK'
  BY <1>2, PageTypes DEF StreamTypeOK, Poll, roomVars, hubVars, historyVars
<1>3. ASSUME NEW v \in Visitor, Nudge(v) PROVE StreamTypeOK'
  BY <1>3, PageTypes DEF StreamTypeOK, Nudge, roomVars, hubVars, historyVars
<1>4. ASSUME NEW v \in Visitor, Break(v) PROVE StreamTypeOK'
  BY <1>4, PageTypes, SpendType DEF StreamTypeOK, Break, Kinds, roomVars, hubVars, historyVars
<1>5. ASSUME NEW v \in Visitor, Reopen(v) PROVE StreamTypeOK'
  <2>0. /\ [page[v] EXCEPT !.reopen = FALSE] \in PageRec
        /\ [page[v] EXCEPT !.es = TRUE, !.reopen = FALSE] \in PageRec
    BY <1>0, PageTypes
  <2>1. \/ page' = [page EXCEPT ![v] = [page[v] EXCEPT !.reopen = FALSE]]
        \/ page' = [page EXCEPT ![v] = [page[v] EXCEPT !.es = TRUE, !.reopen = FALSE]]
    BY <1>5 DEF StreamTypeOK, Reopen
  <2>2. conn' = conn \/ conn' = [conn EXCEPT ![v].pc = "opening"]
    BY <1>5 DEF StreamTypeOK, Reopen
  <2>3. page' \in [Visitor -> PageRec]
    BY <1>0, <2>0, <2>1
  <2>4. conn' \in [Visitor -> ConnRec]
    BY <1>0, <2>2 DEF ConnRec, NoConn
  <2> QED
    BY <2>3, <2>4, <1>5 DEF StreamTypeOK, Reopen, roomVars, hubVars, historyVars
<1>6. ASSUME NEW v \in Visitor, StreamOpen(v) PROVE StreamTypeOK'
  <2>0. ShowClosed(page[v]) \in PageRec /\ Let(page[v]) \in PageRec
    BY <1>0, PageTypes
  <2>1. \/ page' = page
        \/ page' = [page EXCEPT ![v] = ShowClosed(page[v])]
        \/ page' = [page EXCEPT ![v] = Let(page[v])]
    BY <1>6 DEF StreamTypeOK, StreamOpen
  <2>2. conn' = [conn EXCEPT ![v] = NoConn] \/ conn' = [conn EXCEPT ![v].pc = "read"]
    BY <1>6 DEF StreamTypeOK, StreamOpen
  <2>3. page' \in [Visitor -> PageRec]
    BY <1>0, <2>0, <2>1
  <2>4. conn' \in [Visitor -> ConnRec]
    BY <1>0, <2>2 DEF ConnRec, NoConn
  <2> QED
    BY <2>3, <2>4, <1>6 DEF StreamTypeOK, StreamOpen, roomVars, hubVars, historyVars
<1>7. ASSUME NEW v \in Visitor, StreamSubscribe(v) PROVE StreamTypeOK'
  <2>1. PICK h \in Slot :
          /\ pump' \in {pump, [pump EXCEPT ![h] = "starting"]}
          /\ registered' = h
          /\ subs' = [subs EXCEPT ![h] = @ \cup {v}]
          /\ conn' = [conn EXCEPT ![v] = [pc |-> "subscribed", slot |-> h]]
    BY <1>7 DEF StreamTypeOK, StreamSubscribe
  <2>2. ch' = [ch EXCEPT ![v] = <<>>]
    BY <1>7 DEF StreamTypeOK, StreamSubscribe
  <2>3. conn' \in [Visitor -> ConnRec]
    BY <1>0, <2>1, ConnTypes
  <2>4. ch' \in [Visitor -> Seq(Msg)] /\ \A u \in Visitor : Len(ch'[u]) <= Cap
    BY <2>2, EmptySeq, StreamAssumption DEF StreamTypeOK
  <2>5. /\ registered' \in Slot \cup {None}
        /\ pump' \in [Slot -> {"none", "starting", "on", "stopped"}]
        /\ subs' \in [Slot -> SUBSET Visitor]
    BY <2>1 DEF StreamTypeOK
  <2> QED
    BY <2>3, <2>4, <2>5, <1>7 DEF StreamTypeOK, StreamSubscribe, roomVars, historyVars
<1>8. ASSUME NEW v \in Visitor, Deliver(v) PROVE StreamTypeOK'
  <2>1. ch[v] \in Seq(Msg) /\ ch[v] # <<>> /\ ch' = [ch EXCEPT ![v] = Tail(@)]
    BY <1>8 DEF StreamTypeOK, Deliver
  <2>2. Head(ch[v]) \in Msg /\ Tail(ch[v]) \in Seq(Msg) /\ Len(Tail(ch[v])) = Len(ch[v]) - 1
    BY <2>1, HeadTailProperties
  <2>3. ch' \in [Visitor -> Seq(Msg)] /\ \A u \in Visitor : Len(ch'[u]) <= Cap
    <3>1. Len(Tail(ch[v])) <= Cap
      BY <2>1, <2>2, StreamAssumption, LenProperties DEF StreamTypeOK
    <3> QED
      BY <2>1, <2>2, <3>1 DEF StreamTypeOK
  <2>4. page' \in [Visitor -> PageRec]
    BY <2>2, <1>0, <1>8, PageTypes DEF Deliver, Msg
  <2> QED
    BY <2>3, <2>4, <1>8 DEF StreamTypeOK, Deliver, roomVars, hubVars, historyVars
<1>9. ASSUME NEW v \in Visitor, Unsubscribe(v) PROVE StreamTypeOK'
  <2>1. conn' \in [Visitor -> ConnRec]
    BY <1>0, <1>9, ConnTypes DEF Unsubscribe
  <2>2. ch' \in [Visitor -> Seq(Msg)] /\ \A u \in Visitor : Len(ch'[u]) <= Cap
    BY <1>9, EmptySeq, StreamAssumption DEF StreamTypeOK, Unsubscribe
  <2>3. /\ registered' \in Slot \cup {None}
        /\ pump' \in [Slot -> {"none", "starting", "on", "stopped"}]
        /\ subs' \in [Slot -> SUBSET Visitor]
    BY <1>9 DEF StreamTypeOK, Unsubscribe
  <2>4. snap' \in [Slot -> [who : SUBSET Visitor, msg : {"status", "closed"}]]
    BY <1>9 DEF StreamTypeOK, Unsubscribe
  <2> QED
    BY <2>1, <2>2, <2>3, <2>4, <1>9 DEF StreamTypeOK, Unsubscribe, roomVars, historyVars
<1>10. ASSUME NEW v \in Visitor, Mark(v) PROVE StreamTypeOK'
  BY <1>10 DEF StreamTypeOK, Mark, roomVars, hubVars, historyVars
<1>11. ASSUME NEW h \in Slot, PumpStart(h) PROVE StreamTypeOK'
  BY <1>11 DEF StreamTypeOK, PumpStart, roomVars, hubVars, historyVars
<1>12. ASSUME NEW h \in Slot, PumpDispatch(h) PROVE StreamTypeOK'
  <2> DEFINE ev == Head(inbox[h])
             hit == subs[h] \cap ev.who
  <2>1. ev \in Event /\ Tail(inbox[h]) \in Seq(Event)
    BY <1>12, HeadTailProperties DEF StreamTypeOK, PumpDispatch
  <2>2. ev.msg \in Msg /\ hit \subseteq Visitor
    BY <2>1 DEF Event, Msg, StreamTypeOK
  <2>3. ch' = Send(hit, ev.msg) /\ dropped' \in {dropped, dropped \cup Full(hit)}
    BY <1>12 DEF StreamTypeOK, PumpDispatch
  <2>4. ch' \in [Visitor -> Seq(Msg)] /\ \A u \in Visitor : Len(ch'[u]) <= Cap
    BY <2>2, <2>3, SendType DEF StreamTypeOK
  <2>5. dropped' \subseteq Visitor
    BY <2>2, <2>3 DEF StreamTypeOK, Full
  <2>6. inbox' \in [Slot -> Seq(Event)]
    BY <2>1, <1>12 DEF StreamTypeOK, PumpDispatch
  <2> QED
    BY <2>4, <2>5, <2>6, <1>12 DEF StreamTypeOK, PumpDispatch, roomVars
<1>13. ASSUME NEW h \in Slot, StatusCopy(h) PROVE StreamTypeOK'
  BY <1>13 DEF StreamTypeOK, StatusCopy, roomVars, hubVars, historyVars
<1>14. ASSUME NEW h \in Slot, StatusSend(h) PROVE StreamTypeOK'
  <2>1. PICK v \in snap[h].who : /\ ch' = Send({v}, snap[h].msg)
                                /\ snap' = [snap EXCEPT ![h].who = @ \ {v}]
    BY <1>14 DEF StreamTypeOK, StatusSend
  <2>2. ch' \in [Visitor -> Seq(Msg)] /\ \A u \in Visitor : Len(ch'[u]) <= Cap
    BY <2>1, SendType DEF StreamTypeOK, Msg
  <2>3. snap' \in [Slot -> [who : SUBSET Visitor, msg : {"status", "closed"}]]
    BY <2>1 DEF StreamTypeOK
  <2> QED
    BY <2>2, <2>3, <1>14 DEF StreamTypeOK, StatusSend, roomVars, historyVars
<1>15. ASSUME NEW h \in Slot, Stopped(h) PROVE StreamTypeOK'
  BY <1>15, EmptySeq DEF StreamTypeOK, Stopped, NoSnap, roomVars, hubVars, historyVars
<1>16. CASE Publish
  BY <1>16, BroadcastType DEF StreamTypeOK, Publish, Event, roomVars, hubVars, historyVars
<1>17. CASE PublishLost
  BY <1>17, SpendType DEF StreamTypeOK, PublishLost, Kinds, roomVars, hubVars, historyVars
<1>18. ASSUME NEW s \in {"queue", "closed"}, PutRoom(s) PROVE StreamTypeOK'
  BY <1>18, BroadcastType, SpendType DEF StreamTypeOK, PutRoom, Kinds, Event, roomVars, hubVars, historyVars
<1>19. CASE UNCHANGED vars
  BY <1>19 DEF StreamTypeOK, vars, roomVars, hubVars, historyVars
<1> QED
  BY <1>1, <1>2, <1>3, <1>4, <1>5, <1>6, <1>7, <1>8, <1>9, <1>10, <1>11, <1>12, <1>13, <1>14, <1>15, <1>16, <1>17, <1>18, <1>19
  DEF Next, Page, Handler, Pump, StatusLoop

-----------------------------------------------------------------------------
(* The hub *)

(* A step that leaves the roomHubs alone and makes no subscriber. *)
LEMMA HubKept ==
    ASSUME StreamTypeOK, HubInv, UNCHANGED <<registered, pump, subs>>,
           \A u \in Visitor : conn'[u].pc = "subscribed" => conn'[u] = conn[u]
    PROVE  HubInv'
BY DEF HubInv, OneLiveHub

(* Every step leaves the streams in one live roomHub. *)
LEMMA HubStep == StreamTypeOK /\ HubInv /\ PageInv /\ [Next]_vars => HubInv'
<1> SUFFICES ASSUME StreamTypeOK, HubInv, PageInv, [Next]_vars PROVE HubInv'
  OBVIOUS
<1>0. conn \in [Visitor -> ConnRec]
  BY DEF StreamTypeOK
<1> USE StreamAssumption DEF StreamTypeOK, HubInv, PageInv, OneLiveHub, ConnRec
<1>1. ASSUME NEW v \in Visitor, Load(v) PROVE HubInv'
  <2>1. conn' = conn \/ conn' = [conn EXCEPT ![v].pc = "opening"]
    BY <1>1 DEF Load
  <2>2. \A u \in Visitor : conn'[u].pc = "subscribed" => conn'[u] = conn[u]
    BY <1>0, <2>1 DEF ConnRec, NoConn
  <2> QED
    BY <2>2, <1>1, HubKept DEF Load, hubVars
<1>2. ASSUME NEW v \in Visitor, Poll(v) PROVE HubInv'
  BY <1>2 DEF Poll, Let, ShowClosed, roomVars, hubVars, historyVars
<1>3. ASSUME NEW v \in Visitor, Nudge(v) PROVE HubInv'
  BY <1>3 DEF Nudge, roomVars, hubVars, historyVars
<1>4. ASSUME NEW v \in Visitor, Break(v) PROVE HubInv'
  BY <1>4 DEF Break, roomVars, hubVars, historyVars
<1>5. ASSUME NEW v \in Visitor, Reopen(v) PROVE HubInv'
  <2>1. conn' = conn \/ conn' = [conn EXCEPT ![v].pc = "opening"]
    BY <1>5 DEF Reopen
  <2>2. \A u \in Visitor : conn'[u].pc = "subscribed" => conn'[u] = conn[u]
    BY <1>0, <2>1 DEF ConnRec, NoConn
  <2> QED
    BY <2>2, <1>5, HubKept DEF Reopen, hubVars
<1>6. ASSUME NEW v \in Visitor, StreamOpen(v) PROVE HubInv'
  <2>1. conn' = [conn EXCEPT ![v] = NoConn] \/ conn' = [conn EXCEPT ![v].pc = "read"]
    BY <1>6 DEF StreamOpen
  <2>2. \A u \in Visitor : conn'[u].pc = "subscribed" => conn'[u] = conn[u]
    BY <1>0, <2>1 DEF ConnRec, NoConn
  <2> QED
    BY <2>2, <1>6, HubKept DEF StreamOpen, hubVars
<1>7. ASSUME NEW v \in Visitor, StreamSubscribe(v) PROVE HubInv'
  BY <1>7 DEF StreamSubscribe, roomVars, hubVars, historyVars
<1>8. ASSUME NEW v \in Visitor, Deliver(v) PROVE HubInv'
  BY <1>8 DEF Deliver, Let, ShowClosed, roomVars, hubVars, historyVars
<1>9. ASSUME NEW v \in Visitor, Unsubscribe(v) PROVE HubInv'
  BY <1>9 DEF Unsubscribe, NoConn, roomVars, hubVars, historyVars
<1>10. ASSUME NEW v \in Visitor, Mark(v) PROVE HubInv'
  BY <1>10 DEF Mark, roomVars, hubVars, historyVars
<1>11. ASSUME NEW h \in Slot, PumpStart(h) PROVE HubInv'
  BY <1>11 DEF PumpStart, roomVars, hubVars, historyVars
<1>12. ASSUME NEW h \in Slot, PumpDispatch(h) PROVE HubInv'
  BY <1>12 DEF PumpDispatch, roomVars, hubVars, historyVars
<1>13. ASSUME NEW h \in Slot, StatusCopy(h) PROVE HubInv'
  BY <1>13 DEF StatusCopy, roomVars, hubVars, historyVars
<1>14. ASSUME NEW h \in Slot, StatusSend(h) PROVE HubInv'
  BY <1>14 DEF StatusSend, roomVars, hubVars, historyVars
<1>15. ASSUME NEW h \in Slot, Stopped(h) PROVE HubInv'
  BY <1>15 DEF Stopped, NoSnap, roomVars, hubVars, historyVars
<1>16. CASE Publish
  BY <1>16 DEF Publish, roomVars, hubVars, historyVars
<1>17. CASE PublishLost
  BY <1>17 DEF PublishLost, roomVars, hubVars, historyVars
<1>18. ASSUME NEW s \in {"queue", "closed"}, PutRoom(s) PROVE HubInv'
  BY <1>18 DEF PutRoom, roomVars, hubVars, historyVars
<1>19. CASE UNCHANGED vars
  BY <1>19 DEF vars, roomVars, hubVars, historyVars
<1> QED
  BY <1>1, <1>2, <1>3, <1>4, <1>5, <1>6, <1>7, <1>8, <1>9, <1>10, <1>11, <1>12, <1>13, <1>14, <1>15, <1>16, <1>17, <1>18, <1>19
  DEF Next, Page, Handler, Pump, StatusLoop

(* A step that changes pages and streams of those only who have left "load". *)
LEMMA PageKept ==
    ASSUME PageInv,
           \A u \in Visitor :
               page'[u].view = "load" => page'[u] = page[u] /\ conn'[u].pc = conn[u].pc
    PROVE  PageInv'
BY DEF PageInv

(* Every step leaves a page without ticket without stream. *)
LEMMA PageStep == StreamTypeOK /\ PageInv /\ [Next]_vars => PageInv'
<1> SUFFICES ASSUME StreamTypeOK, PageInv, [Next]_vars PROVE PageInv'
  OBVIOUS
<1>0. page \in [Visitor -> PageRec] /\ conn \in [Visitor -> ConnRec]
  BY DEF StreamTypeOK
<1>1. ASSUME NEW v \in Visitor, Load(v) PROVE PageInv'
  <2>1. \A u \in Visitor : u # v => page'[u] = page[u] /\ conn'[u] = conn[u]
    BY <1>0, <1>1 DEF Load
  <2>2. page'[v].view # "load"
    <3>1. CASE state = "closed"
      BY <1>0, <1>1, <3>1 DEF Load, ShowClosed, PageRec
    <3>2. CASE state # "closed"
      BY <1>0, <1>1, <3>2 DEF Load, PageRec
    <3> QED
      BY <3>1, <3>2
  <2> QED
    BY <2>1, <2>2, PageKept
<1>2. ASSUME NEW v \in Visitor, Poll(v) PROVE PageInv'
  BY <1>0, <1>2 DEF PageInv, PageRec, ConnRec, Poll, Let, ShowClosed, roomVars, hubVars, historyVars
<1>3. ASSUME NEW v \in Visitor, Nudge(v) PROVE PageInv'
  BY <1>0, <1>3 DEF PageInv, PageRec, ConnRec, Nudge, roomVars, hubVars, historyVars
<1>4. ASSUME NEW v \in Visitor, Break(v) PROVE PageInv'
  BY <1>0, <1>4 DEF PageInv, PageRec, ConnRec, Break, roomVars, hubVars, historyVars
<1>5. ASSUME NEW v \in Visitor, Reopen(v) PROVE PageInv'
  <2>1. \A u \in Visitor : u # v => page'[u] = page[u] /\ conn'[u] = conn[u]
    BY <1>0, <1>5 DEF Reopen
  <2>2. page'[v].view # "load"
    <3>1. page[v].view # "load"
      BY <1>0, <1>5 DEF Reopen, PageInv
    <3>2. CASE page[v].es \/ page[v].view = "admitted"
      BY <1>0, <1>5, <3>1, <3>2 DEF Reopen, PageRec
    <3>3. CASE ~(page[v].es \/ page[v].view = "admitted")
      BY <1>0, <1>5, <3>1, <3>3 DEF Reopen, PageRec
    <3> QED
      BY <3>2, <3>3
  <2> QED
    BY <2>1, <2>2, PageKept
<1>6. ASSUME NEW v \in Visitor, StreamOpen(v) PROVE PageInv'
  <2>1. \A u \in Visitor : u # v => page'[u] = page[u] /\ conn'[u] = conn[u]
    BY <1>0, <1>6 DEF StreamOpen
  <2>2. page'[v].view # "load"
    BY <1>0, <1>6 DEF StreamOpen, PageInv, Let, ShowClosed, PageRec
  <2> QED
    BY <2>1, <2>2, PageKept
<1>7. ASSUME NEW v \in Visitor, StreamSubscribe(v) PROVE PageInv'
  BY <1>0, <1>7 DEF PageInv, PageRec, ConnRec, StreamSubscribe, roomVars, hubVars, historyVars
<1>8. ASSUME NEW v \in Visitor, Deliver(v) PROVE PageInv'
  <2>0. Head(ch[v]) \in Msg
    <3>1. ch[v] \in Seq(Msg) /\ ch[v] # <<>>
      BY <1>0, <1>8 DEF PageInv, PageRec, ConnRec, Deliver, StreamTypeOK
    <3> QED
      BY <3>1, HeadTailProperties
  <2>1. \A u \in Visitor : u # v => page'[u] = page[u] /\ conn'[u] = conn[u]
    BY <1>0, <1>8 DEF Deliver
  <2>2. page'[v].view # "load"
    BY <2>0, <1>0, <1>8 DEF Deliver, PageInv, Let, ShowClosed, PageRec, Msg
  <2> QED
    BY <2>1, <2>2, PageKept
<1>9. ASSUME NEW v \in Visitor, Unsubscribe(v) PROVE PageInv'
  BY <1>0, <1>9 DEF PageInv, PageRec, ConnRec, Unsubscribe, NoConn, roomVars, hubVars, historyVars
<1>10. ASSUME NEW v \in Visitor, Mark(v) PROVE PageInv'
  BY <1>0, <1>10 DEF PageInv, PageRec, ConnRec, Mark, roomVars, hubVars, historyVars
<1>11. ASSUME NEW h \in Slot, PumpStart(h) PROVE PageInv'
  BY <1>0, <1>11 DEF PageInv, PageRec, ConnRec, PumpStart, roomVars, hubVars, historyVars
<1>12. ASSUME NEW h \in Slot, PumpDispatch(h) PROVE PageInv'
  BY <1>0, <1>12 DEF PageInv, PageRec, ConnRec, PumpDispatch, roomVars, hubVars, historyVars
<1>13. ASSUME NEW h \in Slot, StatusCopy(h) PROVE PageInv'
  BY <1>0, <1>13 DEF PageInv, PageRec, ConnRec, StatusCopy, roomVars, hubVars, historyVars
<1>14. ASSUME NEW h \in Slot, StatusSend(h) PROVE PageInv'
  BY <1>0, <1>14 DEF PageInv, PageRec, ConnRec, StatusSend, roomVars, hubVars, historyVars
<1>15. ASSUME NEW h \in Slot, Stopped(h) PROVE PageInv'
  BY <1>0, <1>15 DEF PageInv, PageRec, ConnRec, Stopped, NoSnap, roomVars, hubVars, historyVars
<1>16. CASE Publish
  BY <1>0, <1>16 DEF PageInv, PageRec, ConnRec, Publish, roomVars, hubVars, historyVars
<1>17. CASE PublishLost
  BY <1>0, <1>17 DEF PageInv, PageRec, ConnRec, PublishLost, roomVars, hubVars, historyVars
<1>18. ASSUME NEW s \in {"queue", "closed"}, PutRoom(s) PROVE PageInv'
  BY <1>0, <1>18 DEF PageInv, PageRec, ConnRec, PutRoom, roomVars, hubVars, historyVars
<1>19. CASE UNCHANGED vars
  BY <1>0, <1>19 DEF PageInv, PageRec, ConnRec, vars, roomVars, hubVars, historyVars
<1> QED
  BY <1>1, <1>2, <1>3, <1>4, <1>5, <1>6, <1>7, <1>8, <1>9, <1>10, <1>11, <1>12, <1>13, <1>14, <1>15, <1>16, <1>17, <1>18, <1>19
  DEF Next, Page, Handler, Pump, StatusLoop

-----------------------------------------------------------------------------
(* Admissions on their way *)

Listening(v) == page[v].es /\ conn[v].pc = "subscribed"

(* Where the elements of a sequence are after an Append, and after Tail. *)
LEMMA Appended ==
    ASSUME NEW S, NEW s \in Seq(S), NEW e \in S
    PROVE  /\ \A i \in 1..Len(s) : i \in 1..Len(Append(s, e)) /\ Append(s, e)[i] = s[i]
           /\ Len(s) + 1 \in 1..Len(Append(s, e)) /\ Append(s, e)[Len(s) + 1] = e
<1>1. Len(s) \in Nat /\ Len(Append(s, e)) = Len(s) + 1
  BY AppendProperties, LenProperties
<1>2. \A i \in 1..(Len(s) + 1) : Append(s, e)[i] = IF i <= Len(s) THEN s[i] ELSE e
  BY AppendProperties, <1>1
<1> QED
  BY <1>1, <1>2

(* Receiving the first message of a channel moves the others up by one.    *)
LEMMA Shortened ==
    ASSUME NEW S, NEW s \in Seq(S), s # <<>>
    PROVE  \A i \in 1..Len(s) : i # 1 => i - 1 \in 1..Len(Tail(s)) /\ Tail(s)[i - 1] = s[i]
<1>1. Len(s) \in Nat /\ Len(Tail(s)) = Len(s) - 1
  BY HeadTailProperties, LenProperties
<1>2. \A i \in 1..Len(Tail(s)) : Tail(s)[i] = s[i + 1]
  BY HeadTailProperties
<1> SUFFICES ASSUME NEW i \in 1..Len(s), i # 1
             PROVE  i - 1 \in 1..Len(Tail(s)) /\ Tail(s)[i - 1] = s[i]
  OBVIOUS
<1>3. i - 1 \in 1..Len(Tail(s)) /\ (i - 1) + 1 = i
  BY <1>1
<1> QED
  BY <1>2, <1>3

(* A step that publishes nothing, drops no admission and lets no admitted  *)
(* ticket subscribe.                                                       *)
LEMMA OwedKept ==
    ASSUME OwedInv, UNCHANGED historyVars, admitted \subseteq admitted',
           \A u \in owed : conn'[u].pc # "read",
           \A u \in owed : Listening(u)' => Listening(u) /\ (InTransit(u) => InTransit(u)')
    PROVE  OwedInv'
BY DEF OwedInv, OwedInTransit, Listening, historyVars

(* What is on its way stays so when nothing is taken out. *)
LEMMA TransitKept ==
    ASSUME NEW u \in Visitor, conn'[u] = conn[u], ch'[u] = ch[u],
           inbox'[conn[u].slot] = inbox[conn[u].slot]
    PROVE  InTransit(u) => InTransit(u)'
BY DEF InTransit

(* An event that is published is appended. *)
LEMMA BroadcastKeeps ==
    ASSUME NEW h \in Slot, inbox[h] \in Seq(Event), NEW ev \in Event
    PROVE  \A i \in 1..Len(inbox[h]) :
               i \in 1..Len(Broadcast(ev)[h]) /\ Broadcast(ev)[h][i] = inbox[h][i]
BY Appended DEF Broadcast

(* Every step keeps an admission that is owed on its way. *)
LEMMA OwedStep == StreamTypeOK /\ HubInv /\ PageInv /\ OwedInv /\ [Next]_vars => OwedInv'
<1> SUFFICES ASSUME StreamTypeOK, HubInv, PageInv, OwedInv, [Next]_vars PROVE OwedInv'
  OBVIOUS
<1>0. /\ page \in [Visitor -> PageRec] /\ conn \in [Visitor -> ConnRec]
      /\ ch \in [Visitor -> Seq(Msg)] /\ inbox \in [Slot -> Seq(Event)]
      /\ owed \subseteq Visitor
      /\ \A u \in owed : u \in admitted /\ conn[u].pc # "read"
  BY DEF StreamTypeOK, OwedInv
<1>1. ASSUME NEW v \in Visitor, Load(v) PROVE OwedInv'
  <2>1. conn' = conn \/ conn' = [conn EXCEPT ![v].pc = "opening"]
    BY <1>1 DEF Load
  <2>2. conn[v].pc = "none"
    BY <1>1 DEF Load, PageInv
  <2>3. conn'[v].pc \in {"none", "opening"}
    BY <1>0, <2>1, <2>2, <1>1 DEF ConnRec, NoConn
  <2>4. \A u \in owed : conn'[u].pc # "read"
    BY <1>0, <2>1, <2>3
  <2>5. ASSUME NEW u \in owed, Listening(u)'
        PROVE  Listening(u) /\ conn'[u] = conn[u] /\ ch'[u] = ch[u]
               /\ inbox'[conn[u].slot] = inbox[conn[u].slot]
    <3>1. u # v
      BY <2>3, <2>5 DEF Listening
    <3>2. page'[u] = page[u] /\ conn'[u] = conn[u]
      BY <1>0, <3>1, <1>1 DEF Load
    <3> QED
      BY <2>5, <3>2, <1>1 DEF Load, Listening, hubVars
  <2> QED
    BY <1>0, <2>4, <2>5, <1>1, OwedKept, TransitKept DEF Load, roomVars, historyVars
<1>2. ASSUME NEW v \in Visitor, Reopen(v) PROVE OwedInv'
  <2>1. conn' = conn \/ conn' = [conn EXCEPT ![v].pc = "opening"]
    BY <1>2 DEF Reopen
  <2>2. conn[v].pc = "none"
    BY <1>2 DEF Reopen
  <2>3. conn'[v].pc \in {"none", "opening"}
    BY <1>0, <2>1, <2>2, <1>2 DEF ConnRec, NoConn
  <2>4. \A u \in owed : conn'[u].pc # "read"
    BY <1>0, <2>1, <2>3
  <2>5. ASSUME NEW u \in owed, Listening(u)'
        PROVE  Listening(u) /\ conn'[u] = conn[u] /\ ch'[u] = ch[u]
               /\ inbox'[conn[u].slot] = inbox[conn[u].slot]
    <3>1. u # v
      BY <2>3, <2>5 DEF Listening
    <3>2. page'[u] = page[u] /\ conn'[u] = conn[u]
      BY <1>0, <3>1, <1>2 DEF Reopen
    <3> QED
      BY <2>5, <3>2, <1>2 DEF Reopen, Listening, hubVars
  <2> QED
    BY <1>0, <2>4, <2>5, <1>2, OwedKept, TransitKept DEF Reopen, roomVars, historyVars
<1>3. ASSUME NEW v \in Visitor, StreamOpen(v) PROVE OwedInv'
  <2>1. \/ conn' = [conn EXCEPT ![v] = NoConn]
        \/ conn' = [conn EXCEPT ![v].pc = "read"] /\ v \notin admitted
    BY <1>3 DEF StreamOpen
  <2>3. conn'[v].pc = "none" \/ (conn'[v].pc = "read" /\ v \notin admitted)
    BY <1>0, <2>1, <1>3 DEF ConnRec, NoConn
  <2>4. \A u \in owed : conn'[u].pc # "read"
    BY <1>0, <2>1, <2>3
  <2>5. ASSUME NEW u \in owed, Listening(u)'
        PROVE  Listening(u) /\ conn'[u] = conn[u] /\ ch'[u] = ch[u]
               /\ inbox'[conn[u].slot] = inbox[conn[u].slot]
    <3>1. u # v
      BY <2>3, <2>5 DEF Listening
    <3>2. page'[u] = page[u] /\ conn'[u] = conn[u]
      BY <1>0, <3>1, <1>3 DEF StreamOpen
    <3> QED
      BY <2>5, <3>2, <1>3 DEF StreamOpen, Listening, hubVars
  <2> QED
    BY <1>0, <2>4, <2>5, <1>3, OwedKept, TransitKept DEF StreamOpen, roomVars, historyVars
<1>4. ASSUME NEW v \in Visitor, Poll(v) PROVE OwedInv'
  <2>1. \A u \in owed : conn'[u].pc # "read"
    BY <1>0, <1>4 DEF Poll, ConnRec, NoConn
  <2>2. ASSUME NEW u \in owed, Listening(u)'
        PROVE  Listening(u) /\ conn'[u] = conn[u] /\ ch'[u] = ch[u]
               /\ inbox'[conn[u].slot] = inbox[conn[u].slot]
    BY <1>0, <2>2, <1>4 DEF Poll, Listening, ConnRec, NoConn, PageRec, hubVars, Let, ShowClosed
  <2> QED
    BY <1>0, <2>1, <2>2, <1>4, OwedKept, TransitKept DEF Poll, roomVars, historyVars
<1>5. ASSUME NEW v \in Visitor, Nudge(v) PROVE OwedInv'
  <2>1. \A u \in owed : conn'[u].pc # "read"
    BY <1>0, <1>5 DEF Nudge, ConnRec, NoConn
  <2>2. ASSUME NEW u \in owed, Listening(u)'
        PROVE  Listening(u) /\ conn'[u] = conn[u] /\ ch'[u] = ch[u]
               /\ inbox'[conn[u].slot] = inbox[conn[u].slot]
    BY <1>0, <2>2, <1>5 DEF Nudge, Listening, ConnRec, NoConn, PageRec, hubVars
  <2> QED
    BY <1>0, <2>1, <2>2, <1>5, OwedKept, TransitKept DEF Nudge, roomVars, historyVars
<1>6. ASSUME NEW v \in Visitor, Break(v) PROVE OwedInv'
  <2>1. \A u \in owed : conn'[u].pc # "read"
    BY <1>0, <1>6 DEF Break, ConnRec, NoConn
  <2>2. ASSUME NEW u \in owed, Listening(u)'
        PROVE  Listening(u) /\ conn'[u] = conn[u] /\ ch'[u] = ch[u]
               /\ inbox'[conn[u].slot] = inbox[conn[u].slot]
    BY <1>0, <2>2, <1>6 DEF Break, Listening, ConnRec, NoConn, PageRec, hubVars
  <2> QED
    BY <1>0, <2>1, <2>2, <1>6, OwedKept, TransitKept DEF Break, roomVars, historyVars
<1>7. ASSUME NEW v \in Visitor, StreamSubscribe(v) PROVE OwedInv'
  <2>1. \A u \in owed : conn'[u].pc # "read"
    BY <1>0, <1>7 DEF StreamSubscribe, ConnRec, NoConn
  <2>2. ASSUME NEW u \in owed, Listening(u)'
        PROVE  Listening(u) /\ conn'[u] = conn[u] /\ ch'[u] = ch[u]
               /\ inbox'[conn[u].slot] = inbox[conn[u].slot]
    BY <1>0, <2>2, <1>7 DEF StreamSubscribe, Listening, ConnRec, NoConn, PageRec, hubVars
  <2> QED
    BY <1>0, <2>1, <2>2, <1>7, OwedKept, TransitKept DEF StreamSubscribe, roomVars, historyVars
<1>8. ASSUME NEW v \in Visitor, Unsubscribe(v) PROVE OwedInv'
  <2>1. \A u \in owed : conn'[u].pc # "read"
    BY <1>0, <1>8 DEF Unsubscribe, ConnRec, NoConn
  <2>2. ASSUME NEW u \in owed, Listening(u)'
        PROVE  Listening(u) /\ conn'[u] = conn[u] /\ ch'[u] = ch[u]
               /\ inbox'[conn[u].slot] = inbox[conn[u].slot]
    BY <1>0, <2>2, <1>8 DEF Unsubscribe, Listening, ConnRec, NoConn, PageRec, hubVars
  <2> QED
    BY <1>0, <2>1, <2>2, <1>8, OwedKept, TransitKept DEF Unsubscribe, roomVars, historyVars
<1>9. ASSUME NEW v \in Visitor, Mark(v) PROVE OwedInv'
  <2>1. \A u \in owed : conn'[u].pc # "read"
    BY <1>0, <1>9 DEF Mark, ConnRec, NoConn
  <2>2. ASSUME NEW u \in owed, Listening(u)'
        PROVE  Listening(u) /\ conn'[u] = conn[u] /\ ch'[u] = ch[u]
               /\ inbox'[conn[u].slot] = inbox[conn[u].slot]
    BY <1>0, <2>2, <1>9 DEF Mark, Listening, ConnRec, NoConn, PageRec, hubVars
  <2> QED
    BY <1>0, <2>1, <2>2, <1>9, OwedKept, TransitKept DEF Mark, roomVars, historyVars
<1>10. ASSUME NEW h \in Slot, PumpStart(h) PROVE OwedInv'
  <2>1. \A u \in owed : conn'[u].pc # "read"
    BY <1>0, <1>10 DEF PumpStart, ConnRec, NoConn
  <2>2. ASSUME NEW u \in owed, Listening(u)'
        PROVE  Listening(u) /\ conn'[u] = conn[u] /\ ch'[u] = ch[u]
               /\ inbox'[conn[u].slot] = inbox[conn[u].slot]
    BY <1>0, <2>2, <1>10 DEF PumpStart, Listening, ConnRec, NoConn, PageRec, hubVars
  <2> QED
    BY <1>0, <2>1, <2>2, <1>10, OwedKept, TransitKept DEF PumpStart, roomVars, historyVars
<1>11. ASSUME NEW h \in Slot, StatusCopy(h) PROVE OwedInv'
  <2>1. \A u \in owed : conn'[u].pc # "read"
    BY <1>0, <1>11 DEF StatusCopy, ConnRec, NoConn
  <2>2. ASSUME NEW u \in owed, Listening(u)'
        PROVE  Listening(u) /\ conn'[u] = conn[u] /\ ch'[u] = ch[u]
               /\ inbox'[conn[u].slot] = inbox[conn[u].slot]
    BY <1>0, <2>2, <1>11 DEF StatusCopy, Listening, ConnRec, NoConn, PageRec, hubVars
  <2> QED
    BY <1>0, <2>1, <2>2, <1>11, OwedKept, TransitKept DEF StatusCopy, roomVars, historyVars
<1>12. ASSUME NEW h \in Slot, Stopped(h) PROVE OwedInv'
  <2>1. \A u \in owed : conn'[u].pc # "read"
    BY <1>0, <1>12 DEF Stopped, ConnRec, NoConn
  <2>2. ASSUME NEW u \in owed, Listening(u)'
        PROVE  Listening(u) /\ conn'[u] = conn[u] /\ ch'[u] = ch[u]
               /\ inbox'[conn[u].slot] = inbox[conn[u].slot]
    BY <1>0, <2>2, <1>12 DEF Stopped, Listening, ConnRec, NoConn, PageRec, hubVars, HubInv, OneLiveHub
  <2> QED
    BY <1>0, <2>1, <2>2, <1>12, OwedKept, TransitKept DEF Stopped, roomVars, historyVars
<1>13. CASE PublishLost
  <2>1. \A u \in owed : conn'[u].pc # "read"
    BY <1>0, <1>13 DEF PublishLost, ConnRec, NoConn
  <2>2. ASSUME NEW u \in owed, Listening(u)'
        PROVE  Listening(u) /\ conn'[u] = conn[u] /\ ch'[u] = ch[u]
               /\ inbox'[conn[u].slot] = inbox[conn[u].slot]
    BY <1>0, <2>2, <1>13 DEF PublishLost, Listening, ConnRec, NoConn, PageRec, hubVars
  <2> QED
    BY <1>0, <2>1, <2>2, <1>13, OwedKept, TransitKept DEF PublishLost, roomVars, historyVars
<1>14. ASSUME NEW v \in Visitor, Deliver(v) PROVE OwedInv'
  <2>1. \A u \in owed : conn'[u].pc # "read"
    BY <1>0, <1>14 DEF Deliver
  <2>2. ASSUME NEW u \in owed, Listening(u)'
        PROVE  Listening(u) /\ (InTransit(u) => InTransit(u)')
    <3>1. CASE u # v
      <4>1. page'[u] = page[u] /\ ch'[u] = ch[u] /\ conn' = conn /\ inbox' = inbox
        BY <1>0, <3>1, <1>14 DEF Deliver, hubVars
      <4> QED
        BY <1>0, <2>2, <4>1, TransitKept DEF Listening
    <3>2. CASE u = v
      <4>1. page[v].es /\ conn' = conn /\ inbox' = inbox /\ ch'[v] = Tail(ch[v])
        BY <1>0, <1>14 DEF Deliver, hubVars
      <4>2. Head(ch[v]) # "admitted"
        BY <1>0, <2>2, <3>2, <1>14 DEF Deliver, Listening, Let, PageRec
      <4>3. ch[v] \in Seq(Msg) /\ ch[v] # <<>> /\ Head(ch[v]) = ch[v][1]
        BY <1>0, <1>14 DEF Deliver
      <4>4. \A i \in 1..Len(ch[v]) : ch[v][i] = "admitted" =>
              i - 1 \in 1..Len(Tail(ch[v])) /\ Tail(ch[v])[i - 1] = "admitted"
        BY <4>2, <4>3, Shortened
      <4> QED
        BY <2>2, <3>2, <4>1, <4>4 DEF InTransit, Listening
    <3> QED
      BY <3>1, <3>2
  <2> QED
    BY <2>1, <2>2, <1>14, OwedKept DEF Deliver, roomVars
<1>15. ASSUME NEW h \in Slot, StatusSend(h) PROVE OwedInv'
  <2>1. /\ UNCHANGED <<roomVars, historyVars>>
        /\ conn' = conn /\ page' = page /\ inbox' = inbox
    BY <1>15 DEF StatusSend
  <2>2. PICK v \in snap[h].who : ch' = Send({v}, snap[h].msg)
    BY <1>15 DEF StatusSend
  <2>3. ASSUME NEW u \in owed
        PROVE  InTransit(u) => InTransit(u)'
    <3>1. ch'[u] = ch[u] \/ (ch'[u] = Append(ch[u], snap[h].msg) /\ ch[u] \in Seq(Msg))
      BY <1>0, <2>2 DEF Send
    <3>2. snap[h].msg \in Msg
      BY DEF StreamTypeOK, Msg
    <3>3. \A i \in 1..Len(ch[u]) : i \in 1..Len(ch'[u]) /\ ch'[u][i] = ch[u][i]
      BY <3>1, <3>2, Appended
    <3> QED
      BY <2>1, <3>3 DEF InTransit
  <2> QED
    BY <1>0, <2>1, <2>3, OwedKept DEF roomVars, Listening
<1>16. ASSUME NEW s \in {"queue", "closed"}, PutRoom(s) PROVE OwedInv'
  <2> DEFINE ev == [msg |-> "refresh", who |-> Visitor]
  <2>1. /\ inbox' = Broadcast(ev) /\ admitted' = admitted /\ UNCHANGED historyVars
        /\ conn' = conn /\ page' = page /\ ch' = ch
    BY <1>16 DEF PutRoom
  <2>2. ASSUME NEW u \in owed, Listening(u)
        PROVE  InTransit(u) => InTransit(u)'
    <3>1. ev \in Event
      BY DEF Event
    <3>2. conn[u].slot \in Slot /\ inbox[conn[u].slot] \in Seq(Event)
      BY <1>0, <2>2 DEF Listening, HubInv
    <3> QED
      BY <2>1, <3>1, <3>2, BroadcastKeeps DEF InTransit
  <2> QED
    BY <1>0, <2>1, <2>2, OwedKept DEF Listening
<1>17. ASSUME NEW h \in Slot, PumpDispatch(h) PROVE OwedInv'
  <2> DEFINE ev == Head(inbox[h])
             hit == subs[h] \cap ev.who
  <2>1. /\ admitted' = admitted /\ conn' = conn /\ page' = page /\ owed' = owed
        /\ ch' = Send(hit, ev.msg)
        /\ inbox' = [inbox EXCEPT ![h] = Tail(inbox[h])]
        /\ dropped' = IF ev.msg = "admitted" THEN dropped \cup Full(hit) ELSE dropped
    BY <1>17 DEF PumpDispatch, roomVars
  <2>2. inbox[h] \in Seq(Event) /\ inbox[h] # <<>> /\ ev = inbox[h][1] /\ ev \in Event
    BY <1>0, <1>17, HeadTailProperties DEF PumpDispatch
  <2>3. ev.msg \in Msg
    BY <2>2 DEF Event, Msg
  <2>4. ASSUME NEW u \in owed \ dropped', Listening(u)
        PROVE  InTransit(u)'
    <3>1. u \in Visitor /\ InTransit(u) /\ conn[u].slot \in Slot /\ u \in subs[conn[u].slot]
      BY <1>0, <2>1, <2>4 DEF OwedInv, OwedInTransit, Listening, HubInv, OneLiveHub
    <3>2. ch[u] \in Seq(Msg)
      BY <1>0, <3>1
    <3>3. ch'[u] = IF u \in hit /\ Len(ch[u]) < Cap THEN Append(ch[u], ev.msg) ELSE ch[u]
      BY <2>1, <3>1 DEF Send
    <3>4. \A i \in 1..Len(ch[u]) : i \in 1..Len(ch'[u]) /\ ch'[u][i] = ch[u][i]
      BY <2>3, <3>2, <3>3, Appended
    <3>5. CASE \E i \in 1..Len(ch[u]) : ch[u][i] = "admitted"
      BY <3>4, <3>5 DEF InTransit
    <3>6. ASSUME NEW i \in 1..Len(inbox[conn[u].slot]),
                 inbox[conn[u].slot][i].msg = "admitted", u \in inbox[conn[u].slot][i].who
          PROVE  InTransit(u)'
      <4>1. CASE conn[u].slot # h
        BY <1>0, <2>1, <3>1, <3>6, <4>1 DEF InTransit
      <4>2. CASE conn[u].slot = h /\ i # 1
        <5>1. i - 1 \in 1..Len(Tail(inbox[h])) /\ Tail(inbox[h])[i - 1] = inbox[h][i]
          BY <2>2, <3>6, <4>2, Shortened
        <5> QED
          BY <1>0, <2>1, <3>6, <4>2, <5>1 DEF InTransit
      <4>3. CASE conn[u].slot = h /\ i = 1
        <5>1. u \in hit /\ ev.msg = "admitted"
          BY <2>2, <3>1, <3>6, <4>3
        <5>2. ~(Len(ch[u]) >= Cap)
          BY <2>1, <2>4, <5>1 DEF Full
        <5>3. ch'[u] = Append(ch[u], "admitted")
          BY <3>2, <3>3, <5>1, <5>2, StreamAssumption, LenProperties
        <5>4. Len(ch[u]) + 1 \in 1..Len(ch'[u]) /\ ch'[u][Len(ch[u]) + 1] = "admitted"
          BY <2>3, <3>2, <5>1, <5>3, Appended
        <5> QED
          BY <5>4 DEF InTransit
      <4> QED
        BY <4>1, <4>2, <4>3
    <3> QED
      BY <3>1, <3>5, <3>6 DEF InTransit
  <2> QED
    BY <1>0, <2>1, <2>4 DEF OwedInv, OwedInTransit, Listening
<1>18. CASE Publish
  <2> DEFINE ev == [msg |-> "admitted", who |-> unpublished]
             new == {v \in unpublished : /\ page[v].es /\ conn[v].pc = "subscribed"
                                         /\ pump[conn[v].slot] = "on"}
  <2>1. /\ inbox' = Broadcast(ev) /\ admitted' = admitted /\ dropped' = dropped
        /\ conn' = conn /\ page' = page /\ ch' = ch /\ owed' = owed \cup new
    BY <1>18 DEF Publish
  <2>2. ev \in Event /\ unpublished \subseteq admitted /\ admitted \subseteq Visitor
    BY DEF StreamTypeOK, Event
  <2>3. ASSUME NEW u \in owed, Listening(u), InTransit(u)
        PROVE  InTransit(u)'
    BY <1>0, <2>1, <2>2, <2>3, BroadcastKeeps DEF InTransit, Listening, HubInv
  <2>4. ASSUME NEW u \in new
        PROVE  InTransit(u)'
    <3>1. conn[u].slot \in Slot /\ pump[conn[u].slot] = "on" /\ u \in ev.who
      BY <2>2 DEF HubInv
    <3>2. inbox'[conn[u].slot] = Append(inbox[conn[u].slot], ev)
      BY <2>1, <3>1 DEF Broadcast
    <3>3. \E i \in 1..Len(inbox'[conn[u].slot]) : inbox'[conn[u].slot][i] = ev
      <4>1. inbox[conn[u].slot] \in Seq(Event) /\ ev \in Event
        BY <1>0, <2>2, <3>1
      <4> HIDE DEF ev
      <4> QED
        BY <3>2, <4>1, Appended
    <3> QED
      BY <2>1, <3>1, <3>3 DEF InTransit
  <2> QED
    BY <1>0, <2>1, <2>2, <2>3, <2>4 DEF OwedInv, OwedInTransit, Listening
<1>19. CASE UNCHANGED vars
  BY <1>19 DEF vars, roomVars, hubVars, historyVars, OwedInv, OwedInTransit, InTransit
<1> QED
  BY <1>1, <1>2, <1>3, <1>4, <1>5, <1>6, <1>7, <1>8, <1>9, <1>10, <1>11, <1>12, <1>13, <1>14, <1>15, <1>16, <1>17, <1>18, <1>19
  DEF Next, Page, Handler, Pump, StatusLoop

-----------------------------------------------------------------------------
(* The variables of the stream hold values of their types, and no channel  *)
(* more than its capacity (hub.go, send).                                  *)
THEOREM StreamTypesCorrect == Spec => []StreamTypeOK
<1>1. Init => StreamTypeOK
  BY StreamAssumption, EmptySeq
  DEF Init, StreamTypeOK, NoSnap, NoConn, NewPage, ConnRec, PageRec, Kinds
<1> QED
  BY <1>1, TypeStep, PTL DEF Spec

(* StreamInv is inductive. *)
LEMMA StreamInvCorrect == Spec => []StreamInv
<1>1. Init => StreamInv
  BY StreamAssumption
  DEF Init, StreamInv, HubInv, OneLiveHub, PageInv, OwedInv, OwedInTransit, NoConn, NewPage
<1>2. StreamTypeOK /\ StreamInv /\ [Next]_vars => StreamInv'
  BY HubStep, PageStep, OwedStep DEF StreamInv
<1> QED
  BY <1>1, <1>2, StreamTypesCorrect, PTL DEF Spec

(* hub.go, Subscribe and its unsubscription: however streams come and go,  *)
(* the subscribers share the one roomHub that is registered and alive.     *)
THEOREM HubIsOneAndAlive == Spec => []OneLiveHub
<1>1. StreamInv => OneLiveHub
  BY DEF StreamInv, HubInv
<1> QED
  BY <1>1, StreamInvCorrect, PTL

(* hub.go, pump: an admission published while a stream is set up is in the *)
(* pump or in the stream's channel until the page has it, or was dropped   *)
(* because the channel was full.                                           *)
THEOREM OwedStaysInTransit == Spec => []OwedInTransit
<1>1. StreamInv => OwedInTransit
  BY DEF StreamInv, OwedInv
<1> QED
  BY <1>1, StreamInvCorrect, PTL
=============================================================================
