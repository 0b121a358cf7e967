-------------------------------- MODULE Chat --------------------------------
(***************************************************************************)
(* One conversation of the chat.  A browser tab keeps the thread and the   *)
(* unread badge in React Query's cache and hears of changes over           *)
(* WebSockets: the corner widget holds one for as long as the app is open, *)
(* and the /messages page opens one of its own                             *)
(* (src/frontend/hooks/useChatSocket.ts, components/chat).  On the server  *)
(* every socket has a consumer that takes its frames in order, writes the  *)
(* database and puts an event in front of every open socket                *)
(* (src/backend/chat).  A tab whose socket is down posts instead.          *)
(*                                                                         *)
(* A message is named by the press of the send button that made it, which  *)
(* is also its client_id.  Texts are told apart as the first one, an       *)
(* edited one and none.                                                    *)
(***************************************************************************)
EXTENDS Integers, FiniteSets, Sequences

CONSTANTS Tabs,        \* browser tabs with the app open
          Owner,       \* whose tab it is
          Messages,    \* presses of the send button
          Author,      \* who presses it
          Sockets,     \* <<tab, "widget">> for every tab, <<tab, "page">> for some
          Changes,     \* what may be asked for each message, once: edit, delete
          Earlier,     \* what was said before the tabs were opened, oldest first
          PageSize,    \* how many messages the history endpoint answers at most
          MaxDrops,    \* bound on the sockets lost
          MaxMoves     \* bound, per tab, on opening, moving and leaving the chat

People == {Owner[t] : t \in Tabs}
NoTab == "no tab"
Nothing == "nothing"

ASSUME ChatAssumption ==
    /\ Owner \in [Tabs -> People] /\ Author \in [Messages -> People]
    /\ NoTab \notin Tabs /\ Nothing \notin Messages
    /\ Tabs \X {"widget"} \subseteq Sockets
    /\ Sockets \subseteq Tabs \X {"widget", "page"}
    /\ Earlier \in Seq(Messages)
    /\ \A i, j \in DOMAIN Earlier : Earlier[i] = Earlier[j] => i = j
    /\ Changes \in [Messages -> SUBSET {"edit", "delete"}] /\ PageSize \in Nat \ {0}
    /\ MaxDrops \in Nat /\ MaxMoves \in [Tabs -> Nat]

TabOf(s) == s[1]

VARIABLES view,      \* what the tab shows: "none", "widget", "list" or "page"
          loaded,    \* tabs whose thread is in the cache
          thread,    \* the cached rows of the thread
          history,   \* a tab's request for the history
          answer,    \* and the rows that answer it
          badge,     \* the unread count in a tab's cached conversation list
          up,        \* the sockets that are open
          line,      \* frames on their way from a socket to its consumer
          hand,      \* what a consumer is in the middle of
          inbox,     \* events on their way to a socket
          post,      \* how far the server is with a REST call that carries a message
          waiting,   \* messages whose REST call the tab still waits for
          from,      \* the tab a message was sent from
          changes,   \* edits and deletions asked for
          db,        \* the stored messages
          stored,    \* how many messages are stored
          drops,     \* sockets lost so far
          moves,     \* times the person at a tab opened, moved or left the chat
          told,      \* the newest version of a message announced
          crossed,   \* messages whose changes overlapped or were announced out of order
          gap,       \* tabs that may have missed an event since their last history
          stranded   \* messages that were being sent when the tab's socket was lost

tabVars == <<view, loaded, thread, history, answer, badge>>
serverVars == <<db, stored>>
wires == <<up, line, hand, inbox>>
calls == <<post, waiting>>
presses == <<from, changes>>
ghosts == <<told, crossed, gap, stranded>>
vars == <<tabVars, wires, calls, presses, serverVars, drops, moves, ghosts>>

Texts == {"first", "edited", "none"}
Quiet == "quiet"

Row(m, kind, text) == [m |-> m, kind |-> kind, text |-> text]
Event(type, m, text, ver) == [type |-> type, m |-> m, text |-> text, ver |-> ver]
Frame(do, m) == [do |-> do, m |-> m]
Idle == Event("idle", Nothing, "none", 0)

Has(rows, m) == \E i \in DOMAIN rows : rows[i].m = m /\ rows[i].kind = "message"

IsStored(m) == db[m].ver > 0

\* What message_to_dict says of a stored message: no body once it is deleted.
Body(m) == IF db[m].gone THEN "none" ELSE db[m].text

\* A message said before: its place, and a tab of the person who sent it.
Before(m) == \E i \in DOMAIN Earlier : Earlier[i] = m
PlaceBefore(m) == CHOOSE i \in DOMAIN Earlier : Earlier[i] = m
TabBefore(m) == CHOOSE t \in Tabs : Owner[t] = Author[m]

\* The stored messages that are not on the newest page, and those that are.
Older == IF stored > PageSize THEN stored - PageSize ELSE 0
Recent(m) == IsStored(m) /\ db[m].at > Older

\* The history endpoint: the newest page, oldest first.  The chat asks for no
\* other page.
Snapshot ==
    LET nth(i) == CHOOSE m \in Messages : db[m].at = Older + i
    IN  [i \in 1 .. stored - Older |-> Row(nth(i), "message", Body(nth(i)))]

Init ==
    /\ view = [t \in Tabs |-> "none"]
    /\ loaded = {}
    /\ thread = [t \in Tabs |-> <<>>]
    /\ history = [t \in Tabs |-> Quiet]
    /\ answer = [t \in Tabs |-> <<>>]
    /\ badge = [t \in Tabs |-> 0]
    /\ up = {}
    /\ line = [s \in Sockets |-> <<>>]
    /\ hand = [s \in Sockets |-> Idle]
    /\ inbox = [s \in Sockets |-> <<>>]
    /\ post = [m \in Messages |-> IF Before(m) THEN "answered" ELSE Quiet]
    /\ waiting = {}
    /\ from = [m \in Messages |-> IF Before(m) THEN TabBefore(m) ELSE NoTab]
    /\ changes = [m \in Messages |-> {}]
    /\ db = [m \in Messages |->
                IF Before(m)
                THEN [ver |-> 1, at |-> PlaceBefore(m), text |-> "first", gone |-> FALSE]
                ELSE [ver |-> 0, at |-> 0, text |-> "none", gone |-> FALSE]]
    /\ stored = Len(Earlier)
    /\ drops = 0 /\ moves = [t \in Tabs |-> 0]
    /\ told = [m \in Messages |-> IF Before(m) THEN 1 ELSE 0]
    /\ crossed = {} /\ gap = Tabs /\ stranded = {}

----------------------------------------------------------------------------
(* The person at a tab                                                     *)

Say(s, frame) ==
    line' = IF s \in up THEN [line EXCEPT ![s] = Append(@, frame)] ELSE line

Moves(t, here, there) ==
    /\ view[t] = here /\ moves[t] < MaxMoves[t]
    /\ view' = [view EXCEPT ![t] = there]
    /\ moves' = [moves EXCEPT ![t] = @ + 1]

\* Showing the thread asks for its history when it is not cached or is old.
Mounts(t) ==
    \/ /\ history[t] = Quiet
       /\ history' = [history EXCEPT ![t] = "asked"]
       /\ gap' = IF <<t, "widget">> \in up THEN gap \ {t} ELSE gap
    \/ /\ t \in loaded \/ history[t] # Quiet
       /\ UNCHANGED <<history, gap>>

\* markRead: the count in the list is set to zero.
MarksRead(t) == badge' = [badge EXCEPT ![t] = 0]

OpenWidget(t) ==
    /\ Moves(t, "none", "widget")
    /\ Mounts(t) /\ MarksRead(t)
    /\ UNCHANGED <<loaded, thread, answer, wires, calls, presses, serverVars, drops, told,
                   crossed, stranded>>

\* The page keeps the widget's conversation, opens a socket and marks nothing.
Expand(t) ==
    /\ <<t, "page">> \in Sockets
    /\ Moves(t, "widget", "page")
    /\ Mounts(t)
    /\ UNCHANGED <<loaded, thread, answer, badge, wires, calls, presses, serverVars, drops,
                   told, crossed, stranded>>

Browse(t) ==
    /\ <<t, "page">> \in Sockets
    /\ Moves(t, "none", "list")
    /\ UNCHANGED <<loaded, thread, history, answer, badge, wires, calls, presses,
                   serverVars, drops, ghosts>>

Pick(t) ==
    /\ Moves(t, "list", "page")
    /\ Mounts(t) /\ MarksRead(t)
    /\ UNCHANGED <<loaded, thread, answer, wires, calls, presses, serverVars, drops, told,
                   crossed, stranded>>

\* Messages that went out over a socket of the tab.
Sending(t) == {m \in Messages : from[m] = t /\ post[m] = Quiet}

\* Leaving the page closes its socket; what was sent on it still goes out.
Leave(t) ==
    LET page == <<t, "page">> IN
    /\ view[t] # "none" /\ Moves(t, view[t], "none")
    /\ IF page \in up
       THEN /\ up' = up \ {page}
            /\ inbox' = [inbox EXCEPT ![page] = <<>>]
            /\ gap' = IF inbox[page] = <<>> THEN gap ELSE gap \union {t}
            /\ stranded' = stranded \union Sending(t)
       ELSE UNCHANGED <<up, inbox, gap, stranded>>
    /\ UNCHANGED <<loaded, thread, history, answer, badge, line, hand, calls, presses,
                   serverVars, drops, told, crossed>>

\* sendMessage: a placeholder goes into the thread, and the text goes out over
\* the socket, or over REST when the socket is not open.
Send(s, m) ==
    LET t == TabOf(s) IN
    /\ view[t] = s[2]
    /\ from[m] = NoTab /\ Author[m] = Owner[t]
    /\ from' = [from EXCEPT ![m] = t]
    /\ thread' = IF t \in loaded
                 THEN [thread EXCEPT ![t] = Append(@, Row(m, "pending", "first"))]
                 ELSE thread
    /\ Say(s, Frame("send", m))
    /\ IF s \in up THEN UNCHANGED <<post, waiting>>
       ELSE post' = [post EXCEPT ![m] = "sent"] /\ waiting' = waiting \union {m}
    /\ UNCHANGED <<view, loaded, history, answer, badge, up, hand, inbox, changes,
                   serverVars, drops, moves, ghosts>>

\* Editing and deleting are offered on one's own messages that are not deleted,
\* and go over the socket only.
Change(s, m, do) ==
    LET t == TabOf(s) IN
    /\ view[t] = s[2] /\ s \in up /\ t \in loaded
    /\ Author[m] = Owner[t]
    /\ \E i \in DOMAIN thread[t] :
           thread[t][i].m = m /\ thread[t][i].kind = "message" /\ thread[t][i].text # "none"
    /\ do \in Changes[m] \ changes[m]
    /\ changes' = [changes EXCEPT ![m] = @ \union {do}]
    /\ Say(s, Frame(do, m))
    /\ UNCHANGED <<tabVars, up, hand, inbox, post, waiting, from, serverVars, drops, moves,
                   ghosts>>

----------------------------------------------------------------------------
(* The server                                                              *)

Create(m) ==
    /\ db' = [db EXCEPT ![m] = [ver |-> 1, at |-> stored + 1, text |-> "first", gone |-> FALSE]]
    /\ stored' = stored + 1

\* group_send: the event is put in front of every open socket.
Announce(event) ==
    /\ inbox' = [s \in Sockets |-> IF s \in up THEN Append(inbox[s], event) ELSE inbox[s]]
    /\ crossed' = IF event.ver < told[event.m] THEN crossed \union {event.m} ELSE crossed
    /\ told' = [told EXCEPT ![event.m] = IF event.ver > @ THEN event.ver ELSE @]

Takes(s) ==
    /\ hand[s] = Idle /\ line[s] # <<>>
    /\ line' = [line EXCEPT ![s] = Tail(@)]

\* _create_message
TakeSend(s) ==
    LET frame == Head(line[s]) IN
    /\ Takes(s) /\ frame.do = "send"
    /\ Create(frame.m)
    /\ hand' = [hand EXCEPT ![s] = Event("new", frame.m, "first", 1)]
    /\ UNCHANGED <<tabVars, up, inbox, calls, presses, drops, moves, ghosts>>

\* _edit_message and _delete_message look for a message that is not deleted ...
TakeChange(s) ==
    LET frame == Head(line[s]) IN
    /\ Takes(s) /\ frame.do \in {"edit", "delete"}
    /\ hand' = IF IsStored(frame.m) /\ ~db[frame.m].gone
               THEN [hand EXCEPT ![s] = Event(frame.do, frame.m, "none", db[frame.m].ver)]
               ELSE hand
    /\ UNCHANGED <<tabVars, up, inbox, calls, presses, serverVars, drops, moves, ghosts>>

\* mutant: a deletion empties the text and forgets the mark.
SaveForgets(s) ==
    LET m == hand[s].m
        saved(text, gone) ==
            [ver |-> db[m].ver + 1, at |-> db[m].at, text |-> text, gone |-> gone]
    IN
    /\ \/ /\ hand[s].type = "edit"
          /\ db' = [db EXCEPT ![m] = saved("edited", db[m].gone)]
          /\ hand' = [hand EXCEPT ![s] = Event("changed", m, "edited", db[m].ver + 1)]
       \/ /\ hand[s].type = "delete"
          /\ db' = [db EXCEPT ![m] = saved("none", db[m].gone)]
          /\ hand' = [hand EXCEPT ![s] = Event("changed", m, "none", db[m].ver + 1)]
    /\ crossed' = IF db[m].ver = hand[s].ver THEN crossed ELSE crossed \union {m}
    /\ UNCHANGED <<tabVars, up, line, inbox, calls, presses, stored, drops, moves, told,
                   gap, stranded>>

\* ... and then save the columns they change.
Save(s) ==
    LET m == hand[s].m
        saved(text, gone) ==
            [ver |-> db[m].ver + 1, at |-> db[m].at, text |-> text, gone |-> gone]
    IN
    /\ \/ /\ hand[s].type = "edit"
          /\ db' = [db EXCEPT ![m] = saved("edited", db[m].gone)]
          /\ hand' = [hand EXCEPT ![s] = Event("changed", m, "edited", db[m].ver + 1)]
       \/ /\ hand[s].type = "delete"
          /\ db' = [db EXCEPT ![m] = saved("none", TRUE)]
          /\ hand' = [hand EXCEPT ![s] = Event("changed", m, "none", db[m].ver + 1)]
    /\ crossed' = IF db[m].ver = hand[s].ver THEN crossed ELSE crossed \union {m}
    /\ UNCHANGED <<tabVars, up, line, inbox, calls, presses, stored, drops, moves, told,
                   gap, stranded>>

Tell(s) ==
    /\ hand[s].type \in {"new", "changed"}
    /\ Announce(hand[s])
    /\ hand' = [hand EXCEPT ![s] = Idle]
    /\ UNCHANGED <<tabVars, up, line, calls, presses, serverVars, drops, moves, gap,
                   stranded>>

\* _post_message: the row, then its announcement, then the answer.
PostStore(m) ==
    /\ post[m] = "sent"
    /\ Create(m)
    /\ post' = [post EXCEPT ![m] = "stored"]
    /\ UNCHANGED <<tabVars, wires, waiting, presses, drops, moves, ghosts>>

PostAnnounce(m) ==
    /\ post[m] = "stored"
    /\ Announce(Event("new", m, "first", 1))
    /\ post' = [post EXCEPT ![m] = "answered"]
    /\ UNCHANGED <<tabVars, up, line, hand, waiting, presses, serverVars, drops, moves, gap,
                   stranded>>

----------------------------------------------------------------------------
(* The cache                                                               *)

\* The thread without the placeholders of m, in the order it has.
Staying(rows, m) == {i \in DOMAIN rows : rows[i].m # m \/ rows[i].kind = "message"}
Place(stay, i) == Cardinality({j \in stay : j <= i})
Nth(stay, n) == CHOOSE i \in stay : Place(stay, i) = n
Dropped(rows, m) ==
    LET stay == Staying(rows, m)
    IN  [n \in 1 .. Cardinality(stay) |-> rows[Nth(stay, n)]]

\* mutant: the echo is not looked for in the thread.
MergeTwice(rows, event) ==
    Append(Dropped(rows, event.m), Row(event.m, "message", event.text))

\* applyIncoming: a new message takes the place of its placeholder unless the
\* thread has it already; a changed one replaces the message it changes.
Merge(rows, event) ==
    CASE event.type = "new" /\ Has(rows, event.m) -> rows
      [] event.type = "new" /\ ~Has(rows, event.m) ->
             Append(Dropped(rows, event.m), Row(event.m, "message", event.text))
      [] OTHER -> [i \in DOMAIN rows |->
                      IF rows[i].m = event.m /\ rows[i].kind = "message"
                      THEN Row(event.m, "message", event.text) ELSE rows[i]]

\* The conversation the socket's surface has on the screen.
Active(s) == view[TabOf(s)] = s[2]

\* A socket's events reach the tab in order, and every one goes to the cache.
Deliver(s) ==
    LET t == TabOf(s)
        event == Head(inbox[s])
        counted == event.type = "new" /\ Author[event.m] # Owner[t] /\ ~Active(s)
    IN
    /\ s \in up /\ inbox[s] # <<>>
    /\ inbox' = [inbox EXCEPT ![s] = Tail(@)]
    /\ thread' = IF t \in loaded THEN [thread EXCEPT ![t] = Merge(@, event)] ELSE thread
    /\ badge' = IF counted THEN [badge EXCEPT ![t] = @ + 1] ELSE badge
    /\ gap' = IF history[t] # Quiet THEN gap \union {t} ELSE gap
    /\ UNCHANGED <<view, loaded, history, answer, up, line, hand, calls, presses,
                   serverVars, drops, moves, told, crossed, stranded>>

HistoryAnswers(t) ==
    /\ history[t] = "asked"
    /\ history' = [history EXCEPT ![t] = "answered"]
    /\ answer' = [answer EXCEPT ![t] = Snapshot]
    /\ UNCHANGED <<view, loaded, thread, badge, wires, calls, presses, serverVars, drops,
                   moves, ghosts>>

\* mutant: a thread that is cached already is not replaced.
HistoryOnce(t) ==
    /\ \/ /\ history[t] = "answered"
          /\ thread' = IF t \in loaded THEN thread ELSE [thread EXCEPT ![t] = answer[t]]
          /\ loaded' = loaded \union {t}
          /\ UNCHANGED gap
       \/ /\ history[t] = "asked"
          /\ gap' = gap \union {t}
          /\ UNCHANGED <<thread, loaded>>
    /\ history' = [history EXCEPT ![t] = Quiet]
    /\ answer' = [answer EXCEPT ![t] = <<>>]
    /\ UNCHANGED <<view, badge, wires, calls, presses, serverVars, drops, moves, told,
                   crossed, stranded>>

\* The answer takes the place of the whole cached thread, or the call fails.
HistoryArrives(t) ==
    /\ \/ /\ history[t] = "answered"
          /\ thread' = [thread EXCEPT ![t] = answer[t]]
          /\ loaded' = loaded \union {t}
          /\ UNCHANGED gap
       \/ /\ history[t] = "asked"
          /\ gap' = gap \union {t}
          /\ UNCHANGED <<thread, loaded>>
    /\ history' = [history EXCEPT ![t] = Quiet]
    /\ answer' = [answer EXCEPT ![t] = <<>>]
    /\ UNCHANGED <<view, badge, wires, calls, presses, serverVars, drops, moves, told,
                   crossed, stranded>>

\* settleOptimistic: the placeholder becomes the message, or goes when the
\* message is there already, or is marked as not sent.
Settled(rows, m, ok) ==
    IF ~ok
    THEN [i \in DOMAIN rows |-> IF rows[i].m = m /\ rows[i].kind = "pending"
                                THEN Row(m, "failed", "first") ELSE rows[i]]
    ELSE IF Has(rows, m) THEN Dropped(rows, m)
    ELSE [i \in DOMAIN rows |-> IF rows[i].m = m THEN Row(m, "message", "first") ELSE rows[i]]

PostSettles(m) ==
    LET t == from[m] IN
    /\ post[m] = "answered" /\ m \in waiting
    /\ waiting' = waiting \ {m}
    /\ thread' = IF t \in loaded THEN [thread EXCEPT ![t] = Settled(@, m, TRUE)] ELSE thread
    /\ UNCHANGED <<view, loaded, history, answer, badge, wires, post, from, changes,
                   serverVars, drops, moves, ghosts>>

\* mutant: nobody hears that the call failed.
PostFailsQuietly(m) ==
    LET t == from[m] IN
    /\ m \in waiting /\ waiting' = waiting \ {m}
    /\ \/ /\ post[m] \in {"sent", "stored"}
          /\ post' = [post EXCEPT ![m] = "answered"]
          /\ gap' = IF post[m] = "stored" THEN Tabs ELSE gap
       \/ UNCHANGED <<post, gap>>
    /\ UNCHANGED thread
    /\ UNCHANGED <<view, loaded, history, answer, badge, wires, presses, serverVars, drops,
                   moves, told, crossed, stranded>>

\* The call is refused or breaks off: the server may stop where it is or go on.
PostFails(m) ==
    LET t == from[m] IN
    /\ m \in waiting /\ waiting' = waiting \ {m}
    /\ \/ /\ post[m] \in {"sent", "stored"}
          /\ post' = [post EXCEPT ![m] = "answered"]
          /\ gap' = IF post[m] = "stored" THEN Tabs ELSE gap
       \/ UNCHANGED <<post, gap>>
    /\ thread' = IF t \in loaded THEN [thread EXCEPT ![t] = Settled(@, m, FALSE)] ELSE thread
    /\ UNCHANGED <<view, loaded, history, answer, badge, wires, presses, serverVars, drops,
                   moves, told, crossed, stranded>>

----------------------------------------------------------------------------
(* The network                                                             *)

\* A socket is lost with what was on its way to the tab and the last of what
\* was on its way to the server.
Drop(s) ==
    LET t == TabOf(s) IN
    /\ s \in up
    /\ drops < MaxDrops /\ drops' = drops + 1
    /\ up' = up \ {s}
    /\ inbox' = [inbox EXCEPT ![s] = <<>>]
    /\ \E n \in 0 .. Len(line[s]) : line' = [line EXCEPT ![s] = SubSeq(@, 1, n)]
    /\ gap' = gap \union {t}
    /\ stranded' = stranded \union Sending(t)
    /\ UNCHANGED <<tabVars, hand, calls, presses, serverVars, moves, told, crossed>>

\* A ticket is fetched and the socket opens, at first or after a back-off.
Connect(s) ==
    /\ s \notin up
    /\ s[2] = "page" => view[TabOf(s)] \in {"list", "page"}
    /\ up' = up \union {s}
    /\ UNCHANGED <<tabVars, line, hand, inbox, calls, presses, serverVars, drops, moves,
                   ghosts>>

At(s) ==
    \/ \E m \in Messages : Send(s, m) \/ Change(s, m, "edit") \/ Change(s, m, "delete")
    \/ TakeSend(s) \/ TakeChange(s) \/ Save(s) \/ Tell(s)
    \/ Deliver(s) \/ Drop(s) \/ Connect(s)

On(t) ==
    \/ OpenWidget(t) \/ Expand(t) \/ Browse(t) \/ Pick(t) \/ Leave(t)
    \/ HistoryAnswers(t) \/ HistoryArrives(t)

Next ==
    \/ \E s \in Sockets : At(s)
    \/ \E t \in Tabs : On(t)
    \/ \E m \in Messages : PostStore(m) \/ PostAnnounce(m) \/ PostSettles(m) \/ PostFails(m)

Spec == Init /\ [][Next]_vars

----------------------------------------------------------------------------
(* Properties                                                              *)

Rows == [m : Messages, kind : {"pending", "failed", "message"}, text : Texts]
Frames == [do : {"send", "edit", "delete"}, m : Messages]
Events == [type : {"new", "changed"}, m : Messages, text : Texts, ver : Nat]
Jobs == [type : {"edit", "delete", "new", "changed"}, m : Messages, text : Texts, ver : Nat]
Records == [ver : Nat, at : Nat, text : Texts, gone : BOOLEAN]

TypeOK ==
    /\ view \in [Tabs -> {"none", "widget", "list", "page"}]
    /\ loaded \subseteq Tabs
    /\ thread \in [Tabs -> Seq(Rows)] /\ answer \in [Tabs -> Seq(Rows)]
    /\ history \in [Tabs -> {Quiet, "asked", "answered"}]
    /\ badge \in [Tabs -> Nat]
    /\ up \subseteq Sockets
    /\ line \in [Sockets -> Seq(Frames)] /\ inbox \in [Sockets -> Seq(Events)]
    /\ hand \in [Sockets -> Jobs \cup {Idle}]
    /\ post \in [Messages -> {Quiet, "sent", "stored", "answered"}]
    /\ waiting \subseteq Messages
    /\ from \in [Messages -> Tabs \cup {NoTab}]
    /\ changes \in [Messages -> SUBSET {"edit", "delete"}]
    /\ db \in [Messages -> Records] /\ stored \in Nat
    /\ drops \in 0 .. MaxDrops
    /\ moves \in [Tabs -> Nat] /\ \A t \in Tabs : moves[t] <= MaxMoves[t]
    /\ told \in [Messages -> Nat]
    /\ crossed \subseteq Messages /\ gap \subseteq Tabs /\ stranded \subseteq Messages

\* A message is never on the screen twice, neither with its placeholder nor as
\* two messages, whichever of the echo, the answer of the REST call and the
\* history comes first (useChatSocket.ts, applyIncoming and settleOptimistic).
NoDouble ==
    \A t \in Tabs : \A i, j \in DOMAIN thread[t] :
        thread[t][i].m = thread[t][j].m => i = j

\* What carries the message of a placeholder towards its tab.
Carried(t, m) ==
    \/ \E s \in Sockets :
          \/ \E i \in DOMAIN line[s] : line[s][i] = Frame("send", m)
          \/ hand[s].type = "new" /\ hand[s].m = m
          \/ TabOf(s) = t /\ \E i \in DOMAIN inbox[s] :
                                inbox[s][i].type = "new" /\ inbox[s][i].m = m
    \/ m \in waiting

\* A message says "sending" only while something is on its way that will settle
\* it, unless the socket it was sent on has been lost: the REST call is there
\* "rather than leaving the message stuck" (useChatSocket.ts, sendMessage).
SendingIsCarried ==
    \A t \in Tabs : \A i \in DOMAIN thread[t] :
        LET row == thread[t][i] IN
        row.kind = "pending" /\ row.m \notin stranded => Carried(t, row.m)

\* Nothing about the message is under way.
Settles(m) ==
    /\ \A s \in Sockets :
          /\ hand[s].m # m
          /\ \A i \in DOMAIN inbox[s] : inbox[s][i].m # m
    /\ post[m] \notin {"sent", "stored"} /\ m \notin waiting

\* A thread that missed no event since its history was asked for has at least
\* the newest page of what is stored, and shows every message it has in the
\* version that is stored, provided the message's versions were announced in the
\* order they were saved.  Older messages may be missing: the history endpoint
\* answers one page (viewsets.py, HISTORY_PAGE_SIZE) and the chat asks once.
ThreadAgrees ==
    \A t \in loaded \ gap, m \in Messages \ crossed :
        history[t] = Quiet /\ Settles(m) =>
            /\ Has(thread[t], m) => IsStored(m)
            /\ Recent(m) => Has(thread[t], m)
            /\ \A i \in DOMAIN thread[t] :
                  thread[t][i] = Row(m, "message", thread[t][i].text)
                      => thread[t][i].text = Body(m)

----------------------------------------------------------------------------
(* What the stored messages are to the people who read them                *)

Said == [i \in 1 .. stored |-> CHOOSE m \in Messages : db[m].at = i]
Says == [m \in Messages |-> IF IsStored(m) THEN Body(m) ELSE "unsaid"]

Conversed == INSTANCE Conversation WITH log <- Said, text <- Says

\* Whichever of socket and REST a message comes by, and however edits and deletions
\* of one message overlap, it is said once, keeps its place, and a message that was
\* deleted is never read again, not even by an edit that looked for it before the
\* deletion was saved (consumers.py, _edit_message and _delete_message;
\* services.py, message_to_dict).
ImplementsConversation == Conversed!Spec
=============================================================================
