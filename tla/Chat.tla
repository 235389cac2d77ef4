-------------------------------- MODULE Chat --------------------------------
(***************************************************************************)
(* One conversation as its user sees it: the chat window, the unread badge *)
(* in the friend list, the number on the tray icon and the notifications,  *)
(* over the rows of the local database (client/main.py, client/core/       *)
(* messaging.py, client/core/notification_manager.py,                      *)
(* client/storage/repositories.py, client/ui/windows/chat_window.py).      *)
(*                                                                         *)
(* Handlers run to their next await; ensure_future leaves the rest for a   *)
(* later turn of the event loop, when the window may be another one.       *)
(* Messaging has how messages travel: here they arrive and are sent.       *)
(***************************************************************************)
EXTENDS Naturals, FiniteSets, SequencesExt

CONSTANTS
  Incoming,             \* the friend's messages
  Outgoing,             \* the user's own
  Limit,                \* rows that a window loads, 50 in the code
  MaxArrivals,          \* bound: arrivals of messages, repeated ones too
  MaxSelects,           \* bound: times the user selects the friend
  MaxRings,             \* bound: calls announced
  MaxRestarts           \* bound: times the program is started again

ASSUME SendersAssumption == Incoming \cap Outgoing = {}
ASSUME LimitAssumption == Limit \in Nat \ {0}
ASSUME BoundsAssumption == {MaxArrivals, MaxSelects, MaxRings, MaxRestarts} \subseteq Nat

VARIABLES
  rows,                 \* the conversation, in the order of the timestamps
  read,                 \* the friend's messages that are marked read
  window,               \* ChatWindow: "none", "open" or "closing" (fading out)
  bubbles,              \* what the window shows
  badge,                \* the number on the friend's entry in the list
  tray,                 \* the number on the tray icon
  marks,                \* coroutines of mark_conversation_read yet to run
  sending,              \* _send_chat_message, and whether its window is still there
  group,                \* notifications counted in _recent, 0 when it is too old
  shown,                \* the friend's messages that were in a window
  buried,               \* those left out of a window that loaded the newest rows
  late,                 \* those that arrived between a window and its marks
  strayed,              \* own messages added to a window that was closed
  wiped,                \* the rows were deleted under the window
  stale,                \* nothing was counted since a deletion or the start
  lost,                 \* the badge went with a list that was drawn again
  padded,               \* group counts calls, or messages read or deleted since
  used                  \* how much of each bound is used

store    == <<rows, read>>
screen   == <<window, bubbles>>
counts   == <<badge, tray, stale, lost>>
notices  == <<group, padded>>
record   == <<shown, buried, late, strayed, wiped>>
chatVars == <<store, screen, counts, marks, sending, notices, record, used>>

Bounds == {"arrivals", "selects", "rings", "restarts"}
Most   == [arrivals |-> MaxArrivals, selects |-> MaxSelects, rings |-> MaxRings,
           restarts |-> MaxRestarts]
Use(b) == used[b] < Most[b] /\ used' = [used EXCEPT ![b] = @ + 1]

Received  == ToSet(rows) \cap Incoming
Unread    == Cardinality(Received \ read)
Newest    == SubSeq(rows, IF Len(rows) > Limit THEN Len(rows) - Limit + 1 ELSE 1, Len(rows))
IsVisible == window # "none"

\* The row of m is saved, with a timestamp that may come before others; the
\* friend's rows are marked read; all of them are deleted.
SaveRow(m) == \E i \in 1 .. Len(rows) + 1 : rows' = InsertAt(rows, i, m)
MarkRead   == read' = Received
DeleteRows == rows' = <<>> /\ read' = {}

ChatTypeOK ==
  /\ rows \in Seq(Incoming \cup Outgoing) /\ IsInjective(rows)
  /\ read \subseteq Received
  /\ window \in {"none", "open", "closing"}
  /\ bubbles \in Seq(Incoming \cup Outgoing) /\ (bubbles # <<>> => IsVisible)
  /\ badge \in Nat /\ tray \in Nat /\ marks \in Nat /\ group \in Nat
  /\ sending \in [Outgoing -> {"unsent", "queued", "here", "gone", "over"}]
  /\ \A m \in Outgoing : sending[m] = "here" => IsVisible
  /\ shown \subseteq Incoming /\ buried \subseteq Incoming /\ late \subseteq Incoming
  /\ strayed \subseteq Outgoing
  /\ wiped \in BOOLEAN /\ stale \in BOOLEAN /\ lost \in BOOLEAN /\ padded \in BOOLEAN
  /\ used \in [Bounds -> Nat] /\ \A b \in Bounds : used[b] <= Most[b]

ChatInit ==
  /\ rows = <<>> /\ read = {}
  /\ window = "none" /\ bubbles = <<>> /\ badge = 0 /\ tray = 0
  /\ marks = 0 /\ sending = [m \in Outgoing |-> "unsent"] /\ group = 0
  /\ shown = {} /\ buried = {} /\ late = {} /\ strayed = {}
  /\ wiped = FALSE /\ stale = FALSE /\ lost = FALSE /\ padded = FALSE
  /\ used = [b \in Bounds |-> 0]

-----------------------------------------------------------------------------
(* The window *)

\* A plausible bug: the bubbles that are there stay.
SetHistoryAgain ==
  /\ bubbles' = bubbles \o Newest
  /\ shown' = shown \cup (ToSet(Newest) \cap Incoming)
  /\ buried' = buried \cup (Received \ ToSet(Newest))
  /\ strayed' = {} /\ wiped' = FALSE

\* set_history: the bubbles are made anew from the newest rows.
SetHistory ==
  /\ bubbles' = Newest
  /\ shown' = shown \cup (ToSet(Newest) \cap Incoming)
  /\ buried' = buried \cup (Received \ ToSet(Newest))
  /\ strayed' = {} /\ wiped' = FALSE

\* _on_friend_selected: an open window is loaded again, also one that is fading
\* out, which no show() stops; the marks are left to a coroutine.
SelectFriend ==
  /\ Use("selects")
  /\ window' = IF window = "closing" THEN "closing" ELSE "open"
  /\ SetHistory
  /\ badge' = 0 /\ lost' = FALSE
  /\ marks' = marks + 1
  /\ UNCHANGED <<store, tray, stale, sending, notices, late>>

\* closeEvent only starts the animation; the window stays visible for 200 ms.
AnimateClose ==
  /\ window = "open"
  /\ window' = "closing"
  /\ UNCHANGED <<store, bubbles, counts, marks, sending, notices, record, used>>

\* The second closeEvent emits window_closed.  Whoever still has the window
\* draws on one that nobody sees.
Closed ==
  /\ window = "closing"
  /\ window' = "none" /\ bubbles' = <<>> /\ wiped' = FALSE /\ strayed' = {}
  /\ sending' = [m \in Outgoing |-> IF sending[m] = "here" THEN "gone" ELSE sending[m]]
  /\ UNCHANGED <<store, counts, marks, notices, shown, buried, late, used>>

-----------------------------------------------------------------------------
(* The user's own messages *)

Submit(m) ==
  /\ IsVisible /\ sending[m] = "unsent"
  /\ sending' = [sending EXCEPT ![m] = "queued"]
  /\ UNCHANGED <<store, screen, counts, marks, notices, record, used>>

\* _send_chat_message takes the window before it awaits send_message.
BeginSend(m) ==
  /\ sending[m] = "queued"
  /\ sending' = [sending EXCEPT ![m] = IF IsVisible THEN "here" ELSE "gone"]
  /\ UNCHANGED <<store, screen, counts, marks, notices, record, used>>

\* send_message saves the row, with a timestamp from before its waits, and
\* returns it in the same step.
EndSend(m) ==
  /\ sending[m] \in {"here", "gone"}
  /\ sending' = [sending EXCEPT ![m] = "over"]
  /\ SaveRow(m)
  /\ bubbles' = IF sending[m] = "here" THEN Append(bubbles, m) ELSE bubbles
  /\ strayed' = IF sending[m] = "gone" /\ IsVisible THEN strayed \cup {m} ELSE strayed
  /\ UNCHANGED <<read, window, counts, marks, notices, shown, buried, late, wiped, used>>

\* No connection: nothing is saved, and nothing but an error is shown.
FailSend(m) ==
  /\ sending[m] \in {"here", "gone"}
  /\ sending' = [sending EXCEPT ![m] = "over"]
  /\ UNCHANGED <<store, screen, counts, marks, notices, record, used>>

-----------------------------------------------------------------------------
(* The friend's messages *)

\* A plausible bug: a message is stored again when it is resent.
IsNewAnyway(m) == m \notin read

IsNew(m) == m \notin Received

\* _group counts what comes within five seconds of the last; the user may have
\* switched a type of notification off.
Notify(isMessage) ==
  \/ UNCHANGED notices
  \/ /\ group' = group + 1
     /\ padded' = (padded \/ ~isMessage)

GroupExpires ==
  /\ group > 0
  /\ group' = 0 /\ padded' = FALSE
  /\ UNCHANGED <<store, screen, counts, marks, sending, record, used>>

\* _update_tray_unread counts rows, so the tray is right again.
UpdateTrayUnread == tray' = Unread' /\ stale' = FALSE

\* What _on_message_received does with a message, with and without a window.
ShowMessage(m) ==
  /\ IsVisible
  /\ bubbles' = Append(bubbles, m) /\ shown' = shown \cup {m}
  /\ marks' = marks + 1 /\ badge' = 0
  /\ UNCHANGED <<notices, late>>

\* A plausible bug: what nobody was shown is marked as read.
CountMessageRead(m) ==
  /\ ~IsVisible
  /\ badge' = Unread' /\ Notify(TRUE) /\ marks' = marks + 1
  /\ UNCHANGED <<bubbles, shown, late>>

CountMessage(m) ==
  /\ ~IsVisible
  /\ badge' = Unread' /\ Notify(TRUE)
  /\ late' = IF marks > 0 THEN late \cup {m} ELSE late
  /\ UNCHANGED <<bubbles, shown, marks>>

\* _handle_message saves the row and emits message_received in one step.  The
\* timestamp is the friend's: the row may come before others.
HandleMessage(m) ==
  /\ Use("arrivals")
  /\ IsNew(m)
  /\ SaveRow(m)
  /\ read' = read
  /\ UpdateTrayUnread /\ lost' = FALSE
  /\ ShowMessage(m) \/ CountMessage(m)
  /\ UNCHANGED <<window, sending, buried, strayed, wiped>>

\* A plausible bug: the badge is cleared and the tray icon forgotten.
ConversationReadInList == badge' = 0 /\ lost' = FALSE /\ UNCHANGED <<tray, stale>>

\* _on_conversation_read.
ConversationRead == badge' = 0 /\ lost' = FALSE /\ UpdateTrayUnread

\* mark_conversation_read marks whatever is unread when it runs.
MarkConversationRead ==
  /\ marks > 0
  /\ marks' = marks - 1
  /\ MarkRead
  /\ rows' = rows
  /\ IF Unread > 0
     THEN ConversationRead /\ padded' = (padded \/ group > 0)
     ELSE UNCHANGED <<counts, padded>>
  /\ UNCHANGED <<screen, sending, group, record, used>>

-----------------------------------------------------------------------------
(* The rest of the program *)

\* delete_conversation deletes rows and tells nobody.
DeleteConversation ==
  /\ rows # <<>>
  /\ DeleteRows
  /\ wiped' = IsVisible
  /\ stale' = (stale \/ Unread > 0)
  /\ padded' = (padded \/ group > 0)
  /\ shown' = {} /\ buried' = {} /\ late' = {}
  /\ UNCHANGED <<screen, badge, tray, lost, marks, sending, group, strayed, used>>

\* _render_friends makes new entries for the list, without the badges.
RenderFriends ==
  /\ badge > 0
  /\ badge' = 0 /\ lost' = TRUE
  /\ UNCHANGED <<store, screen, tray, stale, marks, sending, notices, record, used>>

\* A call of the friend goes through the same _group.
OnCallIncoming ==
  /\ Use("rings")
  /\ Notify(FALSE)
  /\ UNCHANGED <<store, screen, counts, marks, sending, record>>

\* The program ends, and the rows are what the next start finds.
Restart ==
  /\ Use("restarts")
  /\ window' = "none" /\ bubbles' = <<>> /\ badge' = 0 /\ tray' = 0
  /\ marks' = 0 /\ group' = 0 /\ padded' = FALSE
  /\ sending' = [m \in Outgoing |-> IF sending[m] = "unsent" THEN "unsent" ELSE "over"]
  /\ strayed' = {} /\ wiped' = FALSE /\ stale' = (Unread > 0) /\ lost' = FALSE
  /\ UNCHANGED <<store, shown, buried, late>>

ChatNext ==
  \/ SelectFriend \/ AnimateClose \/ Closed
  \/ \E m \in Outgoing : Submit(m) \/ BeginSend(m) \/ EndSend(m) \/ FailSend(m)
  \/ \E m \in Incoming : HandleMessage(m)
  \/ MarkConversationRead \/ GroupExpires
  \/ DeleteConversation \/ RenderFriends \/ OnCallIncoming \/ Restart

ChatSpec == ChatInit /\ [][ChatNext]_chatVars

-----------------------------------------------------------------------------
(* Properties *)

\* Whatever is sent, received and selected meanwhile, an open window has each
\* row once and the newest Limit of them all; only a message whose window was
\* closed while it was sent is missing, until the friend is selected again.
BubblesAreRows ==
  IsVisible /\ ~wiped =>
    /\ IsInjective(bubbles) /\ ToSet(bubbles) \subseteq ToSet(rows)
    /\ ToSet(Newest) \ strayed \subseteq ToSet(bubbles)

\* The three numbers agree with the database once the marks are made: the tray
\* icon, the badge unless the list was drawn again, and a grouped notification,
\* which announces no more messages than are unread unless it counted others.
CountsAgree ==
  /\ marks = 0 /\ ~stale => tray = Unread /\ (~lost => badge = Unread)
  /\ ~padded => group <= Unread

\* The friend is told "read" of what the user was shown, except for what the
\* window left out and what came after it; and what a window shows gets read.
ReadIsShown ==
  /\ read \subseteq shown \cup buried \cup late
  /\ IsVisible /\ marks = 0 => Received \subseteq read

=============================================================================
