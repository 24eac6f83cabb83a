--------------------------------- MODULE Chats ---------------------------------
(***************************************************************************)
(* The chats of the desktop client's page: useChats (hooks/useChats.ts)    *)
(* keeps them in React state and in localStorage, App.tsx ties them to the *)
(* page that is shown, and handleSendMessage of ChatInterface.tsx takes a  *)
(* turn: it shows the question, awaits a token and then the reply, and     *)
(* shows that, with the chat and the handlers of the render it began in.   *)
(* SettingsPage.tsx writes localStorage behind useChats and reloads.       *)
(*                                                                         *)
(* A step is one event of the page, with the rendering and the effects it  *)
(* sets off; the user may do anything while a turn awaits.  Titles and the *)
(* credit count are left out.  A message is given by its role, the turn it *)
(* is of, the turn that first asked its question and whether it was edited.*)
(***************************************************************************)
EXTENDS Naturals, Sequences, SequencesExt, FiniteSets

CONSTANTS
  Turns,       \* invocations of handleSendMessage
  MaxChats,    \* bound: how many chats are ever made
  MaxChanges,  \* bound: how many messages the user edits or deletes, how often
               \* chats are imported or cleared
  MaxLoads     \* bound: how often the page is loaded

ASSUME BoundsAssumption == MaxChats \in Nat \ {0} /\ MaxChanges \in Nat /\ MaxLoads \in Nat \ {0}

VARIABLES
  chats,       \* the chats, newest first: [id, messages]
  activeChat,  \* the id of the chat that is shown, or 0
  saved,       \* localStorage
  shown,       \* whether the page shows the chat interface
  isLoading,   \* the interface's state: whether its input is disabled
  at,          \* where each turn is
  own,         \* the turns of the interface that is shown
  home,        \* the activeChat a turn has in its closure
  past,        \* the messages of the chat it has there
  made,        \* how many chats were made
  changes, loads,  \* how many changes were made, and pages loaded
  unloading,   \* whether the page has asked to be reloaded, and runs still
  imported,    \* history: the chats imported, and not deleted since
  late,        \* history: whether such a page has saved its chats
  removed,     \* history: messages the user has deleted, cleared or had replaced, and
               \* replies to chats he had deleted
  edited,      \* history: messages the user has edited
  reset        \* history: whether a page was left without chats

chatVars == <<chats, activeChat, saved>>
turnVars == <<at, own, home, past>>
pastVars == <<made, changes, loads, unloading, imported, late, removed, edited, reset>>
vars == <<chats, activeChat, saved, shown, isLoading, at, own, home, past, made,
          changes, loads, unloading, imported, late, removed, edited, reset>>

InFlight == {"token", "reply"}
Ids == 1..MaxChats
Message == [role : {"user", "assistant"}, turn : Turns, first : Turns, edited : BOOLEAN]

Question(t, f) == [role |-> "user", turn |-> t, first |-> f, edited |-> FALSE]
Reply(t) == [role |-> "assistant", turn |-> t, first |-> t, edited |-> FALSE]
Name(m) == [role |-> m.role, turn |-> m.turn]
NamesIn(msgs) == {Name(msgs[i]) : i \in 1..Len(msgs)}

WithId(cs, c) == {i \in 1..Len(cs) : cs[i].id = c}
HasChat(c) == WithId(chats, c) # {}
Position(c) == CHOOSE i \in WithId(chats, c) : TRUE
MessagesOf(c) == chats[Position(c)].messages
SampleChat == [id |-> 1, messages |-> <<>>]

Init ==
  /\ chats = <<SampleChat>> /\ saved = chats
  /\ activeChat = 1
  /\ shown = TRUE /\ isLoading = FALSE
  /\ at = [t \in Turns |-> "idle"]
  /\ own = {}
  /\ home = [t \in Turns |-> 0]
  /\ past = [t \in Turns |-> <<>>]
  /\ made = 1 /\ changes = 0 /\ loads = 1
  /\ unloading = FALSE /\ imported = {} /\ late = FALSE
  /\ removed = {} /\ edited = {} /\ reset = FALSE

-------------------------------------------------------------------------------
(* useChats.                                                               *)

(* The chats cs with the messages of chat c as given.                      *)
Put(cs, c, msgs) ==
  [i \in 1..Len(cs) |-> IF cs[i].id = c THEN [cs[i] EXCEPT !.messages = msgs] ELSE cs[i]]

AddMessage(cs, c, m) ==
  [i \in 1..Len(cs) |-> IF cs[i].id = c
                        THEN [cs[i] EXCEPT !.messages = Append(@, m)] ELSE cs[i]]

(* Seeded fault: only a new or deleted chat is saved.                      *)
SaveSome(cs) ==
  /\ chats' = cs
  /\ saved' = IF cs # <<>> /\ Len(cs) # Len(chats) THEN cs ELSE saved

(* The state is set, and the effect on it saves what is not empty.         *)
SetChats(cs) ==
  /\ chats' = cs
  /\ saved' = IF cs # <<>> THEN cs ELSE saved

CreateNewChat ==
  /\ made < MaxChats
  /\ made' = made + 1
  /\ SetChats(<<[id |-> made + 1, messages |-> <<>>]>> \o chats)
  /\ activeChat' = made + 1
  /\ shown' = TRUE
  /\ UNCHANGED <<isLoading, changes, loads, unloading, imported, late, removed, edited, reset>>
  /\ UNCHANGED turnVars

SelectChat(c) ==
  /\ HasChat(c)
  /\ activeChat' = c
  /\ shown' = TRUE
  /\ UNCHANGED <<chats, saved, isLoading>>
  /\ UNCHANGED turnVars
  /\ UNCHANGED pastVars

(* The next chat is looked up in the list that still has the deleted one.  *)
DeleteChat(c) ==
  /\ HasChat(c)
  /\ SetChats(RemoveAt(chats, Position(c)))
  /\ activeChat' = IF activeChat = c THEN Head(chats).id ELSE activeChat
  /\ removed' = removed \cup NamesIn(MessagesOf(c))
  /\ imported' = imported \ {c}
  /\ UNCHANGED <<shown, isLoading, made, changes, loads, unloading, late, edited, reset>>
  /\ UNCHANGED turnVars

(* What the chat interface's buttons need: a chat that is there.           *)
Usable == shown /\ HasChat(activeChat)

UpdateMessage(i) ==
  /\ Usable /\ changes < MaxChanges
  /\ i \in 1..Len(MessagesOf(activeChat))
  /\ LET msgs == MessagesOf(activeChat) IN
       /\ msgs[i].role = "user"
       /\ SetChats(Put(chats, activeChat, [msgs EXCEPT ![i].edited = TRUE]))
       /\ edited' = edited \cup {Name(msgs[i])}
  /\ changes' = changes + 1
  /\ UNCHANGED <<activeChat, shown, isLoading, made, loads, unloading, imported, late,
                removed, reset>>
  /\ UNCHANGED turnVars

DeleteMessage(i) ==
  /\ Usable /\ changes < MaxChanges
  /\ i \in 1..Len(MessagesOf(activeChat))
  /\ LET msgs == MessagesOf(activeChat) IN
       /\ SetChats(Put(chats, activeChat, RemoveAt(msgs, i)))
       /\ removed' = removed \cup {Name(msgs[i])}
  /\ changes' = changes + 1
  /\ UNCHANGED <<activeChat, shown, isLoading, made, loads, unloading, imported, late,
                edited, reset>>
  /\ UNCHANGED turnVars

-------------------------------------------------------------------------------
(* A turn of the chat interface.                                           *)

(* The question f is asked after the messages before.                      *)
Start(t, f, before) ==
  /\ at[t] = "idle"
  /\ SetChats(AddMessage(Put(chats, activeChat, before), activeChat, Question(t, f)))
  /\ at' = [at EXCEPT ![t] = "token"]
  /\ own' = own \cup {t}
  /\ home' = [home EXCEPT ![t] = activeChat]
  /\ past' = [past EXCEPT ![t] = before]
  /\ isLoading' = TRUE
  /\ UNCHANGED <<activeChat, shown, made, changes, loads, unloading, imported, late,
                edited, reset>>

Send(t) ==
  /\ Usable /\ ~isLoading
  /\ Start(t, t, MessagesOf(activeChat))
  /\ UNCHANGED removed

LastQuestion(msgs) ==
  CHOOSE i \in 1..Len(msgs) :
    msgs[i].role = "user" /\ \A j \in i + 1..Len(msgs) : msgs[j].role # "user"

(* Seeded fault: the question that is asked once more stays.               *)
UpToQuestion(msgs) == SubSeq(msgs, 1, LastQuestion(msgs))

BeforeQuestion(msgs) == SubSeq(msgs, 1, LastQuestion(msgs) - 1)

(* The button is at a last message that is a reply.  The last question is  *)
(* asked once more, as a new message in the place of all that followed it. *)
Regenerate(t) ==
  /\ Usable /\ ~isLoading
  /\ LET msgs == MessagesOf(activeChat) IN
       /\ msgs # <<>> /\ Last(msgs).role = "assistant"
       /\ \E i \in 1..Len(msgs) : msgs[i].role = "user"
       /\ Start(t, msgs[LastQuestion(msgs)].first, BeforeQuestion(msgs))
       /\ removed' = removed \cup (NamesIn(msgs) \ NamesIn(BeforeQuestion(msgs)))

GotToken(t) ==
  /\ at[t] = "token"
  /\ at' = [at EXCEPT ![t] = "reply"]
  /\ isLoading' = (isLoading \/ t \in own)
  /\ UNCHANGED <<shown, own, home, past>>
  /\ UNCHANGED chatVars
  /\ UNCHANGED pastVars

End(t, l) ==
  /\ at' = [at EXCEPT ![t] = l]
  /\ own' = own \ {t}
  /\ isLoading' = (isLoading /\ t \notin own)
  /\ UNCHANGED <<shown, home, past, made, changes, loads, unloading, imported, edited, reset>>

(* Seeded faults: the reply is for the chat that is shown; the chats are   *)
(* those that had been rendered when the turn began.                       *)
GotReplyHere(t) ==
  /\ at[t] = "reply"
  /\ SetChats(AddMessage(chats, activeChat, Reply(t)))
  /\ End(t, "done")
  /\ UNCHANGED <<activeChat, late, removed>>
GotReplyThen(t) ==
  /\ at[t] = "reply"
  /\ SetChats(Put(chats, home[t], past[t] \o <<Question(t, t), Reply(t)>>))
  /\ End(t, "done")
  /\ UNCHANGED <<activeChat, late, removed>>

(* The reply to a chat that was deleted goes nowhere.                      *)
GotReply(t) ==
  /\ at[t] = "reply"
  /\ SetChats(AddMessage(chats, home[t], Reply(t)))
  /\ late' = (late \/ (unloading /\ chats # <<>>))
  /\ removed' = IF HasChat(home[t]) THEN removed ELSE removed \cup {Name(Reply(t))}
  /\ End(t, "done")
  /\ UNCHANGED activeChat

(* No token, a blocked or oversized request, any error.                    *)
Fail(t) ==
  /\ at[t] \in InFlight
  /\ End(t, "failed")
  /\ UNCHANGED <<late, removed>>
  /\ UNCHANGED chatVars

-------------------------------------------------------------------------------
(* The page.                                                               *)

(* Another page unmounts the interface, and its state with it.             *)
Leave ==
  /\ shown
  /\ shown' = FALSE /\ isLoading' = FALSE
  /\ own' = {}
  /\ UNCHANGED <<at, home, past>>
  /\ UNCHANGED chatVars
  /\ UNCHANGED pastVars

Back ==
  /\ ~shown
  /\ shown' = TRUE
  /\ UNCHANGED isLoading
  /\ UNCHANGED chatVars
  /\ UNCHANGED turnVars
  /\ UNCHANGED pastVars

(* The settings page changes localStorage, not the chats in memory, and    *)
(* then reloads.  location.reload() returns at once; what has arrived for  *)
(* the old page (during the alert of the import, for one) is still handled.*)
ChangeSaved(cs) ==
  /\ ~shown /\ changes < MaxChanges /\ loads < MaxLoads
  /\ saved' = cs
  /\ changes' = changes + 1
  /\ UNCHANGED <<chats, activeChat, shown, isLoading, loads, late, edited, reset>>
  /\ UNCHANGED turnVars

(* A chat of the file, under a new id, behind those that are stored.  Its  *)
(* messages are of no turn here.  A file that is no list is refused.       *)
ImportChats ==
  /\ made < MaxChats
  /\ ChangeSaved(Append(saved, [id |-> made + 1, messages |-> <<>>]))
  /\ made' = made + 1
  /\ imported' = imported \cup {made + 1}
  /\ unloading' = TRUE
  /\ UNCHANGED removed

ClearAllChats ==
  /\ ChangeSaved(<<>>)
  /\ removed' = removed \cup (UNION {NamesIn(chats[i].messages) : i \in DOMAIN chats})
                       \cup (UNION {NamesIn(saved[i].messages) : i \in DOMAIN saved})
  /\ imported' = {}
  /\ unloading' = TRUE
  /\ UNCHANGED made

(* The page is loaded anew: the app was restarted, a sign-in or a purchase *)
(* ended, or the page asked for it.                                        *)
Reload ==
  /\ loads < MaxLoads
  /\ loads' = loads + 1
  /\ chats' = IF saved = <<>> THEN <<SampleChat>> ELSE saved
  /\ saved' = chats'
  /\ activeChat' = Head(chats').id
  /\ shown' = TRUE /\ isLoading' = FALSE
  /\ at' = [t \in Turns |-> IF at[t] \in InFlight THEN "failed" ELSE at[t]]
  /\ own' = {}
  /\ reset' = (reset \/ chats = <<>>)
  /\ unloading' = FALSE
  /\ UNCHANGED <<home, past, made, changes, imported, late, removed, edited>>

Done == (\A t \in Turns : at[t] \notin InFlight) /\ UNCHANGED vars

(* What the user can do: in the sidebar, ... *)
SidebarStep ==
  \/ CreateNewChat \/ Leave
  \/ \E c \in Ids : SelectChat(c) \/ DeleteChat(c)

(* ... on another page, ... *)
SettingsStep == Back \/ ImportChats \/ ClearAllChats

(* ... and in the chat that is shown. *)
InterfaceStep ==
  \/ Usable /\ \E i \in 1..Len(MessagesOf(activeChat)) : UpdateMessage(i) \/ DeleteMessage(i)
  \/ \E t \in Turns : Send(t) \/ Regenerate(t)

Next ==
  \/ ~unloading /\ (SidebarStep \/ SettingsStep \/ InterfaceStep)
  \/ Reload
  \/ \E t \in Turns : GotToken(t) \/ GotReply(t) \/ Fail(t)
  \/ Done

Spec == Init /\ [][Next]_vars
-------------------------------------------------------------------------------

Places(n) ==
  UNION {{<<i, j>> : j \in {k \in 1..Len(chats[i].messages) : Name(chats[i].messages[k]) = n}} :
           i \in 1..Len(chats)}
QuestionOf(t) == [role |-> "user", turn |-> t]
ReplyOf(t) == [role |-> "assistant", turn |-> t]

(* A reply is in the chat its question was asked in, and after it, unless  *)
(* the question was removed; whatever chat or page is shown when it comes, *)
(* and whatever other turns go on in the same chat.                        *)
ReplyGoesHome ==
  \A t \in Turns : \A p \in Places(ReplyOf(t)) :
    /\ chats[p[1]].id = home[t]
    /\ \/ QuestionOf(t) \in removed
       \/ \E q \in Places(QuestionOf(t)) : q[1] = p[1] /\ q[2] < p[2]

(* Of what was asked and answered nothing is lost and nothing doubled: it  *)
(* is in one place, or the user has removed it or the chat of the turn,    *)
(* across page changes, concurrent turns and restarts.                     *)
NothingIsLost ==
  ~reset => \A t \in Turns :
    /\ (at[t] # "idle" /\ QuestionOf(t) \notin removed) =>
         Cardinality(Places(QuestionOf(t))) = 1
    /\ (at[t] = "done" /\ ReplyOf(t) \notin removed) =>
         Cardinality(Places(ReplyOf(t))) = 1

(* What the user deletes, clears, replaces, edits or imports stays so      *)
(* (ChatMessage.tsx:282, SettingsPage.tsx:32: "This action cannot be       *)
(* undone."): no turn that began before and no restart brings a removed    *)
(* message or an old text back, and chats reported as imported             *)
(* (SettingsPage.tsx:55) stay, though the page that imports them holds the *)
(* list without them and saves it on every change.  The exceptions are a   *)
(* page left without chats, which is not saved (useChats.ts:49), and a     *)
(* reply that comes between the request to reload and the reload, and has  *)
(* the old chats saved again.                                              *)
ChangesStay ==
  /\ ~reset /\ ~late /\ ~unloading => \A n \in removed : Places(n) = {}
  /\ \A n \in edited : \A p \in Places(n) : chats[p[1]].messages[p[2]].edited
  /\ ~late => \A c \in imported : WithId(saved, c) # {}

(* Nothing is asked twice in one prompt: the question of a turn is not     *)
(* among the messages sent before it, also when it is asked once more.     *)
AskedOnce ==
  \A t \in Turns : \A q \in Places(QuestionOf(t)) :
    \A i \in 1..Len(past[t]) :
      past[t][i].role = "user" => past[t][i].first # chats[q[1]].messages[q[2]].first
===============================================================================
