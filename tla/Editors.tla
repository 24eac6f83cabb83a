-------------------------------- MODULE Editors --------------------------------
(***************************************************************************)
(* The editors of the chat page: of the title of the chat it shows         *)
(* (components/ChatInterface.tsx) and of each of its messages              *)
(* (components/ChatMessage.tsx).  Each keeps a draft of its own, beside    *)
(* the text of hooks/useChats.ts that it is to replace, while answers      *)
(* arrive, chats are selected, made and deleted, and messages come and go. *)
(*                                                                         *)
(* A step is one event with the rendering and the effects it sets off.     *)
(* Text is told apart by its first fifty characters and up to the blanks   *)
(* around it, so the title a message gives a chat is its content.          *)
(***************************************************************************)
EXTENDS Naturals, Sequences, SequencesExt, FiniteSets

CONSTANTS
  Chats, Welcome,           \* chats; the one the page begins with
  UserMessages, Answers,    \* messages of the user, of the assistant
  Texts, Blank,             \* contents and titles
  Drafts,                   \* what is typed in the editors: texts, or Blank
  WelcomeTitle, NewTitle,   \* the titles chats begin with
  Nil

Messages == UserMessages \cup Answers

VARIABLES
  chats,        \* the list of chats
  active,       \* activeChat
  title,        \* of each chat
  messages,     \* of each chat, in order
  content,      \* of each message
  used,         \* the chats and messages there were: an id is not given twice
  shown,        \* whether the chat interface is mounted
  turns,        \* turns under way: the chat, and whether it is one of this mount;
                \*   two of one chat whose mounts are gone count as one
  titleEditor,  \* isEditingTitle, editedTitle; history: over
  editors,      \* of each message: isEditingMessage, editedContent; history: over
  asking        \* the message whose "Delete Message?" covers the page, or Nil

bookVars == <<chats, active, title, messages, content, used>>
pageVars == <<shown, turns, asking>>
vars == <<chats, active, title, messages, content, used, shown, turns, titleEditor,
          editors, asking>>

(* A closed editor with the text of the page in it.                        *)
Closed(text) == [open |-> FALSE, text |-> text, over |-> text]

Chat == IF shown /\ active \in Range(chats) THEN active ELSE Nil
ShownTitle == IF Chat = Nil THEN Blank ELSE title[Chat]
OnPage == IF Chat = Nil THEN {} ELSE Range(messages[Chat])

Init ==
  /\ chats = <<Welcome>> /\ active = Welcome /\ used = {Welcome}
  /\ title = [c \in Chats |-> IF c = Welcome THEN WelcomeTitle ELSE NewTitle]
  /\ messages = [c \in Chats |-> <<>>]
  /\ content = [m \in Messages |-> Blank]
  /\ shown = TRUE /\ turns = {}
  /\ titleEditor = Closed(WelcomeTitle)
  /\ editors = [m \in Messages |-> Closed(Blank)]
  /\ asking = Nil

-------------------------------------------------------------------------------
(* After a handler has set the editors to te and es: the title editor has  *)
(* an effect on the title shown; the editor of a message goes with it, and *)
(* the next to show the message begins with its content.                   *)

(* Seeded fault: the title editor takes the title when it is mounted, only.*)
RenderedOnce(te, es) ==
  /\ titleEditor' = IF shown' # shown THEN Closed(ShownTitle') ELSE te
  /\ LET stay == OnPage \cap OnPage' IN
     editors' = [m \in Messages |-> IF m \in stay THEN es[m] ELSE Closed(content'[m])]

Rendered(te, es) ==
  /\ titleEditor' = IF shown' # shown THEN Closed(ShownTitle')
                    ELSE IF ShownTitle' = ShownTitle THEN te
                    ELSE [te EXCEPT !.text = ShownTitle', !.over = ShownTitle']
  /\ LET stay == OnPage \cap OnPage' IN
     editors' = [m \in Messages |-> IF m \in stay THEN es[m] ELSE Closed(content'[m])]

(* The sequence s filtered of x, which is in it once. *)
Without(s, x) ==
  IF x \in Range(s) THEN RemoveAt(s, CHOOSE i \in DOMAIN s : s[i] = x) ELSE s

Show == shown' = TRUE
Free == asking = Nil

(* addMessage: the first message of a chat gives it its title.             *)
Add(c, m, text, before) ==
  /\ used' = used \cup {m}
  /\ content' = [content EXCEPT ![m] = text]
  /\ IF c \in Range(chats)
     THEN /\ messages' = [messages EXCEPT ![c] = Append(before, m)]
          /\ title' = [title EXCEPT ![c] = IF before = <<>> THEN text ELSE @]
     ELSE UNCHANGED <<messages, title>>
-------------------------------------------------------------------------------
(* The title editor.                                                       *)

StartTitle ==
  /\ Free /\ Chat # Nil /\ ~titleEditor.open
  /\ titleEditor' = [titleEditor EXCEPT !.open = TRUE]
  /\ UNCHANGED <<bookVars, pageVars, editors>>

TypeTitle(text) ==
  /\ Free /\ shown /\ titleEditor.open
  /\ titleEditor' = [titleEditor EXCEPT !.text = text]
  /\ UNCHANGED <<bookVars, pageVars, editors>>

(* handleTitleSave.  A blank or unchanged draft stays in the closed editor.*)
SaveTitle ==
  /\ Free /\ shown /\ titleEditor.open
  /\ IF Chat # Nil /\ titleEditor.text # Blank
     THEN title' = [title EXCEPT ![Chat] = titleEditor.text]
     ELSE UNCHANGED title
  /\ UNCHANGED <<chats, active, messages, content, used, pageVars>>
  /\ Rendered([titleEditor EXCEPT !.open = FALSE], editors)

CancelTitle ==
  /\ Free /\ shown /\ titleEditor.open
  /\ titleEditor' = Closed(ShownTitle)
  /\ UNCHANGED <<bookVars, pageVars, editors>>
-------------------------------------------------------------------------------
(* The editor of a message, for those of the user.                         *)

StartEdit(m) ==
  /\ Free /\ m \in OnPage \cap UserMessages /\ ~editors[m].open
  /\ editors' = [editors EXCEPT ![m].open = TRUE]
  /\ UNCHANGED <<bookVars, pageVars, titleEditor>>

TypeEdit(m, text) ==
  /\ Free /\ m \in OnPage /\ editors[m].open
  /\ editors' = [editors EXCEPT ![m].text = text]
  /\ UNCHANGED <<bookVars, pageVars, titleEditor>>

(* handleSaveEdit and updateMessage. *)
SaveEdit(m) ==
  LET text == editors[m].text IN
  /\ Free /\ m \in OnPage /\ editors[m].open
  /\ IF text # Blank
     THEN /\ content' = [content EXCEPT ![m] = text]
          /\ editors' = [editors EXCEPT ![m] = Closed(text)]
     ELSE /\ editors' = [editors EXCEPT ![m].open = FALSE]
          /\ UNCHANGED content
  /\ UNCHANGED <<chats, active, title, messages, used, pageVars, titleEditor>>

CancelEdit(m) ==
  /\ Free /\ m \in OnPage /\ editors[m].open
  /\ editors' = [editors EXCEPT ![m] = Closed(content[m])]
  /\ UNCHANGED <<bookVars, pageVars, titleEditor>>

AskDelete(m) ==
  /\ Free /\ m \in OnPage /\ ~editors[m].open
  /\ asking' = m
  /\ UNCHANGED <<bookVars, shown, turns, titleEditor, editors>>

(* handleDeleteMessage, or Cancel. *)
AnswerDelete(delete) ==
  /\ asking # Nil /\ asking' = Nil
  /\ IF delete THEN messages' = [messages EXCEPT ![Chat] = Without(@, asking)]
     ELSE UNCHANGED messages
  /\ UNCHANGED <<chats, active, title, content, used, shown, turns>>
  /\ Rendered(titleEditor, editors)
-------------------------------------------------------------------------------
(* Turns.                                                                  *)

Loading == \E t \in turns : t.here

Ask(m, text, before) ==
  /\ Free /\ Chat # Nil /\ ~Loading
  /\ m \in UserMessages \ used
  /\ Add(Chat, m, text, before)
  /\ turns' = turns \cup {[chat |-> Chat, here |-> TRUE]}
  /\ UNCHANGED <<chats, active, shown, asking>>
  /\ Rendered(titleEditor, editors)

SendMessage(m, text) == Chat # Nil /\ Ask(m, text, messages[Chat])

(* The button is that of an answer which is the last message; the last     *)
(* message of the user and all after it go, and it is added anew.          *)
Regenerate(m) ==
  LET book == messages[Chat]
      asked == {i \in DOMAIN book : book[i] \in UserMessages}
      k == CHOOSE i \in asked : \A j \in asked : j <= i
  IN
  /\ Chat # Nil /\ OnPage # {} /\ Last(book) \in Answers /\ asked # {}
  /\ Ask(m, content[book[k]], SubSeq(book, 1, k - 1))

(* The turn ends: with an answer, for the chat that asked, or without.     *)
Answer(t, m, text) ==
  /\ turns' = turns \ {t}
  /\ m \in Answers \ used
  /\ Add(t.chat, m, text, messages[t.chat])
  /\ UNCHANGED <<chats, active, shown, asking>>
  /\ Rendered(titleEditor, editors)

Fail(t) ==
  /\ turns' = turns \ {t}
  /\ UNCHANGED <<bookVars, shown, asking, titleEditor, editors>>
-------------------------------------------------------------------------------
(* The sidebar, which every page has, and the pages.                       *)

SelectChat(c) ==
  /\ Free /\ c \in Range(chats)
  /\ active' = c /\ Show
  /\ UNCHANGED <<chats, title, messages, content, used, turns, asking>>
  /\ Rendered(titleEditor, editors)

CreateNewChat(c) ==
  /\ Free /\ c \in Chats \ used
  /\ chats' = <<c>> \o chats /\ active' = c /\ used' = used \cup {c}
  /\ title' = [title EXCEPT ![c] = NewTitle] /\ Show
  /\ UNCHANGED <<messages, content, turns, asking>>
  /\ Rendered(titleEditor, editors)

(* deleteChat: the next is taken from the list before the deletion.        *)
DeleteChat(c) ==
  /\ Free /\ c \in Range(chats)
  /\ chats' = Without(chats, c)
  /\ active' = IF active = c THEN Head(chats) ELSE active
  /\ UNCHANGED <<title, messages, content, used, pageVars>>
  /\ Rendered(titleEditor, editors)

(* Another page is shown, or none while the profile is fetched. *)
Leave ==
  /\ shown /\ shown' = FALSE /\ asking' = Nil
  /\ turns' = {[t EXCEPT !.here = FALSE] : t \in turns}
  /\ UNCHANGED bookVars
  /\ Rendered(titleEditor, editors)

Back ==
  /\ ~shown /\ Show
  /\ UNCHANGED <<bookVars, turns, asking>>
  /\ Rendered(titleEditor, editors)

Next ==
  \/ StartTitle \/ SaveTitle \/ CancelTitle
  \/ \E text \in Drafts : TypeTitle(text)
  \/ \E m \in UserMessages :
       \/ StartEdit(m) \/ SaveEdit(m) \/ CancelEdit(m) \/ Regenerate(m)
       \/ \E text \in Drafts : TypeEdit(m, text)
       \/ \E text \in Texts : SendMessage(m, text)
  \/ \E m \in Messages : AskDelete(m)
  \/ \E delete \in BOOLEAN : AnswerDelete(delete)
  \/ \E t \in turns : Fail(t) \/ \E m \in Answers, text \in Texts : Answer(t, m, text)
  \/ \E c \in Chats : SelectChat(c) \/ CreateNewChat(c) \/ DeleteChat(c)
  \/ Leave \/ Back

Spec == Init /\ [][Next]_vars
-------------------------------------------------------------------------------
(* What an editor would save is the draft of the text it would replace:    *)
(* whatever is selected, made, deleted or answered while the user types,   *)
(* no draft is saved over a text it was not begun on.  (Between two chats  *)
(* of one title, two new ones for instance, a draft is carried over.)      *)
DraftsGoHome ==
  /\ shown => titleEditor.over = ShownTitle
  /\ \A m \in OnPage : editors[m].over = content[m]
===============================================================================
