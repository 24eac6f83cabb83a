--------------------------------- MODULE Page ---------------------------------
(* The parts of the page that only the page's own events reach.  They share *)
(* no state but the mounting of the chat interface, so each is explored for *)
(* itself: part is the one that moves in a behaviour.                       *)
EXTENDS PageServices

CONSTANTS
  Images, Others, Batches, Words, Links, Data, Typed, MaxSent,
  Chats, Welcome, UserMessages, Answers, Texts, Blank, Drafts, WelcomeTitle, NewTitle, MaxMounts

VARIABLES
  part,
  message, attachments, queued, left, read, reader, disabled, isLoading, mounts, mounted, given, sent,
  discarded, lost,
  chats, active, title, messages, content, used, shown, turns, titleEditor, editors,
  asking

Composer == INSTANCE Composer WITH Texts <- Typed
Editors == INSTANCE Editors

ASSUME PageAssumption ==
  /\ Welcome \in Chats /\ Nil \notin Chats \cup UserMessages \cup Answers
  /\ Images \cap Others = {}
  /\ Typed \subseteq Seq(Words \cup Links \cup Data \cup Composer!Marks)
  /\ (Images \cup Others) \cap (Words \cup Links \cup Data) = {}
  /\ Words \cap (Links \cup Data) = {}
  /\ Composer!Marks \cap (Images \cup Others \cup Words \cup Links \cup Data) = {}

composerVars == <<message, attachments, queued, left, read, reader, disabled, isLoading, mounts, mounted,
                  given, sent, discarded, lost>>
editorVars == <<chats, active, title, messages, content, used, shown, turns, titleEditor,
                editors, asking>>

PageInit ==
  /\ part \in {"composer", "editors", "services"}
  /\ Init /\ Composer!Init /\ Editors!Init

PageNext ==
  \/ part = "composer" /\ Composer!Next /\ UNCHANGED <<part, editorVars, vars>>
  \/ part = "editors" /\ Editors!Next /\ UNCHANGED <<part, composerVars, vars>>
  \/ part = "services" /\ Next /\ UNCHANGED <<part, composerVars, editorVars>>

PageSpec == PageInit /\ [][PageNext]_<<part, composerVars, editorVars, vars>>

(* Composer: a file given to the page is in one place, and sent once.       *)
ImagesGoOnce == Composer!ImagesGoOnce

(* Composer: the words and images of a message whose text opens no image    *)
(* are in every prompt made of it, in their order.                          *)
PromptsAgree == Composer!PromptsAgree

(* Editors: no draft is saved over a text it was not begun on.              *)
DraftsGoHome == Editors!DraftsGoHome
===============================================================================
