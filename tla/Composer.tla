------------------------------- MODULE Composer -------------------------------
(***************************************************************************)
(* Writing a message (components/ChatInput.tsx) and what becomes of it in  *)
(* prompts (components/ChatInterface.tsx).  Images are read one after the  *)
(* other, in the background, by any number of calls of handleFiles, while  *)
(* the user types, sends, drops more or goes to another page; an update of *)
(* the attachments is rendered later than it is asked for.  A message is   *)
(* kept as markdown, images included, and taken apart again when it is     *)
(* part of a later prompt or is regenerated.                               *)
(*                                                                         *)
(* Markdown is a sequence of pieces: a word, a whole image by its link or  *)
(* its data, and what of such an image's markup is typed without the rest  *)
(* of it (Marks); blank text is the empty sequence.  A file stands for one *)
(* occasion on which it is given to the page, by picking, pasting or       *)
(* dropping it; as an attachment it is the image with its data.            *)
(***************************************************************************)
EXTENDS Naturals, Sequences, SequencesExt, FiniteSets

CONSTANTS
  Images,      \* files that are images of five megabytes at most
  Others,      \* other files
  Batches,     \* invocations of handleFiles
  Words, Links, Data,  \* pieces of text: the last two are whole images
  Texts,       \* what is typed: sequences of such pieces
  MaxSent,     \* bound: how many messages are sent
  MaxMounts    \* bound: how often the chat interface is mounted

Files == Images \cup Others

(* What the regular expression for images looks at, typed by itself.       *)
Marks == {"![", "](", "]", ")"}
Whole == Links \cup Data \cup Files

VARIABLES
  message,      \* what is typed
  attachments,  \* the images read, in order, as they are rendered
  queued,       \* the images an update that is not rendered yet adds to them
  left, read,   \* what each batch has still to read, has read
  reader,       \* the mount of ChatInput that each batch is of, or 0
  disabled,     \* there is no chat, or no user
  isLoading,    \* a turn is under way
  mounts,       \* how often the interface was mounted; 0 when it is not shown
  mounted,
  given,        \* history: the files the user gave the page
  sent,         \* history: the messages, as handleSubmit gave them away
  discarded,    \* history: files skipped, removed, or gone with their page
  lost          \* history: images that were lost without a word to the user

vars == <<message, attachments, queued, left, read, reader, disabled, isLoading, mounts, mounted,
          given, sent, discarded, lost>>

Init ==
  /\ message = <<>> /\ attachments = <<>> /\ queued = <<>>
  /\ left = [b \in Batches |-> <<>>] /\ read = [b \in Batches |-> <<>>]
  /\ reader = [b \in Batches |-> 0]
  /\ disabled = FALSE /\ isLoading = FALSE
  /\ mounts = 1 /\ mounted = TRUE
  /\ given = {} /\ sent = <<>> /\ discarded = {} /\ lost = {}

-------------------------------------------------------------------------------
(* The input.                                                              *)

Type(text) ==
  /\ mounted /\ ~disabled /\ ~isLoading
  /\ message' = text
  /\ UNCHANGED <<attachments, queued, left, read, reader, disabled, isLoading, mounts, mounted,
                 given, sent, discarded, lost>>

(* handleFiles takes a list of files; a drop may come at any time, paste   *)
(* and the button need an enabled input.  It is given by its images and by *)
(* the others: what is no image, or too large, is skipped.                 *)
HandleFiles(b, images, others) ==
  LET files == Range(images) \cup others IN
  /\ mounted
  /\ reader[b] = 0 /\ files \cap given = {}
  /\ given' = given \cup files
  /\ left' = [left EXCEPT ![b] = images]
  /\ reader' = [reader EXCEPT ![b] = IF images # <<>> THEN mounts ELSE 0]
  /\ discarded' = discarded \cup others
  /\ UNCHANGED <<message, attachments, queued, read, disabled, isLoading, mounts, mounted, sent,
                 lost>>

(* The batch has its next image; with the last one all are to be attached, *)
(* if the input they were given to is still there.                         *)
ReadImage(b) ==
  LET images == Append(read[b], Head(left[b])) IN
  /\ left[b] # <<>>
  /\ left' = [left EXCEPT ![b] = Tail(@)]
  /\ IF Len(left[b]) > 1
     THEN /\ read' = [read EXCEPT ![b] = images]
          /\ UNCHANGED <<queued, reader, discarded>>
     ELSE /\ read' = [read EXCEPT ![b] = <<>>]
          /\ reader' = [reader EXCEPT ![b] = 0]
          /\ IF mounted /\ reader[b] = mounts
             THEN queued' = queued \o images /\ UNCHANGED discarded
             ELSE discarded' = discarded \cup Range(images) /\ UNCHANGED queued
  /\ UNCHANGED <<message, attachments, disabled, isLoading, mounts, mounted, given, sent, lost>>

(* A reader fails: handleFiles rejects, which nobody hears of, and the     *)
(* other images of the batch are lost too.                                 *)
ReadFails(b) ==
  /\ left[b] # <<>>
  /\ lost' = lost \cup Range(left[b]) \cup Range(read[b])
  /\ left' = [left EXCEPT ![b] = <<>>] /\ read' = [read EXCEPT ![b] = <<>>]
  /\ reader' = [reader EXCEPT ![b] = 0]
  /\ UNCHANGED <<message, attachments, queued, disabled, isLoading, mounts, mounted, given, sent,
                 discarded>>

(* Seeded fault: the images replace those already there.                   *)
RenderOnly ==
  /\ queued # <<>>
  /\ attachments' = queued /\ queued' = <<>>
  /\ UNCHANGED <<message, left, read, reader, disabled, isLoading, mounts, mounted, given, sent,
                 discarded, lost>>

(* The update of the attachments is rendered. *)
Render ==
  /\ queued # <<>>
  /\ attachments' = attachments \o queued /\ queued' = <<>>
  /\ UNCHANGED <<message, left, read, reader, disabled, isLoading, mounts, mounted, given, sent,
                 discarded, lost>>

RemoveAttachment(i) ==
  /\ mounted
  /\ attachments' = RemoveAt(attachments, i)
  /\ discarded' = discarded \cup {attachments[i]}
  /\ UNCHANGED <<message, queued, left, read, reader, disabled, isLoading, mounts, mounted, given,
                 sent, lost>>

CanSend == mounted /\ (message # <<>> \/ attachments # <<>>) /\ ~disabled /\ ~isLoading

(* handleSubmit, by the button or by Enter.  It sends the attachments of   *)
(* the last rendering and empties the list: what was to be added is lost.  *)
Submit ==
  /\ CanSend /\ Len(sent) < MaxSent
  /\ sent' = Append(sent, [text |-> message, images |-> attachments])
  /\ message' = <<>> /\ attachments' = <<>> /\ queued' = <<>>
  /\ lost' = lost \cup Range(queued)
  /\ isLoading' = TRUE
  /\ UNCHANGED <<left, read, reader, disabled, mounts, mounted, given, discarded>>

TurnEnds ==
  /\ isLoading /\ isLoading' = FALSE
  /\ UNCHANGED <<message, attachments, queued, left, read, reader, disabled, mounts, mounted,
                 given, sent, discarded, lost>>

(* The chat shown is deleted, or one is made or selected. *)
Toggle ==
  /\ mounted /\ disabled' = ~disabled
  /\ UNCHANGED <<message, attachments, queued, left, read, reader, isLoading, mounts, mounted,
                 given, sent, discarded, lost>>

(* Another page is shown: the input goes with what is in it. *)
Leave ==
  /\ mounted /\ mounted' = FALSE
  /\ message' = <<>> /\ attachments' = <<>> /\ queued' = <<>> /\ isLoading' = FALSE
  /\ discarded' = discarded \cup Range(attachments) \cup Range(queued)
  /\ UNCHANGED <<left, read, reader, disabled, mounts, given, sent, lost>>

Back ==
  /\ ~mounted /\ mounts < MaxMounts
  /\ mounted' = TRUE /\ mounts' = mounts + 1
  /\ UNCHANGED <<message, attachments, queued, left, read, reader, disabled, isLoading, given,
                 sent, discarded, lost>>

-------------------------------------------------------------------------------
(* Prompts.                                                                *)

(* The message as it is kept: the text, then the images.                   *)
DisplayText(m) == m.text \o m.images

(* SelectSeq for a set of pieces, in a form that can be proved about.      *)
Keep(s, S) ==
  LET kept[i \in 0..Len(s)] ==
        IF i = 0 THEN <<>> ELSE IF s[i] \in S THEN Append(kept[i - 1], s[i]) ELSE kept[i - 1]
  IN kept[Len(s)]

WordsOf(md) == Keep(md, Words)

(* The first place after the i-th where there is a piece of S, or 0.       *)
FirstAfter(md, i, S) ==
  LET places == {k \in i + 1 .. Len(md) : md[k] \in S}
  IN IF places = {} THEN 0 ELSE CHOOSE k \in places : \A l \in places : k <= l

(* The match of the regular expression that begins at the i-th piece: the  *)
(* place where it ends, or 0, and the place of the image whose link it     *)
(* has, or 0.  The alternative text ends at the first bracket, the link at *)
(* the first parenthesis and not at once.                                  *)
NoMatch == [end |-> 0, image |-> 0]
Match(md, i) ==
  LET bracket == FirstAfter(md, i, Whole \cup {"](", "]"})
      paren == FirstAfter(md, bracket, Whole \cup {")"})
  IN
  IF md[i] \in Whole THEN [end |-> i, image |-> i]
  ELSE IF md[i] # "![" \/ bracket = 0 THEN NoMatch
  ELSE IF md[bracket] \in Whole THEN [end |-> bracket, image |-> bracket]
  ELSE IF md[bracket] = "]" \/ paren = 0 \/ (paren = bracket + 1 /\ md[paren] = ")") THEN NoMatch
  ELSE [end |-> paren, image |-> 0]

(* All matches, from the left: where the last one ended, the images by     *)
(* data among them, and the text that is in none.                          *)
Scan(md) ==
  LET found[i \in 0..Len(md)] ==
        IF i = 0 THEN [until |-> 0, text |-> <<>>, images |-> <<>>]
        ELSE LET before == found[i - 1]  match == Match(md, i) IN
             IF i <= before.until THEN before
             ELSE IF match.end = 0 THEN [before EXCEPT !.text = Append(@, md[i])]
             ELSE [until |-> match.end, text |-> before.text,
                   images |-> IF match.image # 0 /\ md[match.image] \in Files \cup Data
                              THEN Append(before.images, md[match.image]) ELSE before.images]
  IN found[Len(md)]

(* The content of a current message with these images. *)
CurrentContent(text, images) == [text |-> text, images |-> images]

(* toOpenAIContentFromMarkdown: without image data the markdown stays as   *)
(* it is; otherwise the text loses every match, also those by link.        *)
FromMarkdown(md) ==
  IF Scan(md).images = <<>> THEN [text |-> md, images |-> <<>>]
  ELSE [text |-> Scan(md).text, images |-> Scan(md).images]

(* Seeded fault: one image is looked for. *)
RegeneratedOne(m) ==
  LET scan == Scan(DisplayText(m)) IN
  CurrentContent(scan.text, IF scan.images = <<>> THEN <<>> ELSE <<Head(scan.images)>>)

(* The message of handleRegenerateResponse: every match goes from the text.*)
Regenerated(m) ==
  LET scan == Scan(DisplayText(m)) IN CurrentContent(scan.text, scan.images)

FirstPrompt(m) == CurrentContent(m.text, m.images)
HistoryPrompt(m) == FromMarkdown(DisplayText(m))

-------------------------------------------------------------------------------
ImageLists == {<<>>} \cup {<<f>> : f \in Images} \cup {l \in Images \X Images : l[1] # l[2]}

Next ==
  \/ \E text \in Texts : Type(text)
  \/ \E b \in Batches :
       \/ \E images \in ImageLists, others \in SUBSET Others : HandleFiles(b, images, others)
       \/ ReadImage(b) \/ ReadFails(b)
  \/ Render
  \/ \E i \in 1 .. Len(attachments) : RemoveAttachment(i)
  \/ Submit \/ TurnEnds \/ Toggle \/ Leave \/ Back

Spec == Init /\ [][Next]_vars
-------------------------------------------------------------------------------
Reading(b) == Range(left[b]) \cup Range(read[b])

PlacesOf(f) ==
  {<<"read", b>> : b \in {c \in Batches : f \in Reading(c)}}
    \cup {<<"queued", i>> : i \in {k \in DOMAIN queued : queued[k] = f}}
    \cup {<<"attached", i>> : i \in {k \in DOMAIN attachments : attachments[k] = f}}
    \cup (UNION {{<<"sent", n, i>> : i \in {k \in DOMAIN sent[n].images : sent[n].images[k] = f}} :
                  n \in DOMAIN sent})
    \cup {<<"discarded">> : g \in discarded \cap {f}}
    \cup {<<"lost">> : g \in lost \cap {f}}

(* A file the user gave the page is in one place: still being read, about  *)
(* to be attached, attached, in one message, or gone, and gone only in a   *)
(* way that is known: skipped, removed, left behind with its page, or lost *)
(* with a batch whose reader failed or to a message sent before it was     *)
(* rendered, of which the user hears nothing.  Batches read side by side   *)
(* and page changes lose no other, and none is sent twice.                 *)
ImagesGoOnce == \A f \in given : Cardinality(PlacesOf(f)) = 1

(* The words typed and the images attached are in every prompt a message   *)
(* is part of, the first, the later ones and a regenerated one, and in the *)
(* same order: unless the text itself opens an image without being one,    *)
(* which may take in an attached one and lose it.  (Links to images are    *)
(* not in every prompt: see FromMarkdown.)                                 *)
Attached(s) == Keep(s, Files)
OpensImage(text) == \E i \in 1..Len(text) : text[i] = "!["
PromptsAgree ==
  \A i \in DOMAIN sent :
    ~OpensImage(sent[i].text) =>
      \A p \in {HistoryPrompt(sent[i]), Regenerated(sent[i])} :
        /\ WordsOf(p.text) = WordsOf(sent[i].text)
        /\ Attached(p.images) = Attached(FirstPrompt(sent[i]).images)
===============================================================================
