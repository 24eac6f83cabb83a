----------------------------- MODULE PageServices -----------------------------
(***************************************************************************)
(* What all pages share: the notice of an error (contexts/ErrorContext.tsx)*)
(* and the pictures of users, which are downloaded once                    *)
(* (utils/pfpCache.ts) for every place that shows one: the messages of the *)
(* user (components/ChatMessage.tsx) and the profile page                  *)
(* (components/ProfilePage.tsx).                                           *)
(*                                                                         *)
(* A step is one event with the rendering, the effects and the callbacks   *)
(* of promises it sets off.  A notice stands for one call of showError;    *)
(* the time-outs are all of four seconds, so they come in order.           *)
(***************************************************************************)
EXTENDS Naturals, Sequences, SequencesExt

CONSTANTS
  Notices,     \* calls of showError
  Places,      \* places that show the picture of the user
  Pictures,    \* addresses of pictures
  MaxUsers,    \* bound: how often the page learns who its user is
  MaxFetches,  \* bound: how many downloads begin
  Nil

ASSUME ServicesAssumption ==
  Nil \notin Notices \cup Pictures /\ MaxUsers \in Nat /\ MaxFetches \in Nat

VARIABLES
  error,      \* the provider's error, or Nil
  timers,     \* the time-outs under way: the notices they were started by
  visible,    \* of the card, which is there while there is an error, or of the next
  called,     \* the calls of showError that were made
  earlier,    \* history: of each, the notices whose time was not over when it came
  dismissed,  \* history: the notices the user dismissed
  picture,    \* user.picture, or Nil
  places,     \* the places there are
  pfp,        \* pfpUrl of each place: whose picture it is, or Nil
  effect,     \* of each place: the download its latest effect waits for, or Nil
  stale,      \* of each place: those that earlier effects of it wait for
  cache,      \* pfpCache: the pictures there are
  loading,    \* pfpMutex: the pictures that are being downloaded
  failed,     \* history: the places one of whose downloads failed
  users, fetched  \* how often there was a new user, a download

noticeVars == <<error, timers, visible, called, earlier, dismissed>>
pictureVars == <<picture, places, pfp, effect, stale, cache, loading, failed, users, fetched>>
vars == <<error, timers, visible, called, earlier, dismissed, picture, places, pfp, effect, stale,
          cache, loading, failed, users, fetched>>

Init ==
  /\ error = Nil /\ timers = <<>> /\ visible = TRUE
  /\ called = {} /\ earlier = [n \in Notices |-> {}] /\ dismissed = {}
  /\ picture = Nil /\ places = {}
  /\ pfp = [p \in Places |-> Nil] /\ effect = [p \in Places |-> Nil]
  /\ stale = [p \in Places |-> {}]
  /\ cache = {} /\ loading = {} /\ failed = {} /\ users = 0 /\ fetched = 0

-------------------------------------------------------------------------------
(* Notices.                                                                *)

(* The card of an error that is there already takes the new message, and   *)
(* stays dismissed if it was.                                              *)
ShowError(n) ==
  /\ n \notin called /\ called' = called \cup {n}
  /\ error' = n
  /\ timers' = Append(timers, n)
  /\ earlier' = [earlier EXCEPT ![n] = Range(timers)]
  /\ UNCHANGED <<visible, dismissed, pictureVars>>

(* Seeded fault: the card outlives its error, dismissed or not.            *)
TimeOutKeepsCard ==
  /\ timers # <<>> /\ timers' = Tail(timers)
  /\ error' = Nil
  /\ UNCHANGED <<visible, called, earlier, dismissed, pictureVars>>

(* Whatever is shown goes with its card, the notice of a later call too.   *)
TimeOut ==
  /\ timers # <<>> /\ timers' = Tail(timers)
  /\ error' = Nil /\ visible' = TRUE
  /\ UNCHANGED <<called, earlier, dismissed, pictureVars>>

Dismiss ==
  /\ error # Nil /\ visible
  /\ visible' = FALSE
  /\ dismissed' = dismissed \cup {error}
  /\ UNCHANGED <<error, timers, called, earlier, pictureVars>>
-------------------------------------------------------------------------------
(* Pictures.                                                               *)

(* fetchPfpWithCache begins a download unless there is one, or was.        *)
FetchPfpWithCache(url) ==
  IF url \in {Nil} \cup cache \cup loading THEN UNCHANGED <<loading, fetched>>
  ELSE /\ fetched < MaxFetches /\ fetched' = fetched + 1
       /\ loading' = loading \cup {url}

(* The effect of these places on the address url: a picture of the cache   *)
(* is shown at once.                                                       *)
Effects(ps, url) ==
  /\ pfp' = [p \in Places |-> IF p \in ps /\ url \in {Nil} \cup cache THEN url ELSE pfp[p]]
  /\ effect' = [p \in Places |-> IF p \notin ps THEN effect[p]
                                 ELSE IF url \in cache THEN Nil ELSE url]
  /\ IF ps = {} THEN UNCHANGED <<loading, fetched>> ELSE FetchPfpWithCache(url)

MountPlace(p) ==
  /\ p \notin places
  /\ places' = places \cup {p}
  /\ Effects({p}, picture)
  /\ UNCHANGED <<picture, stale, cache, failed, users, noticeVars>>

(* What a place waited for it no longer hears of. *)
UnmountPlace(p) ==
  /\ p \in places
  /\ places' = places \ {p} /\ failed' = failed \ {p}
  /\ pfp' = [pfp EXCEPT ![p] = Nil] /\ effect' = [effect EXCEPT ![p] = Nil]
  /\ stale' = [stale EXCEPT ![p] = {}]
  /\ UNCHANGED <<picture, cache, loading, users, fetched, noticeVars>>

(* A fetch of the user ends while places are mounted, or not: the     *)
(* earlier effects are cleaned up before the new ones.                     *)
SetUser(url) ==
  /\ users < MaxUsers /\ users' = users + 1
  /\ url # picture /\ picture' = url
  /\ stale' = [p \in Places |-> stale[p] \cup ({effect[p]} \ {Nil})]
  /\ Effects(places, url)
  /\ UNCHANGED <<places, cache, failed, noticeVars>>

(* Seeded fault: an effect that was cleaned up shows its picture all the   *)
(* same.                                                                   *)
LoadedAnyway(url) ==
  /\ url \in loading /\ loading' = loading \ {url} /\ cache' = cache \cup {url}
  /\ pfp' = [p \in Places |-> IF url \in stale[p] \cup {effect[p]} THEN url ELSE pfp[p]]
  /\ effect' = [p \in Places |-> IF effect[p] = url THEN Nil ELSE effect[p]]
  /\ stale' = [p \in Places |-> stale[p] \ {url}]
  /\ UNCHANGED <<picture, places, failed, users, fetched, noticeVars>>

Loaded(url) ==
  /\ url \in loading /\ loading' = loading \ {url} /\ cache' = cache \cup {url}
  /\ pfp' = [p \in Places |-> IF effect[p] = url THEN url ELSE pfp[p]]
  /\ effect' = [p \in Places |-> IF effect[p] = url THEN Nil ELSE effect[p]]
  /\ stale' = [p \in Places |-> stale[p] \ {url}]
  /\ UNCHANGED <<picture, places, failed, users, fetched, noticeVars>>

(* The next to ask may try again.  The failure, unlike the picture, is     *)
(* heard by effects that were cleaned up, and takes a newer picture away.  *)
LoadFails(url) ==
  LET heard == {p \in Places : url \in stale[p] \cup {effect[p]}} IN
  /\ url \in loading /\ loading' = loading \ {url}
  /\ pfp' = [p \in Places |-> IF p \in heard THEN Nil ELSE pfp[p]]
  /\ effect' = [p \in Places |-> IF effect[p] = url THEN Nil ELSE effect[p]]
  /\ stale' = [p \in Places |-> stale[p] \ {url}]
  /\ failed' = failed \cup heard
  /\ UNCHANGED <<picture, places, cache, users, fetched, noticeVars>>

Next ==
  \/ \E n \in Notices : ShowError(n)
  \/ TimeOut \/ Dismiss
  \/ \E p \in Places : MountPlace(p) \/ UnmountPlace(p)
  \/ \E url \in Pictures \cup {Nil} : SetUser(url)
  \/ \E url \in Pictures : Loaded(url) \/ LoadFails(url)

Spec == Init /\ [][Next]_vars
-------------------------------------------------------------------------------
(* Whatever notices came, stayed and were dismissed before it: until its   *)
(* time is over a notice is on the page, unless a later one took its place *)
(* or the time-out of one that was not over when it came took it away; and *)
(* it is visible, unless the user dismissed it or one of those.  (These    *)
(* cases the code has: the time-out of an older notice cuts a newer one    *)
(* short, and a dismissed card hides it.)  None is there after its time.   *)
NoticesSeen ==
  /\ \A n \in Range(timers) :
       \/ error = n /\ (visible \/ dismissed \cap (earlier[n] \cup {n}) # {})
       \/ n # Last(timers)
       \/ earlier[n] \ Range(timers) # {}
  /\ error \in Range(timers) \cup {Nil}

(* A place that waits for nothing shows the picture of the user there is,  *)
(* and none only if a download it waited for failed: downloads that end    *)
(* late, or after those of the next user, change nothing else.             *)
PicturesAreTheirs ==
  \A p \in places : effect[p] = Nil => pfp[p] = picture \/ (pfp[p] = Nil /\ p \in failed)
===============================================================================
