---------------------------- MODULE SignInProofs ----------------------------
(***************************************************************************)
(* Signing in, at the server (Sessions) and in the desktop client          *)
(* (PopupFlows).                                                           *)
(*                                                                         *)
(* Of the sessions, for any number of requests, old sessions and broken    *)
(* calls: a success ends what there was when it began, a cookie works      *)
(* until its session was listed, and unless a call breaks requests all     *)
(* fail only if two of them deleted a session.                             *)
(*                                                                         *)
(* Of the popups, for any number of sign-ins, purchases, packages and      *)
(* sign-outs: the port is held for the popup that is to call back, the     *)
(* window main would close is there, and the page learns who its user is.  *)
(* The argument: main's variable never names another popup than the one    *)
(* whose server listens, and whatever may change who is signed in leaves a *)
(* popup open, a closing on its way, or a signout in flight, each of which *)
(* ends in a new fetch.                                                    *)
(***************************************************************************)
EXTENDS Sessions, PopupFlows, TLAPS

-------------------------------------------------------------------------------
(* The sessions.                                                           *)

(* The types the argument needs. *)
SessionTypes ==
  /\ pc \in [Handlers -> {"idle"} \cup Working \cup Ended]
  /\ todo \in [Handlers -> SUBSET Sessions] /\ before \in [Handlers -> SUBSET Sessions]
  /\ stored \subseteq Sessions /\ cookies \subseteq Sessions
  /\ deleted \in [Handlers -> SUBSET Sessions]
  /\ lateSaves \subseteq SignIns /\ faults \in Nat
  /\ \A h \in SignOuts : pc[h] # "saving"

(* The sign-ins whose session may still come to be stored. *)
Unsaved == {s \in SignIns : pc[s] \in {"idle"} \cup Working} \cup lateSaves

(* Their sessions are new to all: a session is stored once, so that no     *)
(* session a request set out to end comes back.                            *)
SavedOnce ==
  /\ \A s \in lateSaves : pc[s] = "failed"
  /\ Unsaved \cap (stored \cup cookies) = {}
  /\ \A h \in Handlers : Unsaved \cap before[h] = {}

(* What a request has yet to end is on its list. *)
Clearing ==
  \A h \in Handlers :
    /\ pc[h] \in {"deleting", "saving", "done"} => before[h] \cap stored \subseteq todo[h]
    /\ pc[h] = "deleting" => todo[h] # {}
    /\ pc[h] \in {"saving", "done"} => todo[h] = {}

(* Only what was listed is deleted. *)
DeletesListed == lateDeletes \subseteq listed /\ \A h \in Handlers : todo[h] \subseteq listed

(* While nothing breaks: what was listed and is gone was deleted by some   *)
(* request, which went on; and who failed met a session another deleted.   *)
DeletersGoOn ==
  faults = 0 =>
    /\ lateSaves = {} /\ lateDeletes = {}
    /\ \A x \in listed : x \in stored \/ \E g \in Handlers : x \in deleted[g]
    /\ \A h \in Handlers :
         /\ deleted[h] \cap todo[h] = {}
         /\ pc[h] = "failed" =>
              \E x \in todo[h], g \in Handlers : g # h /\ x \in deleted[g]
         /\ deleted[h] # {} => pc[h] \in {"deleting", "saving", "done", "failed"}

SessionInv ==
  /\ SessionTypes /\ SavedOnce /\ Clearing /\ DeletesListed /\ CookiesWork
  /\ DeletersGoOn

LEMMA SessionsInitInv == SessionsInit => SessionInv
  <1> SUFFICES ASSUME SessionsInit PROVE SessionInv
    OBVIOUS
  <1> USE DEF SessionsInit
  <1>1. SessionTypes
    BY DEF SessionTypes, Sessions, Handlers
  <1>2. SavedOnce
    BY HandlersAssumption DEF SavedOnce, Unsaved, Handlers
  <1>3. Clearing /\ DeletesListed /\ CookiesWork
    BY DEF Clearing, DeletesListed, CookiesWork
  <1>4. DeletersGoOn
    BY DEF DeletersGoOn
  <1> QED
    BY <1>1, <1>2, <1>3, <1>4 DEF SessionInv

LEMMA SavedOnceStep == SessionInv /\ SessionsNext => SessionTypes' /\ SavedOnce'
  <1> SUFFICES ASSUME SessionInv, SessionsNext PROVE SessionTypes' /\ SavedOnce'
    OBVIOUS
  <1> USE HandlersAssumption DEF SessionInv, SessionTypes, SavedOnce, Unsaved, Goto, Put, Drop,
         Working, Ended, Handlers, Sessions
  <1>1. ASSUME NEW h \in Handlers, Begin(h) PROVE SessionTypes' /\ SavedOnce'
    BY <1>1 DEF Begin
  <1>2. ASSUME NEW h \in Handlers, List(h) PROVE SessionTypes' /\ SavedOnce'
    BY <1>2 DEF List, AfterClearing
  <1>3. ASSUME NEW h \in Handlers, Delete(h) PROVE SessionTypes' /\ SavedOnce'
    BY <1>3 DEF Delete, AfterClearing
  <1>4. ASSUME NEW h \in Handlers, Break(h) PROVE SessionTypes' /\ SavedOnce'
    BY <1>4 DEF Break
  <1>5. ASSUME NEW s \in SignIns, Save(s) PROVE SessionTypes' /\ SavedOnce'
    BY <1>5 DEF Save
  <1>6. CASE LandLate
    BY <1>6 DEF LandLate
  <1>7. CASE AllEnded
    BY <1>7 DEF AllEnded, sessionsVars
  <1> QED
    BY <1>1, <1>2, <1>3, <1>4, <1>5, <1>6, <1>7 DEF SessionsNext

LEMMA ClearingStep == SessionInv /\ SessionsNext => Clearing' /\ DeletesListed' /\ CookiesWork'
  <1> SUFFICES ASSUME SessionInv, SessionsNext PROVE Clearing' /\ DeletesListed' /\ CookiesWork'
    OBVIOUS
  <1> USE HandlersAssumption DEF SessionInv, SessionTypes, SavedOnce, Unsaved, Clearing,
         DeletesListed, CookiesWork, Goto, Put, Drop, Working, Ended, Handlers, Sessions
  <1>1. ASSUME NEW h \in Handlers, Begin(h) PROVE Clearing' /\ DeletesListed' /\ CookiesWork'
    BY <1>1 DEF Begin
  <1>2. ASSUME NEW h \in Handlers, List(h) PROVE Clearing' /\ DeletesListed' /\ CookiesWork'
    BY <1>2 DEF List, AfterClearing
  <1>3. ASSUME NEW h \in Handlers, Delete(h) PROVE Clearing' /\ DeletesListed' /\ CookiesWork'
    BY <1>3 DEF Delete, AfterClearing
  <1>4. ASSUME NEW h \in Handlers, Break(h) PROVE Clearing' /\ DeletesListed' /\ CookiesWork'
    BY <1>4 DEF Break
  <1>5. ASSUME NEW s \in SignIns, Save(s) PROVE Clearing' /\ DeletesListed' /\ CookiesWork'
    BY <1>5 DEF Save
  <1>6. CASE LandLate
    BY <1>6 DEF LandLate
  <1>7. CASE AllEnded
    BY <1>7 DEF AllEnded, sessionsVars
  <1> QED
    BY <1>1, <1>2, <1>3, <1>4, <1>5, <1>6, <1>7 DEF SessionsNext

LEMMA DeletersStep == SessionInv /\ SessionsNext => DeletersGoOn'
  <1> SUFFICES ASSUME SessionInv, SessionsNext, faults' = 0 PROVE DeletersGoOn'
    BY DEF DeletersGoOn
  <1> USE HandlersAssumption DEF SessionInv, SessionTypes, Clearing, DeletesListed, DeletersGoOn,
         Goto, Put, Drop, Working, Ended, Handlers, Sessions
  <1>1. ASSUME NEW h \in Handlers, Begin(h) PROVE DeletersGoOn'
    BY <1>1 DEF Begin
  <1>2. ASSUME NEW h \in Handlers, List(h) PROVE DeletersGoOn'
    BY <1>2 DEF List, AfterClearing
  <1>3. ASSUME NEW h \in Handlers, Delete(h) PROVE DeletersGoOn'
    <2>1. PICK x \in todo[h] :
            \/ /\ x \in stored
               /\ stored' = stored \ {x}
               /\ todo' = [todo EXCEPT ![h] = @ \ {x}]
               /\ deleted' = [deleted EXCEPT ![h] = @ \cup {x}]
               /\ Goto(h, IF todo[h] = {x} THEN AfterClearing(h) ELSE "deleting")
            \/ /\ x \notin stored
               /\ Goto(h, "failed")
               /\ UNCHANGED <<stored, todo, deleted>>
      BY <1>3 DEF Delete
    <2>2. pc[h] = "deleting" /\ UNCHANGED <<lateSaves, lateDeletes, listed, faults>>
      BY <1>3 DEF Delete
    <2>3. CASE x \in stored
      BY <2>1, <2>2, <2>3 DEF AfterClearing
    <2>4. CASE x \notin stored
      <3>1. PICK g \in Handlers : x \in deleted[g]
        BY <2>1, <2>2, <2>4
      <3>2. g # h
        BY <2>1, <3>1, <2>2
      <3> QED
        BY <2>1, <2>2, <2>4, <3>1, <3>2
    <2> QED
      BY <2>3, <2>4
  <1>4. ASSUME NEW h \in Handlers, Break(h) PROVE DeletersGoOn'
    BY <1>4 DEF Break
  <1>5. ASSUME NEW s \in SignIns, Save(s) PROVE DeletersGoOn'
    BY <1>5 DEF Save
  <1>6. CASE LandLate
    BY <1>6 DEF LandLate
  <1>7. CASE AllEnded
    BY <1>7 DEF AllEnded, sessionsVars
  <1> QED
    BY <1>1, <1>2, <1>3, <1>4, <1>5, <1>6, <1>7 DEF SessionsNext

LEMMA SessionsInductive == SessionsSpec => []SessionInv
  <1>1. SessionInv /\ UNCHANGED sessionsVars => SessionInv'
    BY DEF SessionInv, sessionsVars, SessionTypes, SavedOnce, Unsaved, Clearing, DeletesListed,
       CookiesWork, DeletersGoOn
  <1>2. SessionInv /\ SessionsNext => SessionInv'
    BY SavedOnceStep, ClearingStep, DeletersStep DEF SessionInv
  <1> QED
    BY <1>1, <1>2, SessionsInitInv, PTL DEF SessionsSpec

(* What a request that succeeded set out to end is over and stays so       *)
(* (deleteAllExistingUserSessions): also a session whose Upsert had not    *)
(* been answered, and the cookie of one that was deleted before.           *)
THEOREM ClearedStaysCleared == SessionsSpec => []ClearedForGood
  <1>1. SessionInv => ClearedForGood
    BY DEF SessionInv, Clearing, ClearedForGood
  <1> QED
    BY <1>1, SessionsInductive, PTL

(* A cookie that no longer works is that of a session some request listed  *)
(* in order to delete it (signInUser, AuthMiddleware).                     *)
THEOREM CookiesWorkUntilListed == SessionsSpec => []CookiesWork
  <1>1. SessionInv => CookiesWork
    BY DEF SessionInv
  <1> QED
    BY <1>1, SessionsInductive, PTL

(* Requests that fail over each other's deletions all fail only if two of  *)
(* them deleted a session (deleteAllExistingUserSessions): who failed met  *)
(* one another request had deleted, and that one failed over a third's.    *)
THEOREM NotAllFail == SessionsSpec => []SomeoneSucceeds
  <1>1. SessionInv => SomeoneSucceeds
    <2> SUFFICES ASSUME SessionInv, faults = 0, \A h \in Handlers : pc[h] \in Ended,
                        \A h \in Handlers : pc[h] # "done",
                        NEW g \in Handlers, pc[g] # "refused"
                 PROVE  \E q, h \in Handlers : q # h /\ deleted[q] # {} /\ deleted[h] # {}
      BY DEF SomeoneSucceeds
    <2> USE DEF SessionInv, DeletersGoOn
    <2>1. pc[g] = "failed"
      BY DEF Ended
    <2>2. PICK h \in Handlers : deleted[h] # {}
      BY <2>1
    <2>3. pc[h] = "failed"
      BY <2>2 DEF Ended
    <2>4. PICK q \in Handlers : q # h /\ deleted[q] # {}
      BY <2>3
    <2> QED
      BY <2>2, <2>4
  <1> QED
    BY <1>1, SessionsInductive, PTL
-------------------------------------------------------------------------------
(* The popups.                                                             *)

(* The types the argument needs. *)
Types ==
  /\ port \in Flows \cup {Nil} /\ authWindow \in Flows \cup {Nil}
  /\ window \in [Flows -> {"none", "failed", "open", "closing", "gone"}]
  /\ at \in [Flows -> {"nothing", "work", "redirected", "refused", "ended"}]
  /\ closings \in Nat /\ sent \in Nat /\ seen \in Nat
  /\ page \in {"loading", "mounted"}
  /\ signOut \in {"none", "asked", "lost"}

(* A purchase that waits for its token has no popup yet. *)
AskingHaveNone == asking \subseteq {f \in Purchases : window[f] = "none"}

(* Main knows of no other popup than that of the server that listens, and  *)
(* of all that are open, but those another's closing made it forget.       *)
MainKnows ==
  /\ authWindow # Nil => authWindow = port
  /\ \A f \in Flows : window[f] = "open" /\ authWindow # f => f \in crossed

(* Something is under way that ends in a fetch. *)
Unsettled == closings > 0 \/ signOut # "none" \/ \E f \in Flows : window[f] \in Shown

(* The last fetch that was sent answers, or has answered, with what is so  *)
(* now; and the page shows that it fetches only while it does.             *)
LastFetchKnows ==
  /\ seen \in 0 .. sent
  /\ \A fetch \in fetches : fetch.n \in 0 .. sent
  /\ page = "mounted" =>
       /\ isLoading => fetches # {}
       /\ \/ Unsettled
          \/ /\ \A fetch \in fetches : fetch.n = sent => fetch.as = signedIn
             /\ seen = sent => user = signedIn

IInv ==
  /\ Types /\ AskingHaveNone /\ MainKnows /\ LastFetchKnows
  /\ PortHasPopup /\ AuthWindowIsThere

USE FlowsAssumption, BoundAssumption DEF Flows, Shown

LEMMA InitInv == Init => IInv
  BY DEF Init, IInv, Types, AskingHaveNone, MainKnows, LastFetchKnows, PortHasPopup,
     AuthWindowIsThere

USE DEF vars, mainVars, popupVars, orderVars, pageVars, pastVars

(* A step of the page alone. *)
LEMMA PageStep ==
  ASSUME IInv, NEW fetch,
         Mount \/ Hear \/ SignOut \/ SignedOut \/ Answer(fetch) \/ FetchFails(fetch)
         \/ LeavePurchases
  PROVE  IInv'
  <1> USE DEF IInv, Types, AskingHaveNone, MainKnows, LastFetchKnows, PortHasPopup,
         AuthWindowIsThere, Unsettled
  <1>0. ASSUME FetchUser, UNCHANGED <<signedIn, seen>> PROVE LastFetchKnows'
    <2> DEFINE new == [n |-> sent + 1, as |-> signedIn]
    <2>1. new.n = sent + 1 /\ new.as = signedIn
      OBVIOUS
    <2>2. fetches' = fetches \cup {new} /\ sent' = sent + 1
      BY <1>0 DEF FetchUser
    <2> HIDE DEF new
    <2>3. (seen \in 0 .. sent)' /\ \A fetch2 \in fetches' : fetch2.n \in 0 .. sent'
      BY <1>0, <2>1, <2>2
    <2>4. \A fetch2 \in fetches' : fetch2.n = sent' => fetch2.as = signedIn'
      BY <1>0, <2>1, <2>2
    <2>5. fetches' # {} /\ seen' # sent'
      BY <1>0, <2>2
    <2> QED
      BY <2>3, <2>4, <2>5
  <1>1. CASE Mount
    <2>1. Types' /\ LastFetchKnows'
      BY <1>0, <1>1 DEF Mount, FetchUser, UnmountPurchases
    <2> QED
      BY <1>1, <2>1 DEF Mount, FetchUser, UnmountPurchases
  <1>2. CASE Hear
    <2>1. CASE page = "mounted"
      <3>1. Types' /\ LastFetchKnows'
        BY <1>0, <1>2, <2>1 DEF Hear, FetchUser, UnmountPurchases
      <3> QED
        BY <1>2, <2>1, <3>1 DEF Hear, FetchUser, UnmountPurchases
    <2>2. CASE page # "mounted"
      BY <1>2, <2>2 DEF Hear
    <2> QED
      BY <2>1, <2>2
  <1>3. CASE SignOut
    BY <1>3 DEF SignOut, Ready
  <1>4. CASE SignedOut
    BY <1>4 DEF SignedOut, Load, UnmountPurchases
  <1>5. CASE Answer(fetch)
    BY <1>5 DEF Answer
  <1>6. CASE FetchFails(fetch)
    BY <1>6 DEF FetchFails
  <1>7. CASE LeavePurchases
    BY <1>7 DEF LeavePurchases, UnmountPurchases, Ready
  <1> QED
    BY <1>1, <1>2, <1>3, <1>4, <1>5, <1>6, <1>7

(* A flow is asked for, or begins. *)
LEMMA BeginStep ==
  ASSUME IInv, NEW f \in Flows,
         \/ f \in AuthFlows /\ StartAuthFlow(f)
         \/ f \in Purchases /\ (StartPurchaseFlow(f) \/ \E k \in Packages : Buy(f, k))
  PROVE  IInv'
  <1> USE DEF IInv, Types, AskingHaveNone, MainKnows, LastFetchKnows, PortHasPopup,
         AuthWindowIsThere, Unsettled
  <1>1. CASE f \in AuthFlows /\ StartAuthFlow(f)
    BY <1>1 DEF StartAuthFlow, Open, Ready
  <1>2. CASE f \in Purchases /\ StartPurchaseFlow(f)
    BY <1>2 DEF StartPurchaseFlow, Open, Ordered
  <1>3. CASE f \in Purchases /\ \E k \in Packages : Buy(f, k)
    BY <1>3 DEF Buy, CanBuy, Ready
  <1> QED
    BY <1>1, <1>2, <1>3

(* A popup goes on, or goes. *)
LEMMA PopupStep ==
  ASSUME IInv, NEW f \in Flows,
         Consent(f) \/ Pay(f) \/ Callback(f) \/ CloseByUser(f) \/ Closed(f)
  PROVE  IInv'
  <1> USE DEF IInv, Types, AskingHaveNone, MainKnows, LastFetchKnows, PortHasPopup,
         AuthWindowIsThere, Unsettled
  <1>1. CASE Consent(f)
    BY <1>1 DEF Consent
  <1>2. CASE Pay(f)
    BY <1>2 DEF Pay
  <1>3. CASE Callback(f)
    BY <1>3 DEF Callback, ClosePopup, ForgetAuthWindow, CloseServer, Load, UnmountPurchases
  <1>4. CASE CloseByUser(f)
    BY <1>4 DEF CloseByUser
  <1>5. CASE Closed(f)
    BY <1>5 DEF Closed, CloseServer, ForgetAuthWindow, TellPage
  <1> QED
    BY <1>1, <1>2, <1>3, <1>4, <1>5

LEMMA NextInv == IInv /\ [Next]_vars => IInv'
  <1> SUFFICES ASSUME IInv, [Next]_vars PROVE IInv'
    OBVIOUS
  <1>1. CASE Idle \/ UNCHANGED vars
    BY <1>1 DEF Idle, IInv, Types, AskingHaveNone, MainKnows, LastFetchKnows, PortHasPopup,
       AuthWindowIsThere, Unsettled
  <1> QED
    BY <1>1, PageStep, BeginStep, PopupStep DEF Next

LEMMA Inductive == Spec => []IInv
  BY InitInv, NextInv, PTL DEF Spec

(* The port is held for the popup that is to call back, and such a popup   *)
(* has it (startAuthFlow, startPurchaseFlow).                              *)
THEOREM PortIsForPopup == Spec => []PortHasPopup
  BY Inductive, PTL DEF IInv

(* What the callback of a flow closes is there, and it closes the popup    *)
(* that called (authWindow in main/index.ts).                              *)
THEOREM AuthWindowIsOpen == Spec => []AuthWindowIsThere
  BY Inductive, PTL DEF IInv

(* Once nothing is under way the page has the user there is, and says so   *)
(* (fetchUser in UserContext.tsx).                                         *)
THEOREM PageLearnsUser == Spec => []PageKnowsUser
  <1>1. IInv => PageKnowsUser
    BY DEF IInv, Types, LastFetchKnows, Unsettled, PageKnowsUser
  <1> QED
    BY <1>1, Inductive, PTL
===============================================================================
