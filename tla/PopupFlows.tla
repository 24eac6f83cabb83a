------------------------------ MODULE PopupFlows ------------------------------
(***************************************************************************)
(* Signing in and buying credits from the desktop client.  The main        *)
(* process (main/index.ts) opens a popup window and a server on one fixed  *)
(* port, at which the popup is to end; when it does, or when the popup is  *)
(* closed, the server goes and the page is to learn who its user is        *)
(* (contexts/UserContext.tsx).                                             *)
(*                                                                         *)
(* A step is one event of the main process, of the page, of a popup or of  *)
(* the server side.  To listen and to open the popup are one step: what    *)
(* listen reports it reports before any other event.  To close a window    *)
(* takes time: its "closed" is a step of its own.                          *)
(***************************************************************************)
EXTENDS Naturals, FiniteSets

CONSTANTS
  AuthFlows, Purchases,  \* invocations of startAuthFlow, of startPurchaseFlow
  Packages,            \* what can be bought
  MaxSignOuts,         \* bound: how often the user signs out
  Nil

Flows == AuthFlows \cup Purchases

ASSUME FlowsAssumption == AuthFlows \cap Purchases = {} /\ Nil \notin Flows \cup Packages
ASSUME BoundAssumption == MaxSignOuts \in Nat

VARIABLES
  \* the main process
  port,        \* the flow whose server listens at REDIRECT_PORT, or Nil
  window,      \* the popup of each flow
  authWindow,  \* main's variable: the flow whose popup it is, or Nil
  \* the popups
  at,          \* what each popup shows
  paid,        \* the purchases whose checkout was completed
  signedIn,    \* whether the shared partition has the cookie of a live session
  \* the page
  page,        \* loading or mounted
  closings,    \* how many auth-window-closed are on their way to it
  asking,      \* purchases that wait for the user's transient token
  selected,    \* the purchase page's selectedPackage while isProcessing, or Nil
  mine,        \* the purchases that page will reset it for
  user,        \* its state: whether it has a user
  isLoading,   \* its state: whether it shows only that it fetches the profile
  fetches,     \* calls of /me in flight: their number, and what they answer
  signOut,     \* the page's call of signout, if there is one
  sent, seen,  \* history: how many fetches were sent; which one user is from
  crossed,     \* history: flows that had a popup when another's was closed
  signOuts     \* how often the user signed out

mainVars == <<port, window, authWindow>>
popupVars == <<at, paid, signedIn>>
orderVars == <<asking, selected, mine>>
pageVars == <<page, closings, orderVars, user, isLoading, fetches, signOut, sent, seen>>
pastVars == <<crossed, signOuts>>
vars == <<port, window, authWindow, at, paid, signedIn, page, closings, asking, selected, mine, user,
          isLoading, fetches, signOut, sent, seen, crossed, signOuts>>

Shown == {"open", "closing"}

Init ==
  /\ port = Nil /\ authWindow = Nil
  /\ window = [f \in Flows |-> "none"]
  /\ at = [f \in Flows |-> "nothing"]
  /\ paid = {}
  /\ signedIn \in BOOLEAN
  /\ page = "loading"
  /\ closings = 0 /\ asking = {} /\ selected = Nil /\ mine = {}
  /\ user = FALSE /\ isLoading = TRUE
  /\ fetches = {} /\ signOut = "none"
  /\ sent = 0 /\ seen = 0
  /\ crossed = {} /\ signOuts = 0

-------------------------------------------------------------------------------
(* The page.                                                               *)

(* The purchase page goes, and its state with it. *)
UnmountPurchases == selected' = Nil /\ mine' = {}

(* While it fetches its user the page shows nothing else (App.tsx). *)
FetchUser ==
  /\ isLoading' = TRUE
  /\ UnmountPurchases
  /\ sent' = sent + 1
  /\ fetches' = fetches \cup {[n |-> sent + 1, as |-> signedIn]}

(* A new page: what the old one waited for is lost with it.                *)
Load ==
  /\ page' = "loading"
  /\ closings' = 0 /\ asking' = {}
  /\ UnmountPurchases
  /\ user' = FALSE /\ isLoading' = TRUE
  /\ fetches' = {} /\ signOut' = "none"
  /\ UNCHANGED <<sent, seen>>

Mount ==
  /\ page = "loading"
  /\ page' = "mounted"
  /\ FetchUser
  /\ UNCHANGED <<closings, asking, user, signOut, seen>>
  /\ UNCHANGED <<mainVars, popupVars, pastVars>>

(* A page that is not mounted yet has no listener.                         *)
Hear ==
  /\ closings > 0
  /\ closings' = closings - 1
  /\ IF page = "mounted" THEN FetchUser
     ELSE UNCHANGED <<isLoading, fetches, sent, selected, mine>>
  /\ UNCHANGED <<page, asking, user, signOut, seen>>
  /\ UNCHANGED <<mainVars, popupVars, pastVars>>

(* 200 gives a user and 401 none.                                          *)
Answer(fetch) ==
  /\ fetch \in fetches
  /\ fetches' = fetches \ {fetch}
  /\ user' = fetch.as /\ seen' = fetch.n
  /\ isLoading' = FALSE
  /\ UNCHANGED <<page, closings, orderVars, signOut, sent>>
  /\ UNCHANGED <<mainVars, popupVars, pastVars>>

(* Another status or no answer: the page keeps the user it has.            *)
FetchFails(fetch) ==
  /\ fetch \in fetches
  /\ fetches' = fetches \ {fetch}
  /\ isLoading' = FALSE
  /\ UNCHANGED <<page, closings, orderVars, user, signOut, sent, seen>>
  /\ UNCHANGED <<mainVars, popupVars, pastVars>>

Ready == page = "mounted" /\ ~isLoading

SignOut ==
  /\ Ready /\ user /\ signOut = "none" /\ signOuts < MaxSignOuts
  /\ signOut' = "asked" /\ signedIn' = FALSE
  /\ signOuts' = signOuts + 1
  /\ UNCHANGED <<page, closings, orderVars, user, isLoading, fetches, sent, seen>>
  /\ UNCHANGED <<mainVars, at, paid, crossed>>

(* The page is loaded once signout has answered, and stays if it does not. *)
SignedOut ==
  /\ signOut = "asked"
  /\ \/ Load
     \/ /\ signOut' = "lost"
        /\ UNCHANGED <<page, closings, orderVars, user, isLoading, fetches, sent, seen>>
  /\ UNCHANGED <<mainVars, popupVars, pastVars>>

(* The button of package k is disabled while k is the selected one.        *)
CanBuy(k) == Ready /\ selected # k

(* The purchase page fetches the user once more before it asks for a popup.*)
Buy(f, k) ==
  /\ CanBuy(k) /\ window[f] = "none" /\ f \notin asking
  /\ asking' = asking \cup {f}
  /\ selected' = k /\ mine' = mine \cup {f}
  /\ UNCHANGED <<page, closings, user, isLoading, fetches, signOut, sent, seen>>
  /\ UNCHANGED <<mainVars, popupVars, pastVars>>

LeavePurchases ==
  /\ Ready /\ selected # Nil
  /\ UnmountPurchases
  /\ UNCHANGED <<page, closings, asking, user, isLoading, fetches, signOut, sent, seen>>
  /\ UNCHANGED <<mainVars, popupVars, pastVars>>

(* A purchase is over for the page when main has been asked for the popup, *)
(* or could not be: whatever package is selected by then no longer is.     *)
(* The refetchUser called last is not defined there.                       *)
Ordered(f) ==
  /\ asking' = asking \ {f}
  /\ selected' = IF f \in mine THEN Nil ELSE selected
  /\ mine' = mine \ {f}

-------------------------------------------------------------------------------
(* The main process.                                                       *)

(* The server of a flow listens and opens its popup; if the port is in use *)
(* there is an error nobody handles, and the flow has no popup.            *)
Open(f) ==
  IF port = Nil
  THEN /\ port' = f
       /\ window' = [window EXCEPT ![f] = "open"]
       /\ authWindow' = f
       /\ at' = [at EXCEPT ![f] = "work"]
  ELSE /\ window' = [window EXCEPT ![f] = "failed"]
       /\ UNCHANGED <<port, authWindow, at>>

StartAuthFlow(f) ==
  /\ Ready /\ ~user
  /\ window[f] = "none"
  /\ Open(f)
  /\ UNCHANGED <<paid, signedIn>>
  /\ UNCHANGED <<pageVars, pastVars>>

StartPurchaseFlow(f) ==
  /\ f \in asking
  /\ Ordered(f)
  /\ \/ signedIn /\ Open(f)
     \/ UNCHANGED <<mainVars, at>>
  /\ UNCHANGED <<paid, signedIn, page, closings, user, isLoading, fetches, signOut, sent, seen>>
  /\ UNCHANGED pastVars

(* Seeded fault: the server of a flow that is over stays.                  *)
LeaveServer(f) == port' = port

CloseServer(f) == port' = IF port = f THEN Nil ELSE port

(* Seeded fault: main's variable outlives the window.                      *)
KeepAuthWindow == authWindow' = authWindow

ForgetAuthWindow == authWindow' = Nil

ClosePopup ==
  window' = IF authWindow = Nil THEN window ELSE [window EXCEPT ![authWindow] = "closing"]

(* Seeded fault: the page is not told.                                     *)
TellNobody == closings' = closings

TellPage == closings' = closings + 1

(* A popup calls back: the server that listens closes the popup main knows *)
(* of, loads the page anew and closes itself.                              *)
Callback(f) ==
  /\ at[f] = "redirected" /\ window[f] \in Shown
  /\ IF port = Nil
     THEN /\ at' = [at EXCEPT ![f] = "refused"]
          /\ UNCHANGED <<mainVars, pageVars>>
     ELSE /\ at' = [at EXCEPT ![f] = "ended"]
          /\ ClosePopup /\ ForgetAuthWindow
          /\ CloseServer(port)
          /\ Load
  /\ UNCHANGED <<paid, signedIn, pastVars>>

CloseByUser(f) ==
  /\ window[f] = "open"
  /\ window' = [window EXCEPT ![f] = "closing"]
  /\ UNCHANGED <<port, authWindow>>
  /\ UNCHANGED <<popupVars, pageVars, pastVars>>

(* The popup is gone: its server closes if it has not, the page is told.   *)
Closed(f) ==
  /\ window[f] = "closing"
  /\ window' = [window EXCEPT ![f] = "gone"]
  /\ CloseServer(f) /\ ForgetAuthWindow
  /\ TellPage
  /\ crossed' = crossed \cup {g \in Flows \ {f} : window[g] \in Shown}
  /\ UNCHANGED <<page, orderVars, user, isLoading, fetches, signOut, sent, seen, signOuts>>
  /\ UNCHANGED popupVars

-------------------------------------------------------------------------------
(* The popups.                                                             *)

(* The user consents: the server side signs in, and redirects the popup to *)
(* the redirect it was opened with.                                        *)
Consent(f) ==
  /\ at[f] = "work" /\ window[f] \in Shown
  /\ signedIn' = TRUE
  /\ at' = [at EXCEPT ![f] = "redirected"]
  /\ UNCHANGED paid
  /\ UNCHANGED <<mainVars, pageVars, pastVars>>

(* The user pays: the checkout page goes to its RedirectURL.  That is      *)
(* empty, as the server side reads it from "redirectURL" and main sends    *)
(* "redirect", and so it is the checkout page once more.                   *)
Pay(f) ==
  /\ at[f] = "work" /\ window[f] \in Shown
  /\ paid' = paid \cup {f}
  /\ UNCHANGED <<at, signedIn>>
  /\ UNCHANGED <<mainVars, pageVars, pastVars>>

Idle ==
  /\ page = "mounted" /\ closings = 0 /\ fetches = {} /\ asking = {}
  /\ \A f \in Flows : window[f] \notin Shown
  /\ UNCHANGED vars

Next ==
  \/ Mount \/ Hear \/ SignOut \/ SignedOut
  \/ \E fetch \in fetches : Answer(fetch) \/ FetchFails(fetch)
  \/ \E f \in AuthFlows : StartAuthFlow(f) \/ Consent(f)
  \/ \E f \in Purchases :
       (\E k \in Packages : Buy(f, k)) \/ StartPurchaseFlow(f) \/ Pay(f)
  \/ LeavePurchases
  \/ \E f \in Flows : Callback(f) \/ CloseByUser(f) \/ Closed(f)
  \/ Idle

Spec == Init /\ [][Next]_vars
-------------------------------------------------------------------------------

(* The port is held for a popup that is still to call back, and such a     *)
(* popup has it: no callback finds nobody or the server of another flow,   *)
(* and no flow that is over keeps the next one from its popup.             *)
PortHasPopup ==
  \A f \in Flows :
    port = f <=> window[f] \in Shown /\ at[f] \in {"work", "redirected"}

(* The window main would close is there (on one that is not, close would   *)
(* throw), and a popup that has called back is closed, unless another      *)
(* popup's closing, which takes time, made main forget it.                 *)
AuthWindowIsThere ==
  /\ authWindow # Nil => window[authWindow] \in Shown
  /\ \A f \in Flows : at[f] = "ended" /\ window[f] = "open" => f \in crossed

(* Once all popups are closed and heard of, and the last fetch was         *)
(* answered last, the page knows whether its user is signed in and no      *)
(* longer says that it fetches the profile (UserContext.tsx): also after a *)
(* popup that was closed between the consent and the callback, or whose  *)
(* closing reached a page that was loading.                                *)
PageKnowsUser ==
  (/\ page = "mounted" /\ closings = 0 /\ signOut = "none"
   /\ fetches = {} /\ seen = sent
   /\ \A f \in Flows : window[f] \notin Shown)
  => user = signedIn /\ ~isLoading
===============================================================================
