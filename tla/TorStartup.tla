------------------------------ MODULE TorStartup ------------------------------
(***************************************************************************)
(* The start of the desktop client: the main process starts Tor and waits  *)
(* for it to bootstrap (main/torproxy.ts, main/index.ts), the page learns  *)
(* of it by a question at its mount and by an event (renderer App.tsx).    *)
(*                                                                         *)
(* A step is one event of the main process or of the page, with the        *)
(* promise continuations it sets off.  What main sends to a page, answers  *)
(* and events alike, arrives in the order it was sent; a page that is not  *)
(* mounted yet has no listener for it.                                     *)
(***************************************************************************)
EXTENDS Naturals, Sequences

CONSTANT MaxLoads  \* bound: how many times a page is loaded

ASSUME MaxLoadsAssumption == MaxLoads \in Nat \ {0}

VARIABLES
  isMac,       \* process.platform = 'darwin': the app outlives its windows
  app,         \* the main process: running, quit by its user, or exited with 1
  tor,         \* the child process; "told" once it was sent a signal
  timer,       \* whether the bootstrap timeout is armed
  waiting,     \* the promise of waitForTor
  torIsReady,  \* main's variable, and its answer to get-tor-status
  window,      \* what became of mainWindow: a page loading or mounted, or closed
  toPage,      \* what main has sent to the page: events and answers
  asking,      \* whether main has the page's question
  torReady,    \* the page's state: whether it shows more than the Tor spinner
  loads,       \* how many times a page was loaded
  endedWell    \* history: Tor closed with code 0 before it had bootstrapped

mainVars == <<isMac, app, tor, timer, waiting, torIsReady>>
pageVars == <<window, toPage, asking, torReady, loads>>
torVars == <<isMac, app, tor, timer, waiting, torIsReady, window, toPage, asking,
          torReady, loads, endedWell>>

Messages == {"tor-ready", "true", "false"}
Running == app = "running"
HasPage == window \in {"loading", "mounted"}

(* whenReady runs through to createWindow before any event of Tor's.       *)
TorInit ==
  /\ isMac \in BOOLEAN
  /\ app = "running"
  /\ \/ tor = "absent" /\ timer = FALSE
     \/ tor = "starting" /\ timer = TRUE
  /\ waiting = "pending"
  /\ torIsReady = FALSE
  /\ window = "loading"
  /\ toPage = <<>>
  /\ asking = FALSE
  /\ torReady = FALSE
  /\ loads = 1
  /\ endedWell = FALSE

-------------------------------------------------------------------------------
(* The promise of waitForTor and what main does with it.                   *)

(* process.exit runs no before-quit handler.                               *)
Reject ==
  IF waiting = "pending"
    THEN waiting' = "rejected" /\ app' = "exited" /\ UNCHANGED <<torIsReady, toPage>>
    ELSE UNCHANGED <<waiting, app, torIsReady, toPage>>

(* mainWindow is still the window after it was closed; using it throws,    *)
(* and the catch exits.                                                    *)
Resolve ==
  IF waiting = "pending"
    THEN /\ waiting' = "resolved"
         /\ torIsReady' = TRUE
         /\ app' = IF window = "closed" THEN "exited" ELSE "running"
         /\ toPage' = IF window = "mounted" THEN Append(toPage, "tor-ready") ELSE toPage
    ELSE UNCHANGED <<waiting, app, torIsReady, toPage>>

(* There is no Tor binary for this platform.                               *)
NoTor ==
  /\ Running /\ tor = "absent"
  /\ Reject
  /\ UNCHANGED <<isMac, tor, timer, window, asking, torReady, loads, endedWell>>

(* Tor prints that it has bootstrapped.                                    *)
Bootstrap ==
  /\ Running /\ tor = "starting"
  /\ tor' = "up"
  /\ timer' = FALSE
  /\ Resolve
  /\ UNCHANGED <<isMac, window, asking, torReady, loads, endedWell>>

(* Seeded fault: an error clears the timeout and is otherwise only logged. *)
FailQuietly ==
  /\ Running /\ tor \in {"starting", "up"}
  /\ tor' = "gone"
  /\ timer' = FALSE
  /\ UNCHANGED <<isMac, app, waiting, torIsReady, endedWell>>
  /\ UNCHANGED pageVars

(* The child could not be spawned, or closed with an error or by a signal. *)
Fail ==
  /\ Running /\ tor \in {"starting", "up"}
  /\ tor' = "gone"
  /\ timer' = FALSE
  /\ Reject
  /\ UNCHANGED <<isMac, window, asking, torReady, loads, endedWell>>

(* The child closed with code 0: the timeout is cleared, nothing settles.  *)
EndWell ==
  /\ Running /\ tor \in {"starting", "up"}
  /\ tor' = "gone"
  /\ timer' = FALSE
  /\ endedWell' = (endedWell \/ tor = "starting")
  /\ UNCHANGED <<isMac, app, waiting, torIsReady>>
  /\ UNCHANGED pageVars

(* Seeded fault: the timeout leaves Tor running.                           *)
TimeOutSparing ==
  /\ Running /\ timer
  /\ timer' = FALSE
  /\ Reject
  /\ UNCHANGED <<isMac, tor, window, asking, torReady, loads, endedWell>>

TimeOut ==
  /\ Running /\ timer
  /\ timer' = FALSE
  /\ tor' = "told"
  /\ Reject
  /\ UNCHANGED <<isMac, window, asking, torReady, loads, endedWell>>

(* before-quit stops Tor.                                                  *)
Stopped == IF tor \in {"starting", "up"} THEN "told" ELSE tor

Quit ==
  /\ Running
  /\ app' = "quit"
  /\ tor' = Stopped
  /\ UNCHANGED <<isMac, timer, waiting, torIsReady, endedWell>>
  /\ UNCHANGED pageVars

(* The last window was closed; elsewhere than on a Mac that is to quit.    *)
CloseWindow ==
  /\ Running /\ HasPage
  /\ window' = "closed"
  /\ toPage' = <<>> /\ asking' = FALSE /\ torReady' = FALSE
  /\ \/ isMac /\ UNCHANGED <<app, tor>>
     \/ ~isMac /\ app' = "quit" /\ tor' = Stopped
  /\ UNCHANGED <<isMac, timer, waiting, torIsReady, loads, endedWell>>

-------------------------------------------------------------------------------
(* The page.                                                               *)

(* The page is reloaded, or on a Mac a closed window is made anew.         *)
Load ==
  /\ Running
  /\ loads < MaxLoads
  /\ loads' = loads + 1
  /\ window' = "loading"
  /\ toPage' = <<>> /\ asking' = FALSE /\ torReady' = FALSE
  /\ UNCHANGED endedWell
  /\ UNCHANGED mainVars

(* Seeded fault: the page only listens.                                    *)
MountListening ==
  /\ Running /\ window = "loading"
  /\ window' = "mounted"
  /\ UNCHANGED <<asking, toPage, torReady, loads, endedWell>>
  /\ UNCHANGED mainVars

(* The mount's effect asks for the status and registers the listeners.     *)
Mount ==
  /\ Running /\ window = "loading"
  /\ window' = "mounted"
  /\ asking' = TRUE
  /\ UNCHANGED <<toPage, torReady, loads, endedWell>>
  /\ UNCHANGED mainVars

TellStatus ==
  /\ Running /\ asking
  /\ asking' = FALSE
  /\ toPage' = Append(toPage, IF torIsReady THEN "true" ELSE "false")
  /\ UNCHANGED <<window, torReady, loads, endedWell>>
  /\ UNCHANGED mainVars

Hear ==
  /\ Running /\ window = "mounted" /\ toPage # <<>>
  /\ torReady' = (Head(toPage) # "false")
  /\ toPage' = Tail(toPage)
  /\ UNCHANGED <<window, asking, loads, endedWell>>
  /\ UNCHANGED mainVars

TorDone == ~Running /\ UNCHANGED torVars
Idle == Running /\ UNCHANGED torVars

TorNext ==
  \/ NoTor \/ Bootstrap \/ Fail \/ EndWell \/ TimeOut \/ Quit \/ CloseWindow
  \/ Load \/ Mount \/ TellStatus \/ Hear
  \/ TorDone \/ Idle

TorSpec == TorInit /\ [][TorNext]_torVars

(* The clock runs, and what has failed is reported.                        *)
Fairness == WF_torVars(NoTor) /\ WF_torVars(TimeOut)
TorFairSpec == TorSpec /\ Fairness
-------------------------------------------------------------------------------

(* The page never shows a chat before Tor has bootstrapped, and a mounted  *)
(* page that has heard all there is shows what main knows, over every      *)
(* order of the page's loads, its question, its answer and the event       *)
(* (App.tsx asks, so that "reloads know state").                           *)
PageShowsTor ==
  /\ torReady => torIsReady
  /\ (Running /\ window = "mounted" /\ ~asking /\ toPage = <<>>) => torReady = torIsReady

(* Tor lives as long as the app: when the user quits or the wait fails,    *)
(* none is left running, and none is stopped under an app that goes on, by *)
(* the timeout for one, whichever of Tor's end, its last message, the      *)
(* timeout and the user comes first.  The other way to end, an exit with   *)
(* the window closed when Tor becomes ready, leaves Tor behind (Resolve).  *)
TorStopsWithApp ==
  /\ (app = "quit" \/ waiting = "rejected") => tor \notin {"starting", "up"}
  /\ tor = "told" => ~Running

(* The wait ends, unless Tor itself ended without an error.                *)
WaitEnds == <>(waiting # "pending" \/ endedWell \/ ~Running)

(* What that rests on: while Tor is waited for, its absence has yet to be  *)
(* reported or the timeout is armed.                                       *)
WaitHasAnEnd ==
  (waiting = "pending" /\ Running /\ ~endedWell) => (tor = "absent" \/ timer)

===============================================================================
