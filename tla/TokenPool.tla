------------------------------ MODULE TokenPool -------------------------------
(***************************************************************************)
(* The desktop client's pool of blind-signed tokens for one model          *)
(* (desktop-client/src/main/rsa.ts): GenerateToken takes a token from the  *)
(* pool, or has one signed; prefetchTokens refills the pool in the         *)
(* background.  The pool is kept in the local store and outlives the app.  *)
(*                                                                         *)
(* The main process has one thread.  Between the awaits that wait for the  *)
(* network or a timer it runs without interruption: the awaits in between, *)
(* on the local store, are on promises already resolved, and Node drains   *)
(* them before the next event.  A step here is such a stretch, or the      *)
(* server's signing of a token for one of the user's credits, or what the  *)
(* user does about these: signs in or out, or buys.  No prefetch starts    *)
(* on that account (news).                                                 *)
(***************************************************************************)
EXTENDS Naturals, Sequences, FiniteSets

CONSTANTS
  Calls,            \* invocations of GenerateToken
  Prefetches,       \* invocations of prefetchTokens, numbered as they are made
  TOKEN_POOL_SIZE,
  Credits,          \* bound: how many credits there are in all; token t spends the t-th
  MaxRuns,          \* bound: how many times the app is started
  MaxFaults         \* bound: how many requests or answers the network loses

Askers == Calls \cup Prefetches

ASSUME AskersAssumption ==
  /\ IsFiniteSet(Askers) /\ Calls \cap Prefetches = {} /\ Prefetches \subseteq Nat
  /\ Cardinality(Prefetches) >= Cardinality(Calls) + MaxRuns
ASSUME SizesAssumption ==
  TOKEN_POOL_SIZE \in Nat /\ Credits \in Nat /\ MaxRuns \in Nat \ {0} /\ MaxFaults \in Nat

VARIABLES
  run,     \* which run of the app this is
  pool,    \* the pool of the model, in the local store
  at,      \* where each invocation is
  left,    \* the tokens a prefetch has yet to ask for, or the limit it will have
  answer,  \* the token the server signed for an invocation, on its way, or 0
  got,     \* the token a call returned, or 0
  signedIn, \* whether the app's cookie is that of a session
  credits, \* what the account that is signed in has of this model
  issued,  \* at the server: how many tokens were signed
  wasted,  \* history: tokens signed for nobody
  news,    \* history: somebody signed in or bought since a prefetch was last started
  faults   \* history: requests and answers the network lost

account == <<signedIn, credits, news>>
vars == <<run, pool, at, left, answer, got, account, issued, wasted, faults>>

Places == {"idle", "profile", "limited", "unlimited", "asking", "signed", "refused",
           "lost", "pausing", "done", "failed"}

Low(size) == 2 * size < TOKEN_POOL_SIZE

(* The default limit is Infinity; no prefetch needs more than a full pool. *)
Unlimited == TOKEN_POOL_SIZE
Needed(size, limit) ==
  IF size + limit < TOKEN_POOL_SIZE THEN limit
  ELSE IF size < TOKEN_POOL_SIZE THEN TOKEN_POOL_SIZE - size ELSE 0

(* prefetchTokens up to its first request, when invocations are where f    *)
(* says, the pool has this size and limit is the argument availableTokens. *)
StartPrefetch(p, f, size, limit) ==
  LET n == Needed(size, limit) IN
  /\ at' = [f EXCEPT ![p] = IF n > 0 THEN "asking" ELSE "done"]
  /\ left' = [left EXCEPT ![p] = n]

(* The next invocation there will be.                                      *)
Fresh(p) == at[p] = "idle" /\ \A q \in Prefetches : at[q] = "idle" => p <= q

Init ==
  /\ run = 1
  /\ pool = <<>>
  /\ \E p \in Prefetches :
       /\ \A q \in Prefetches : p <= q
       /\ at = [a \in Askers |-> IF a = p THEN "profile" ELSE "idle"]
  /\ left = [p \in Prefetches |-> 0]
  /\ answer = [a \in Askers |-> 0]
  /\ got = [c \in Calls |-> 0]
  /\ signedIn \in BOOLEAN /\ news = FALSE
  /\ credits \in 0..(IF signedIn THEN Credits ELSE 0)
  /\ issued = 0
  /\ wasted = {}
  /\ faults = 0

-------------------------------------------------------------------------------
(* GenerateToken.                                                          *)

(* Seeded fault: the pool is not saved without the token.                  *)
TakeUnsaved(c) ==
  /\ at[c] = "idle" /\ pool # <<>>
  /\ got' = [got EXCEPT ![c] = Head(pool)]
  /\ at' = [at EXCEPT ![c] = "done"]
  /\ UNCHANGED <<run, pool, left, answer, account, issued, wasted, faults>>

(* The oldest token of the pool is taken; a low pool is refilled.          *)
TakePooled(c) ==
  /\ at[c] = "idle" /\ pool # <<>>
  /\ got' = [got EXCEPT ![c] = Head(pool)]
  /\ pool' = Tail(pool)
  /\ \/ /\ ~Low(Len(pool'))
        /\ at' = [at EXCEPT ![c] = "done"]
        /\ UNCHANGED <<left, news>>
     \/ /\ Low(Len(pool'))
        /\ news' = FALSE
        /\ \E p \in Prefetches :
             Fresh(p) /\ StartPrefetch(p, [at EXCEPT ![c] = "done"], Len(pool'), Unlimited)
  /\ UNCHANGED <<run, answer, signedIn, credits, issued, wasted, faults>>

AskForOne(c) ==
  /\ at[c] = "idle" /\ pool = <<>>
  /\ at' = [at EXCEPT ![c] = "asking"]
  /\ UNCHANGED <<run, pool, left, answer, got, account, issued, wasted, faults>>

(* Seeded fault: a token that is signed for a call starts no prefetch.     *)
ReturnOnly(c) ==
  /\ at[c] = "signed"
  /\ got' = [got EXCEPT ![c] = answer[c]]
  /\ at' = [at EXCEPT ![c] = "done"]
  /\ answer' = [answer EXCEPT ![c] = 0] /\ news' = FALSE
  /\ UNCHANGED <<run, pool, left, signedIn, credits, issued, wasted, faults>>

(* The token is unblinded and returned, and the pool is filled.            *)
ReturnSigned(c) ==
  /\ at[c] = "signed"
  /\ got' = [got EXCEPT ![c] = answer[c]]
  /\ \E p \in Prefetches :
       Fresh(p) /\ StartPrefetch(p, [at EXCEPT ![c] = "done"], Len(pool), Unlimited)
  /\ answer' = [answer EXCEPT ![c] = 0] /\ news' = FALSE
  /\ UNCHANGED <<run, pool, signedIn, credits, issued, wasted, faults>>

Throw(c) ==
  /\ at[c] \in {"refused", "lost"}
  /\ at' = [at EXCEPT ![c] = "failed"]
  /\ UNCHANGED <<run, pool, left, answer, got, account, issued, wasted, faults>>

-------------------------------------------------------------------------------
(* prefetchTokens.                                                         *)

(* The start of the app reads the limit from the user's profile; when that *)
(* cannot be had there is no limit.                                        *)
StartWithProfile(p) ==
  /\ \/ at[p] = "limited" /\ StartPrefetch(p, at, Len(pool), left[p])
     \/ at[p] = "unlimited" /\ StartPrefetch(p, at, Len(pool), Unlimited)
  /\ UNCHANGED <<run, pool, answer, got, account, issued, wasted, faults>>

GoOn(p) ==
  /\ at' = [at EXCEPT ![p] = IF left[p] > 1 THEN "pausing" ELSE "done"]
  /\ left' = [left EXCEPT ![p] = @ - 1]

AddToPool(p) ==
  /\ at[p] = "signed"
  /\ pool' = Append(pool, answer[p])
  /\ answer' = [answer EXCEPT ![p] = 0]
  /\ GoOn(p)
  /\ UNCHANGED <<run, got, account, issued, wasted, faults>>

(* An iteration that fails counts as one all the same.                     *)
SkipOne(p) ==
  /\ at[p] \in {"refused", "lost"}
  /\ GoOn(p)
  /\ UNCHANGED <<run, pool, answer, got, account, issued, wasted, faults>>

Resume(p) ==
  /\ at[p] = "pausing"
  /\ at' = [at EXCEPT ![p] = "asking"]
  /\ UNCHANGED <<run, pool, left, answer, got, account, issued, wasted, faults>>

-------------------------------------------------------------------------------
(* The server, the network and the user.                                   *)

(* Who is not signed in is refused, as who has no credit is.               *)
SignOne(a) ==
  /\ at[a] = "asking"
  /\ \/ /\ signedIn /\ credits > 0
        /\ credits' = credits - 1
        /\ issued' = issued + 1
        /\ answer' = [answer EXCEPT ![a] = issued + 1]
        /\ at' = [at EXCEPT ![a] = "signed"]
     \/ /\ ~signedIn \/ credits = 0
        /\ at' = [at EXCEPT ![a] = "refused"]
        /\ UNCHANGED <<credits, issued, answer>>
  /\ UNCHANGED <<run, pool, left, got, signedIn, news, wasted, faults>>

(* The profile shows the credits there were when the server sent it; who   *)
(* is not signed in has none, and prefetches without a limit.              *)
SendProfile(p) ==
  /\ at[p] = "profile"
  /\ at' = [at EXCEPT ![p] = IF signedIn THEN "limited" ELSE "unlimited"]
  /\ left' = [left EXCEPT ![p] = IF signedIn THEN credits ELSE 0]
  /\ UNCHANGED <<run, pool, answer, got, account, issued, wasted, faults>>

(* The account may be another than before, or have bought meanwhile.  A    *)
(* request sent without its cookie is refused whenever it gets there.      *)
SignIn ==
  /\ ~signedIn
  /\ signedIn' = TRUE /\ news' = TRUE
  /\ credits' \in 0..(Credits - issued)
  /\ at' = [a \in Askers |-> IF at[a] = "asking" THEN "refused"
                            ELSE IF at[a] = "profile" THEN "unlimited" ELSE at[a]]
  /\ UNCHANGED <<run, pool, left, answer, got, issued, wasted, faults>>

(* By the user, or by a sign-in elsewhere.                                 *)
SessionEnds ==
  /\ signedIn
  /\ signedIn' = FALSE /\ credits' = 0 /\ news' = FALSE
  /\ UNCHANGED <<run, pool, at, left, answer, got, issued, wasted, faults>>

Purchase ==
  /\ signedIn
  /\ credits' \in (credits + 1)..(Credits - issued)
  /\ news' = TRUE
  /\ UNCHANGED <<run, pool, at, left, answer, got, signedIn, issued, wasted, faults>>

Lose(a) ==
  /\ faults < MaxFaults
  /\ faults' = faults + 1
  /\ \/ /\ at[a] \in {"asking", "signed"}
        /\ at' = [at EXCEPT ![a] = "lost"]
        /\ wasted' = wasted \cup ({answer[a]} \ {0})
        /\ answer' = [answer EXCEPT ![a] = 0]
        /\ UNCHANGED left
     \/ /\ at[a] \in {"profile", "limited"}
        /\ at' = [at EXCEPT ![a] = "unlimited"]
        /\ left' = [left EXCEPT ![a] = 0]
        /\ UNCHANGED <<answer, wasted>>
  /\ UNCHANGED <<run, pool, got, account, issued>>

(* The app quits or crashes and is started again.  Requests the server had *)
(* yet to answer it may still answer.                                      *)
Restart ==
  LET open == {a \in Askers : at[a] \notin {"idle", "done", "failed"}}
      asked == {a \in Askers : at[a] = "asking"}
  IN
  /\ run < MaxRuns
  /\ run' = run + 1
  /\ \E n \in 0..Cardinality(asked) :
       /\ n <= credits
       /\ issued' = issued + n /\ credits' = credits - n
       /\ wasted' = wasted \cup ({answer[a] : a \in Askers} \ {0})
                           \cup (issued + 1)..(issued + n)
  /\ answer' = [a \in Askers |-> 0] /\ left' = [p \in Prefetches |-> 0]
  /\ news' = FALSE
  /\ \E p \in Prefetches :
       /\ Fresh(p)
       /\ at' = [a \in Askers |-> IF a = p THEN "profile"
                                  ELSE IF a \in open THEN "failed" ELSE at[a]]
  /\ UNCHANGED <<pool, got, signedIn, faults>>

GenerateToken(c) == TakePooled(c) \/ AskForOne(c) \/ ReturnSigned(c) \/ Throw(c)
Prefetch(p) == StartWithProfile(p) \/ AddToPool(p) \/ SkipOne(p) \/ Resume(p)
Done == (\A a \in Askers : at[a] \in {"idle", "done", "failed"}) /\ UNCHANGED vars

Next ==
  \/ \E c \in Calls : GenerateToken(c)
  \/ \E p \in Prefetches : Prefetch(p) \/ SendProfile(p)
  \/ \E a \in Askers : SignOne(a) \/ Lose(a)
  \/ SignIn \/ SessionEnds \/ Purchase
  \/ Restart
  \/ Done

Spec == Init /\ [][Next]_vars

(* What has begun goes on: the event loop runs, the server answers.        *)
Fairness ==
  /\ \A c \in Calls : WF_vars(ReturnSigned(c) \/ Throw(c) \/ SignOne(c))
  /\ \A p \in Prefetches : WF_vars(Prefetch(p) \/ SendProfile(p) \/ SignOne(p))
FairSpec == Spec /\ Fairness
-------------------------------------------------------------------------------

(* Every variable has the shape the code gives it; a token is on its way   *)
(* to an invocation from its signing until it gets there.                  *)
TypeOK ==
  /\ run \in 1..MaxRuns
  /\ pool \in Seq(1..Credits)
  /\ at \in [Askers -> Places]
  /\ left \in [Prefetches -> Nat]
  /\ answer \in [Askers -> 0..Credits]
  /\ \A a \in Askers : (at[a] = "signed") <=> (answer[a] # 0)
  /\ got \in [Calls -> 0..Credits]
  /\ signedIn \in BOOLEAN /\ news \in BOOLEAN
  /\ issued \in 0..Credits /\ credits \in 0..(Credits - issued)
  /\ wasted \subseteq 1..Credits
  /\ faults \in 0..MaxFaults

(* A token that cost a credit is in one place: in the pool, returned to    *)
(* one call, on its way to an invocation, or lost to a fault of network or *)
(* app.  None is used twice and none disappears, whatever prefetches run   *)
(* beside the calls and wherever the app stops.                            *)
TokensHaveOnePlace ==
  \A t \in 1..issued :
    Cardinality({i \in 1..Len(pool) : pool[i] = t})
      + Cardinality({c \in Calls : got[c] = t})
      + Cardinality({a \in Askers : answer[a] = t})
      + Cardinality(wasted \cap {t}) = 1

(* With a network that does not fail, the pool of a user who is signed in  *)
(* and has credits does not stay low: a call that leaves it low, or finds  *)
(* it empty, and a start of the app start a prefetch, and none ends too    *)
(* early, whoever else spends credits and wherever the app stops.  Signing *)
(* in and buying start none: then the pool may stay low until the next     *)
(* call or start of the app, and nothing is claimed.                       *)
WellFilled == (faults = 0 /\ signedIn /\ ~news /\ Low(Len(pool))) => credits = 0
PoolRefills == <>[]WellFilled

(* What that rests on: a pool that is not well filled has a prefetch at    *)
(* work, and the last one leaves it well filled.                           *)
RefillUnderWay ==
  WellFilled \/ \E p \in Prefetches : at[p] \notin {"idle", "done", "failed"}
===============================================================================
