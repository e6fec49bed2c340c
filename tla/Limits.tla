------------------------------- MODULE Limits -------------------------------
(***************************************************************************)
(* The two limits on requests per address, and the registration of a user  *)
(* behind them.  Every request that is not read-only passes the limiter of *)
(* SecurityMiddleware; HandleRegisterUser then has its own, kept in        *)
(* API.regLimit.  Each is a map from an address to the times of the        *)
(* requests it let through, pruned when the address asks again and by a    *)
(* goroutine that wakes up now and then.                                   *)
(*                                                                         *)
(* A time stamp is modelled by its age in ticks, which stops growing where *)
(* no comparison can tell it from an older one.  An address without an     *)
(* entry has the empty list: no entry of the code is ever empty.           *)
(***************************************************************************)
EXTENDS Integers, Sequences

CONSTANTS
    Addresses,      \* values of X-Real-Ip or RemoteAddr
    Registrations,  \* requests to HandleRegisterUser
    AddressOf,      \* the address each of them comes from
    Limit, Window,          \* RateLimiter.limit and .window, in ticks
    RegLimit, RegWindow,    \* the same for registrations: 3 per hour
    MaxLag,         \* longest wait of cleanupRegLimit for regMu, in ticks (bound)
    MaxRestarts     \* restarts of the process considered (bound)

ASSUME LimitsAssumption ==
    /\ AddressOf \in [Registrations -> Addresses]
    /\ Limit \in Nat \ {0} /\ RegLimit \in Nat \ {0}
    /\ Window \in Nat \ {0} /\ RegWindow \in Nat \ {0}
    /\ MaxLag \in Nat /\ MaxRestarts \in Nat

VARIABLES
    requests,   \* RateLimiter.requests, as ages
    regLimit,   \* API.regLimit, as ages
    lag,        \* ticks since cleanupRegLimit computed its cutoff; -1 outside
    reg,        \* where each registration is
    apiKeys,    \* database: registrations whose key is in api_keys
    restarts,   \* restarts so far
    recent,     \* history: ages of the requests let through in the last window
    regRecent   \*   and of the registrations let through in the last hour

limiterVars == <<requests, recent>>
regVars     == <<regLimit, regRecent>>
vars == <<limiterVars, regVars, lag, reg, apiKeys, restarts>>

RegStates == {"new", "allowed", "counted", "returned"}

(* Lists hold ages up to the point where they stop growing, and a          *)
(* registration whose key is stored has returned.                          *)
TypeOK ==
    /\ requests \in [Addresses -> Seq(0..Window)]
    /\ recent \in [Addresses -> Seq(0..(Window - 1))]
    /\ regLimit \in [Addresses -> Seq(0..(RegWindow + MaxLag))]
    /\ regRecent \in [Addresses -> Seq(0..(RegWindow - 1))]
    /\ lag \in -1..MaxLag
    /\ reg \in [Registrations -> RegStates]
    /\ \A r \in apiKeys : r \in Registrations /\ reg[r] = "returned"
    /\ restarts \in 0..MaxRestarts

Init ==
    /\ requests = [a \in Addresses |-> <<>>] /\ recent = requests
    /\ regLimit = [a \in Addresses |-> <<>>] /\ regRecent = regLimit
    /\ lag = -1
    /\ reg = [r \in Registrations |-> "new"]
    /\ apiKeys = {}
    /\ restarts = 0

----------------------------------------------------------------------------
(* What both limiters do.  ValidAtCutoff, RegSweepShort and                *)
(* RegSweepForgets are plausible mistakes in the definitions after them;   *)
(* no action uses them.                                                    *)

(* The stamps after the cutoff, in place.                                  *)
ValidAtCutoff(stamps, w) == SelectSeq(stamps, LAMBDA age : age <= w)
Valid(stamps, w) ==
    LET valid[i \in 0..Len(stamps)] ==
          IF i = 0 THEN <<>>
          ELSE IF stamps[i] < w THEN Append(valid[i - 1], stamps[i]) ELSE valid[i - 1]
    IN  valid[Len(stamps)]

HasRoom(stamps, w, limit) == Len(Valid(stamps, w)) < limit

(* What is stored for the address when it asks: the valid stamps, and now  *)
(* when there is room.                                                     *)
Stamped(stamps, w, limit) ==
    IF HasRoom(stamps, w, limit) THEN Append(Valid(stamps, w), 0) ELSE Valid(stamps, w)

(* RateLimiter.Allow, under its mutex.                                     *)
Allow(a) ==
    /\ requests' = [requests EXCEPT ![a] = Stamped(@, Window, Limit)]
    /\ recent' = IF HasRoom(requests[a], Window, Limit)
                 THEN [recent EXCEPT ![a] = Append(@, 0)]
                 ELSE recent

----------------------------------------------------------------------------
(* Requests. *)

(* Any other request that SecurityMiddleware counts, refused or not.       *)
Request(a) ==
    /\ Allow(a)
    /\ UNCHANGED <<regVars, lag, reg, apiKeys, restarts>>

(* SecurityMiddleware for a registration: 429, or on to the handler.       *)
RegisterArrives(r) ==
    LET a == AddressOf[r] IN
    /\ reg[r] = "new"
    /\ Allow(a)
    /\ reg' = [reg EXCEPT ![r] = IF HasRoom(requests[a], Window, Limit)
                                 THEN "allowed" ELSE "returned"]
    /\ UNCHANGED <<regVars, lag, apiKeys, restarts>>

(* The handler's own limit, under regMu.                                   *)
RegisterCounted(r) ==
    LET a == AddressOf[r]
        room == HasRoom(regLimit[a], RegWindow, RegLimit)
    IN  /\ reg[r] = "allowed"
        /\ regLimit' = [regLimit EXCEPT ![a] = Stamped(@, RegWindow, RegLimit)]
        /\ regRecent' = IF room THEN [regRecent EXCEPT ![a] = Append(@, 0)]
                                ELSE regRecent
        /\ reg' = [reg EXCEPT ![r] = IF room THEN "counted" ELSE "returned"]
        /\ UNCHANGED <<limiterVars, lag, apiKeys, restarts>>

(* The body has been read and CreateUserKey inserts the key; or the body   *)
(* is bad, or a statement fails, and the registration counts all the same. *)
RegisterReturns(r) ==
    /\ reg[r] = "counted"
    /\ apiKeys' \in {apiKeys, apiKeys \union {r}}
    /\ reg' = [reg EXCEPT ![r] = "returned"]
    /\ UNCHANGED <<limiterVars, regVars, lag, restarts>>

----------------------------------------------------------------------------
(* The goroutines that prune, and time. *)

(* RateLimiter.cleanup: every address, an empty list is deleted.           *)
Cleanup == requests' = [a \in Addresses |-> Valid(requests[a], Window)]

RunCleanup ==
    /\ Cleanup
    /\ UNCHANGED <<recent, regVars, lag, reg, apiKeys, restarts>>

(* cleanupRegLimit computes its cutoff before it locks regMu ...           *)
RegCutoff ==
    /\ lag = -1
    /\ lag' = 0
    /\ UNCHANGED <<limiterVars, regVars, reg, apiKeys, restarts>>

(* ... so that once inside, the cutoff is as old as the wait was long.     *)
RegSweepForgets == UNCHANGED regLimit
RegSweepShort == regLimit' = [a \in Addresses |-> Valid(regLimit[a], Window)]
RegSweep == regLimit' = [a \in Addresses |-> Valid(regLimit[a], RegWindow + lag)]

RunRegSweep ==
    /\ lag >= 0
    /\ RegSweep
    /\ lag' = -1
    /\ UNCHANGED <<limiterVars, regRecent, reg, apiKeys, restarts>>

Older(stamps, max) ==
    [i \in DOMAIN stamps |-> IF stamps[i] < max THEN stamps[i] + 1 ELSE max]

(* A tick of the clock.  The wait for regMu is not longer than MaxLag.     *)
Tick ==
    /\ lag < MaxLag
    /\ lag' = IF lag >= 0 THEN lag + 1 ELSE lag
    /\ requests' = [a \in Addresses |-> Older(requests[a], Window)]
    /\ regLimit' = [a \in Addresses |-> Older(regLimit[a], RegWindow + MaxLag)]
    /\ recent' = [a \in Addresses |-> Valid(Older(recent[a], Window), Window)]
    /\ regRecent' = [a \in Addresses |-> Valid(Older(regRecent[a], RegWindow), RegWindow)]
    /\ UNCHANGED <<reg, apiKeys, restarts>>

(* The process is started again: both maps are new, the keys are kept.     *)
Restart ==
    /\ restarts < MaxRestarts
    /\ restarts' = restarts + 1
    /\ requests' = [a \in Addresses |-> <<>>] /\ recent' = requests'
    /\ regLimit' = [a \in Addresses |-> <<>>] /\ regRecent' = regLimit'
    /\ lag' = -1
    /\ reg' = [r \in Registrations |-> IF reg[r] = "new" THEN "new" ELSE "returned"]
    /\ UNCHANGED apiKeys

----------------------------------------------------------------------------

Register(r) == RegisterArrives(r) \/ RegisterCounted(r) \/ RegisterReturns(r)

Next ==
    \/ \E a \in Addresses : Request(a)
    \/ \E r \in Registrations : Register(r)
    \/ RunCleanup \/ RegCutoff \/ RunRegSweep
    \/ Tick
    \/ Restart

Spec == Init /\ [][Next]_vars

(* Time passes and the tickers of the two goroutines fire; nothing makes   *)
(* anybody send a request.                                                 *)
Fairness ==
    WF_vars(Tick) /\ WF_vars(RunCleanup) /\ WF_vars(RegCutoff) /\ WF_vars(RunRegSweep)

FairSpec == Spec /\ Fairness

----------------------------------------------------------------------------
(* Properties. *)

(* Whatever the pruning goroutines have or have not removed, and with what *)
(* cutoff, each limiter decides as a sliding window would: an address is   *)
(* let through exactly when fewer than the limit of its requests were let  *)
(* through in the last window (of this run of the process), and so never   *)
(* more than the limit within one.                                         *)
DecidesAsWindow ==
    \A a \in Addresses :
        /\ Len(recent[a]) <= Limit
        /\ HasRoom(requests[a], Window, Limit) <=> Len(recent[a]) < Limit
        /\ Len(regRecent[a]) <= RegLimit
        /\ HasRoom(regLimit[a], RegWindow, RegLimit) <=> Len(regRecent[a]) < RegLimit

(* The inductive invariant: the stamps of a list that its limiter would    *)
(* still count are the ages of what was let through in the last window,    *)
(* and they are not more than the limit.                                   *)
LimitsInv ==
    /\ TypeOK
    /\ \A a \in Addresses :
         /\ recent[a] = Valid(requests[a], Window) /\ Len(recent[a]) <= Limit
         /\ regRecent[a] = Valid(regLimit[a], RegWindow) /\ Len(regRecent[a]) <= RegLimit

(* The memory of an address is given back: an address that has not been    *)
(* let through for a window loses its entry, unless it comes again.        *)
MemoryReleased ==
    \A a \in Addresses :
        /\ recent[a] = <<>> ~> requests[a] = <<>> \/ recent[a] # <<>>
        /\ regRecent[a] = <<>> ~> regLimit[a] = <<>> \/ regRecent[a] # <<>>

============================================================================
