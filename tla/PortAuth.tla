------------------------------ MODULE PortAuth ------------------------------
(***************************************************************************)
(* Where the port-auth state of an event comes from: a resolver answers    *)
(* from a cache, and refreshers fill it from NetworkManager or from        *)
(* wpa_supplicant.  A refresh lists the service's interfaces, asks for     *)
(* each one's properties in turn, while they change, and stores what it    *)
(* gathered under one lock.  Refreshes may run at once: the background     *)
(* task's and any a caller asks for.  The two services are modelled from   *)
(* how the code uses them.                                                 *)
(***************************************************************************)
EXTENDS Naturals, FiniteSets, Functions

CONSTANTS
  Refresher,   \* what calls refresh: the background tasks and the callers
  Background,  \* the background tasks
  Interface,
  Bluetooth,   \* NetworkManager's interfaces of Bluetooth type
  Device,
  Owner,       \* Owner[i]: the device whose address i has
  Changes,     \* bound: changes of an interface
  Errors       \* bound: D-Bus errors

ASSUME PortAuthAssumption ==
  /\ Background \subseteq Refresher
  /\ Bluetooth \subseteq Interface
  /\ Owner \in [Interface -> Device]
  /\ Changes \in Nat /\ Errors \in Nat

VARIABLES
  kind,     \* the resolver: "nm" or "wpa"
  wanted,   \* the interfaces a wpa resolver looks at
  state,    \* state[i]: the service's state of i
  present,  \* the interfaces the service lists
  cache,    \* "nm": a function of devices; "wpa": one state for all of them
  stage,    \* stage[r]: "rest", "reading" or "over"
  unread,   \* unread[r]: interfaces listed and not read yet
  fresh,    \* fresh[r]: what the refresh has gathered
  changes, errors,
  held,     \* held[r]: <<i, s>> true at some time since r's refresh began
  steady,   \* steady[r]: those of them true ever since
  broken,   \* broken[r]: whether r's refresh met an error it passed over
  basis     \* of the refresh that stored last: its held, steady and broken

service == <<kind, wanted, state, present, changes>>
authVars    == <<service, cache, stage, unread, fresh, errors, held, steady, broken, basis>>

-----------------------------------------------------------------------------
(* States. *)

PortAuthState ==
  {"n/a", "unauthenticated", "authenticating", "authenticated", "auth-failed"}

NmState  == {"unnamed", "need-auth", "activated", "failed"}
WpaState == {"disconnected", "associating", "completed"}

(* The resolver has names for three of the numbers. *)
MapNm(s) ==
  CASE s = "need-auth" -> "authenticating"
    [] s = "activated" -> "authenticated"
    [] s = "failed"    -> "auth-failed"
    [] OTHER           -> "unauthenticated"

MapWpa(s) ==
  CASE s = "completed"   -> "authenticated"
    [] s = "associating" -> "authenticating"
    [] OTHER             -> "unauthenticated"

Map(s) == IF kind = "nm" THEN MapNm(s) ELSE MapWpa(s)

rank(s) ==
  CASE s = "authenticated"   -> 4
    [] s = "authenticating"  -> 3
    [] s = "auth-failed"     -> 2
    [] s = "unauthenticated" -> 1
    [] s = "n/a"             -> 0

NoDevice == [d \in {} |-> "n/a"]
Empty == IF kind = "nm" THEN NoDevice ELSE "n/a"

(* StandardsResolver::resolve. *)
resolve(d) ==
  IF kind = "wpa" THEN cache ELSE IF d \in DOMAIN cache THEN cache[d] ELSE "n/a"

Now == {<<i, state[i]>> : i \in present}

(* connect; for_interface makes another resolver that looks at one         *)
(* interface and begins with what the first had cached.                    *)
AuthInit ==
  /\ kind \in {"nm", "wpa"}
  /\ wanted \in IF kind = "nm" THEN {Interface}
                ELSE {Interface} \cup {{i} : i \in Interface}
  /\ state \in [Interface -> IF kind = "nm" THEN NmState ELSE WpaState]
  /\ present \in {Interface, {}}
  /\ cache \in IF wanted = Interface THEN {Empty} ELSE {"n/a", "authenticated"}
  /\ stage = [r \in Refresher |-> "rest"]
  /\ unread = [r \in Refresher |-> {}]
  /\ fresh = [r \in Refresher |-> Empty]
  /\ changes = 0 /\ errors = 0
  /\ held = [r \in Refresher |-> {}] /\ steady = [r \in Refresher |-> {}]
  /\ broken = [r \in Refresher |-> "no"]
  /\ basis = [stored |-> "no", held |-> {}, steady |-> {}, broken |-> "no"]

-----------------------------------------------------------------------------
(* A refresh. *)

BeginRefresh(r) ==
  /\ stage[r] = "rest"
  /\ stage' = [stage EXCEPT ![r] = "reading"]
  /\ unread' = [unread EXCEPT ![r] = present]
  /\ held' = [held EXCEPT ![r] = Now] /\ steady' = [steady EXCEPT ![r] = Now]
  /\ UNCHANGED <<service, cache, fresh, errors, broken, basis>>

(* After a refresh the background task sleeps and refreshes again, whether *)
(* or not it failed; a caller has its answer.                              *)
Forget(r) ==
  /\ fresh' = [fresh EXCEPT ![r] = Empty]
  /\ held' = [held EXCEPT ![r] = {}] /\ steady' = [steady EXCEPT ![r] = {}]
  /\ broken' = [broken EXCEPT ![r] = "no"]

AfterOnce(r) == "over"
After(r) == IF r \in Background THEN "rest" ELSE "over"

(* The interfaces cannot be listed: nothing is stored. *)
ListFails(r) ==
  /\ stage[r] = "rest" /\ errors < Errors
  /\ errors' = errors + 1
  /\ stage' = [stage EXCEPT ![r] = After(r)]
  /\ UNCHANGED <<service, cache, unread, fresh, held, steady, broken, basis>>

(* A property of an interface that has gone cannot be read, nor, now and   *)
(* then, one of an interface that is there.                                *)
Unreadable(i) ==
  \/ i \notin present /\ UNCHANGED errors
  \/ i \in present /\ errors < Errors /\ errors' = errors + 1

Gathered(r, i, value) ==
  /\ unread' = [unread EXCEPT ![r] = @ \ {i}]
  /\ fresh' = [fresh EXCEPT ![r] = value]
  /\ UNCHANGED <<service, cache, stage, held, steady, basis>>

WithDevice(f, d, s) == [e \in DOMAIN f \cup {d} |-> IF e = d THEN s ELSE f[e]]

(* NetworkManager: an interface whose type or address cannot be read is    *)
(* passed over; a state that cannot be read counts as an unnamed one.      *)
ReadNm(r, i) ==
  /\ kind = "nm" /\ i \in unread[r]
  /\ \/ /\ i \in present
        /\ Gathered(r, i, IF i \in Bluetooth THEN WithDevice(fresh[r], Owner[i], Map(state[i]))
                          ELSE fresh[r])
        /\ UNCHANGED <<errors, broken>>
     \/ /\ Unreadable(i) /\ Gathered(r, i, fresh[r])
        /\ broken' = [broken EXCEPT ![r] = "yes"]
     \/ /\ i \in Bluetooth /\ Unreadable(i)
        /\ Gathered(r, i, WithDevice(fresh[r], Owner[i], Map("unnamed")))
        /\ broken' = [broken EXCEPT ![r] = "yes"]

Better(old, new) == IF rank(new) > rank(old) THEN new ELSE old

(* wpa_supplicant: an interface that cannot be read, or is not the one     *)
(* wanted, is passed over; the most authenticated of the others counts.    *)
ReadWpa(r, i) ==
  /\ kind = "wpa" /\ i \in unread[r]
  /\ \/ /\ i \in present
        /\ Gathered(r, i, IF i \in wanted THEN Better(fresh[r], Map(state[i])) ELSE fresh[r])
        /\ UNCHANGED <<errors, broken>>
     \/ /\ Unreadable(i) /\ Gathered(r, i, fresh[r])
        /\ broken' = [broken EXCEPT ![r] = "yes"]

(* What the cache knows already is kept for devices not found this time. *)
StoreOver(r) ==
  /\ stage[r] = "reading" /\ unread[r] = {}
  /\ cache' = IF kind = "wpa" THEN fresh[r]
              ELSE [d \in DOMAIN cache \cup DOMAIN fresh[r] |->
                      IF d \in DOMAIN fresh[r] THEN fresh[r][d] ELSE cache[d]]
  /\ basis' = [stored |-> "yes", held |-> held[r], steady |-> steady[r], broken |-> broken[r]]
  /\ stage' = [stage EXCEPT ![r] = After(r)]
  /\ Forget(r)
  /\ UNCHANGED <<service, unread, errors>>

(* The cache is replaced, under its lock. *)
Store(r) ==
  /\ stage[r] = "reading" /\ unread[r] = {}
  /\ cache' = fresh[r]
  /\ basis' = [stored |-> "yes", held |-> held[r], steady |-> steady[r], broken |-> broken[r]]
  /\ stage' = [stage EXCEPT ![r] = After(r)]
  /\ Forget(r)
  /\ UNCHANGED <<service, unread, errors>>

(* The network stack moves on: an interface changes state, comes or goes. *)
Change(i) ==
  /\ changes < Changes /\ changes' = changes + 1
  /\ \/ /\ \E s \in (IF kind = "nm" THEN NmState ELSE WpaState) \ {state[i]} :
             state' = [state EXCEPT ![i] = s]
        /\ UNCHANGED present
     \/ /\ present' = IF i \in present THEN present \ {i} ELSE present \cup {i}
        /\ UNCHANGED state
  /\ held' = [r \in Refresher |->
                IF stage[r] = "reading" /\ i \in present'
                THEN held[r] \cup {<<i, state'[i]>>} ELSE held[r]]
  /\ steady' = [r \in Refresher |-> {p \in steady[r] : p[1] # i}]
  /\ UNCHANGED <<kind, wanted, cache, stage, unread, fresh, errors, broken, basis>>

-----------------------------------------------------------------------------
Refresh(r) ==
  \/ BeginRefresh(r) \/ ListFails(r) \/ Store(r)
  \/ \E i \in Interface : ReadNm(r, i) \/ ReadWpa(r, i)

AuthNext == (\E r \in Refresher : Refresh(r)) \/ \E i \in Interface : Change(i)

AuthSpec == AuthInit /\ [][AuthNext]_authVars

(* The background task's timer fires and its calls are answered. *)
AuthFairSpec == AuthSpec /\ \A r \in Background : WF_authVars(Refresh(r))

-----------------------------------------------------------------------------
(* What the checks say. *)

(* Who a device's answer is about. *)
About(d) == IF kind = "nm" THEN {i \in Bluetooth : Owner[i] = d} ELSE wanted

(* Once a refresh has been stored, the state attributed to a device was    *)
(* that of one of its interfaces at some time during that refresh, or      *)
(* there was none, or NetworkManager's state could not be read; a device   *)
(* gone before the refresh began is not remembered.  Of wpa_supplicant's,  *)
(* none that kept its state throughout outranks the answer, in whatever    *)
(* order they were read, unless one could not be.                          *)
CacheWasTrue ==
  basis.stored = "yes" =>
    /\ (kind = "wpa" /\ basis.broken = "no") =>
         \A p \in basis.steady : p[1] \in wanted => rank(cache) >= rank(Map(p[2]))
    /\ \A d \in Device :
         \/ \E p \in basis.held : p[1] \in About(d) /\ resolve(d) = Map(p[2])
         \/ resolve(d) = "n/a"
         \/ kind = "nm" /\ basis.broken = "yes" /\ resolve(d) = Map("unnamed")

(* What a resolver that asked now would answer. *)
Truth(d) ==
  LET states == {Map(state[i]) : i \in About(d) \cap present}
  IN IF states = {} THEN {"n/a"}
     ELSE IF kind = "nm" THEN states
     ELSE {s \in states : \A t \in states : rank(t) <= rank(s)}

(* Once the network stands still and D-Bus answers, every device's events  *)
(* come to be attributed to its true state, though a slow refresh of a     *)
(* caller's may store an older one over a newer, and errors may come first.*)
EventuallyTrue == <>[](\A d \in Device : resolve(d) \in Truth(d))
=============================================================================
