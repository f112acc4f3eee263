---------------------------- MODULE RateLimiter ----------------------------
(***************************************************************************)
(* The rate limiter of the API server (api/middleware.go): one key          *)
(* ruse:rate:<category>:<address>, counted by rateLimitScript and shared by *)
(* every request of that category from that address.  Keys of other         *)
(* categories and addresses are independent, so one key is enough.          *)
(*                                                                          *)
(* Time is counted in ticks of the key's life.  A count above the limit is  *)
(* not told from a greater one, so counting stops at Limit + 1.             *)
(* Operators marked "Slip" are not used by the specification: each is its   *)
(* successor with one plausible mistake, which some property must notice.   *)
(***************************************************************************)
EXTENDS Naturals

CONSTANTS
  Limit,   \* requestLimit: 5, 10 or 60 requests
  Window   \* rateWindow, one minute

ASSUME LimitAssumption == Limit \in Nat \ {0}
ASSUME WindowAssumption == Window \in Nat \ {0}

VARIABLES
  count,   \* value of the key, 0 if there is none
  ttl,     \* ticks until Redis expires it, 0 if it has no expiry
  lately,  \* history: lately[i] requests let through in this tick and the i before it
  asked    \* history: asked[i] requests counted in the same ticks, no further than Limit + 1

vars == <<count, ttl, lately, asked>>

Ages == 0 .. Window - 1

TypeOK ==
  /\ count \in 0 .. Limit + 1
  /\ ttl \in 0 .. Window
  /\ lately \in [Ages -> Nat]
  /\ asked \in [Ages -> 0 .. Limit + 1]

Init ==
  /\ count = 0 /\ ttl = 0
  /\ lately = [i \in Ages |-> 0] /\ asked = [i \in Ages |-> 0]

\* One more, where it is told from the one before.
Counted(n) == IF n <= Limit THEN n + 1 ELSE n

\* INCR creates the key if it has expired.
Current == Counted(count)

\* The history of requests, whatever their answer.
Asked == asked' = [i \in Ages |-> Counted(asked[i])]

\* Slip: every request starts the window anew.
ExtendingScript ==
  /\ count' = Current
  /\ ttl' = Window
  /\ Asked

\* Slip: the window is counted from its second tick.
LongerScript ==
  /\ count' = Current
  /\ ttl' = IF Current = 1 THEN Window + 1 ELSE ttl
  /\ Asked

\* rateLimitScript: only the request that creates the key sets its expiry.
Script ==
  /\ count' = Current
  /\ ttl' = IF Current = 1 THEN Window ELSE ttl
  /\ Asked

\* Slip: the count is compared before it is raised.
PassOneMore ==
  /\ count <= Limit
  /\ Script
  /\ lately' = [i \in Ages |-> lately[i] + 1]

Pass ==
  /\ Current <= Limit
  /\ Script
  /\ lately' = [i \in Ages |-> lately[i] + 1]

\* 429, or 503 when the script's reply is lost or makes no sense: the request counts
\* all the same.
Refuse == Current > Limit /\ Script /\ UNCHANGED lately
Unavailable == Script /\ UNCHANGED lately

\* Redis drops the key when its time is over.
Tick ==
  /\ ttl' = IF ttl = 0 THEN 0 ELSE ttl - 1
  /\ count' = IF ttl = 1 THEN 0 ELSE count
  /\ lately' = [i \in Ages |-> IF i = 0 THEN 0 ELSE lately[i - 1]]
  /\ asked' = [i \in Ages |-> IF i = 0 THEN 0 ELSE asked[i - 1]]

Next == Pass \/ Refuse \/ Unavailable \/ Tick

Spec == Init /\ [][Next]_vars

\* Time passes.
FairSpec == Spec /\ WF_vars(Tick)

-----------------------------------------------------------------------------
(* Properties. *)

\* However requests fall around the edges of the fixed windows, no Window ticks in a
\* row let more than twice the limit through.
AtMostTwice == lately[Window - 1] <= 2 * Limit

\* Only an address that asked more often than the limit within the last Window ticks is
\* refused: those before count for nothing any more, nor do those it was refused prolong it.
RefusedForCause == count > Limit => asked[Window - 1] > Limit

\* No address is locked out for good, however often it is tried: the count falls back.
LetInAgain == count > Limit ~> count = 0
=============================================================================
