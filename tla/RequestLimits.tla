--------------------------- MODULE RequestLimits ---------------------------
(***************************************************************************)
(* How a runtime limits the requests of one client                         *)
(* (services/runtime_security.py): a rate that is counted in Redis, and a  *)
(* block after a number of violations.                                     *)
(*                                                                         *)
(* Every command to Redis is a step of its own.  A counter is made by INCR *)
(* and given its lifetime by a later EXPIRE; a block is made with one.     *)
(***************************************************************************)
EXTENDS Integers

CONSTANTS
    Visits,         \* requests that may be checked at once
    RateLimit,      \* rate_limit_per_minute
    ViolationLimit, \* violation_threshold
    LimitScenarios, \* the sets of hazards a behaviour may be exposed to
    NoVisit         \* nothing is checked

(***************************************************************************)
(*  "abort"   a process dies                                               *)
(*  "outage"  a command or its answer is lost                              *)
(*  "race"    the owner clears a block while requests are checked          *)
(***************************************************************************)
LimitHazards == {"abort", "outage", "race"}

\* The command to Redis a request has come to, and what it is checked for.
Commands == {"block", "hit", "hitLife", "strike", "strikeLife", "ban"}
Checked  == [at: Commands, open: BOOLEAN, bad: BOOLEAN]

ASSUME RequestLimitsOK ==
    /\ RateLimit \in Nat \ {0} /\ ViolationLimit \in Nat \ {0}
    /\ NoVisit \notin Checked
    /\ LimitScenarios \subseteq SUBSET LimitHazards

VARIABLES
    straits,   \* what this behaviour is exposed to; never changes
    keys,      \* the keys of this runtime and client in Redis
    visits,    \* what each request has come to
    struck     \* auxiliary: violations since the owner last cleared the block

limitVars == <<straits, keys, visits, struck>>

LimitsInit ==
    /\ straits \in LimitScenarios
    /\ keys = [hits |-> 0, hitsLapse |-> FALSE,
               strikes |-> 0, strikesLapse |-> FALSE, blocked |-> FALSE]
    /\ visits = [v \in Visits |-> NoVisit]
    /\ struck = 0

\* Counters are only compared with 1 and their limit: they stop above both.
OneMore(count, limit) == IF count > limit THEN count ELSE count + 1

Reaches(v, at) == [visits EXCEPT ![v].at = at]
Leaves(v)      == [visits EXCEPT ![v] = NoVisit]

-----------------------------------------------------------------------------
\* A request is checked under the policy its runtime has then; "bad" are the
\* ones that are too long or suspicious, if the policy bans for that.
Arrive(v, open, bad) ==
    /\ visits[v] = NoVisit
    /\ visits' = [visits EXCEPT ![v] = [at |-> "block", open |-> open, bad |-> bad]]
    /\ UNCHANGED <<straits, keys, struck>>

\* The keys after the command a request has come to.
Commanded(v) ==
    CASE visits[v].at = "block"   -> keys
      [] visits[v].at = "hit"     -> [keys EXCEPT !.hits = OneMore(@, RateLimit)]
      [] visits[v].at = "hitLife" -> [keys EXCEPT !.hitsLapse = keys.hits > 0]
      [] visits[v].at = "strike"  -> [keys EXCEPT !.strikes = OneMore(@, ViolationLimit)]
      [] visits[v].at = "strikeLife" -> [keys EXCEPT !.strikesLapse = keys.strikes > 0]
      [] visits[v].at = "ban"     -> [keys EXCEPT !.blocked = TRUE]

Struck(v, new) ==
    IF new # keys /\ visits[v].at = "strike" THEN OneMore(struck, ViolationLimit) ELSE struck

\* A request within the rate: a violation is recorded, any other is done.
WithinRate(v) == IF visits[v].bad THEN Reaches(v, "strike") ELSE Leaves(v)

\* Where an answer leads: _is_blocked, _enforce_rate_limit, _record_violation.
Answered(v) ==
    CASE visits[v].at = "block" ->
            IF keys.blocked THEN Leaves(v) ELSE Reaches(v, "hit")
      [] visits[v].at = "hit" ->
            IF keys.hits = 0 THEN Reaches(v, "hitLife")
            ELSE IF keys.hits >= RateLimit THEN Leaves(v) ELSE WithinRate(v)
      [] visits[v].at = "hitLife" -> WithinRate(v)
      [] visits[v].at = "strike" ->
            IF keys.strikes = 0 THEN Reaches(v, "strikeLife")
            ELSE IF keys.strikes + 1 >= ViolationLimit THEN Reaches(v, "ban") ELSE Leaves(v)
      [] visits[v].at = "strikeLife" ->
            IF ViolationLimit = 1 THEN Reaches(v, "ban") ELSE Leaves(v)
      [] visits[v].at = "ban" -> Leaves(v)

Command(v) ==
    /\ visits[v] # NoVisit
    /\ keys' = Commanded(v)
    /\ struck' = Struck(v, Commanded(v))
    /\ visits' = Answered(v)
    /\ UNCHANGED straits

\* Where a failure leads: "fail_closed" refuses, "fail_open" goes on.
Unanswered(v) ==
    IF ~ visits[v].open THEN Leaves(v)
    ELSE CASE visits[v].at = "block"              -> Reaches(v, "hit")
           [] visits[v].at \in {"hit", "hitLife"} -> WithinRate(v)
           [] OTHER                               -> Leaves(v)

Lose(v) ==
    /\ "outage" \in straits
    /\ visits[v] # NoVisit
    /\ \E new \in {keys, Commanded(v)} :
          /\ keys' = new
          /\ struck' = Struck(v, new)
    /\ visits' = Unanswered(v)
    /\ UNCHANGED straits

Vanish(v) ==
    /\ "abort" \in straits
    /\ visits[v] # NoVisit
    /\ visits' = Leaves(v)
    /\ UNCHANGED <<straits, keys, struck>>

-----------------------------------------------------------------------------
\* Mutant: the violations are kept.
ClearedBlock == [keys EXCEPT !.blocked = FALSE]

\* clear_ip_block, when the owner unblocks the client.
Cleared == [hits |-> keys.hits, hitsLapse |-> keys.hitsLapse,
            strikes |-> 0, strikesLapse |-> FALSE, blocked |-> FALSE]

Unblock ==
    /\ \A v \in Visits : visits[v] # NoVisit => "race" \in straits
    /\ keys' = Cleared
    /\ struck' = 0
    /\ UNCHANGED <<straits, visits>>

\* The lifetime of a key ends.
Lapse ==
    /\ \/ keys.hitsLapse
          /\ keys' = [[keys EXCEPT !.hits = 0] EXCEPT !.hitsLapse = FALSE]
       \/ keys.strikesLapse
          /\ keys' = [[keys EXCEPT !.strikes = 0] EXCEPT !.strikesLapse = FALSE]
       \/ keys.blocked
          /\ keys' = [keys EXCEPT !.blocked = FALSE]
    /\ UNCHANGED <<straits, visits, struck>>

LimitsNext ==
    \/ Unblock \/ Lapse
    \/ \E v \in Visits :
        \/ \E open, bad \in BOOLEAN : Arrive(v, open, bad)
        \/ Command(v) \/ Lose(v) \/ Vanish(v)

-----------------------------------------------------------------------------
(* Properties.                                                             *)

About(at) == \E v \in Visits : visits[v] # NoVisit /\ visits[v].at = at

\* Limits are temporary.  A counter that would not lapse is about to be given
\* its lifetime, as long as no process dies and no command is lost.  A client
\* is blocked only after as many violations, since its owner last unblocked
\* it, as the policy allows, unless the owner did so while requests were
\* checked.
LimitsAreTemporary ==
    /\ straits \cap {"abort", "outage"} = {} =>
        /\ keys.hits > 0 /\ ~ keys.hitsLapse => About("hitLife")
        /\ keys.strikes > 0 /\ ~ keys.strikesLapse => About("strikeLife")
    /\ keys.blocked /\ "race" \notin straits => struck >= ViolationLimit
=============================================================================
