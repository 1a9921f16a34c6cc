---------------------------- MODULE OAuthTokens ----------------------------
(***************************************************************************)
(* The access token of a project's connection to an OAuth provider         *)
(* (services/oauth/service.py), as the actions of the project use it       *)
(* (services/actions/registry.py, executor.py, api/v1/invoke/router.py).   *)
(*                                                                         *)
(* The connection is a row of the database.  Every process also caches the *)
(* object one of its calls loaded, without a lifetime, and later calls     *)
(* take their token from that object.  A token that expired is refreshed   *)
(* at the provider, which may replace the refresh token as well.           *)
(***************************************************************************)
EXTENDS Naturals, FiniteSets

CONSTANTS
    ActionCalls,    \* calls of an action; each is made at most once
    Processes,      \* server processes, each with its cache
    MaxTokens,      \* bound: access tokens the provider issues
    TokenScenarios, \* the sets of hazards a behaviour may be exposed to
    NoCall          \* no call

(***************************************************************************)
(*  "loss"     a process dies, or the answer of the provider is lost       *)
(*  "overlap"  two calls run at the same time                              *)
(*  "refusal"  the provider refuses to refresh for a while                 *)
(***************************************************************************)
TokenHazards == {"loss", "overlap", "refusal"}

ASSUME OAuthTokensOK ==
    /\ TokenScenarios \subseteq SUBSET TokenHazards
    /\ MaxTokens \in Nat \ {0}
    /\ NoCall \notin ActionCalls

VARIABLES
    threats,    \* what this behaviour is exposed to; never changes
    provider,   \* the provider: tokens issued and expired, what it accepts
    connection, \* the row: its access token and its refresh token
    objects,    \* the row as each call loaded it
    cache,      \* the call whose object each process keeps
    calls       \* what each call is doing

tokenVars == <<threats, provider, connection, objects, cache, calls>>

\* Tokens are numbered as they are issued; 0 stands for none.
Tokens == 0 .. MaxTokens
Rows   == [access: Tokens, refresh: Tokens]

\* "invoke" resolves the project's tokens and then looks the connection up
\* all the same; "executor" uses what it resolved; "registry" only looks up.
CallKinds == {"invoke", "executor", "registry"}

\* A call that was made: the object it takes its token from, the token the
\* provider answered or that was sent, and whether that had expired.
CallRecords ==
    [at: {"resolve", "resolving", "resolved", "lookup", "refreshing", "refreshed", "sent",
          "failed"},
     kind: CallKinds, process: Processes, object: ActionCalls, answer: Tokens, stale: BOOLEAN]

ASSUME NoCallOK == NoCall \notin CallRecords

TokensInit ==
    /\ threats \in TokenScenarios
    /\ provider \in {[issued |-> 1, expired |-> 0, accepts |-> 1, rotates |-> b] : b \in BOOLEAN}
    /\ connection = [access |-> 1, refresh |-> 1]
    /\ objects = [c \in ActionCalls |-> [access |-> 0, refresh |-> 0]]
    /\ cache = [w \in Processes |-> NoCall]
    /\ calls = [c \in ActionCalls |-> NoCall]

Expired(t)   == t <= provider.expired
Loaded(c)    == objects[c].access # 0
At(c, a)     == calls[c] # NoCall /\ calls[c].at = a
Calling(c)   == calls[c] # NoCall /\ calls[c].at \notin {"sent", "failed"}
NoneCalling  == \A c \in ActionCalls : ~ Calling(c)

\* The row as the session of c sees it: what it loaded first stays.
Seen(c) == IF Loaded(c) THEN objects[c] ELSE connection

-----------------------------------------------------------------------------
(* A call.                                                                 *)

\* Calls differ in nothing, so the first that is left stands for any; so do
\* processes that have made none.
Fresh(w) == \A c \in ActionCalls : calls[c] # NoCall => calls[c].process # w

StartCall(c, w, kind) ==
    /\ calls[c] = NoCall /\ c = CHOOSE d \in ActionCalls : calls[d] = NoCall
    /\ Fresh(w) => w = CHOOSE v \in Processes : Fresh(v)
    /\ Cardinality({d \in ActionCalls : Calling(d)}) < IF "overlap" \in threats THEN 2 ELSE 1
    /\ calls' = [calls EXCEPT ![c] =
                    [at |-> IF kind = "registry" THEN "lookup" ELSE "resolve",
                     kind |-> kind, process |-> w, object |-> c, answer |-> 0,
                     stale |-> FALSE]]
    /\ UNCHANGED <<threats, provider, connection, objects, cache>>

\* The token is sent: from the object of the call itself or from a cached one.
Sent(c, object) ==
    LET t == objects'[object].access IN
    [calls EXCEPT ![c] =
        [@ EXCEPT !.at = "sent", !.object = object, !.answer = t, !.stale = Expired(t)]]

\* After pre_resolve_project_tokens: the router drops what it returned and
\* looks the connection up again.
Resolved(c) ==
    IF calls[c].kind = "executor" THEN Sent(c, c) ELSE [calls EXCEPT ![c].at = "lookup"]

\* pre_resolve_project_tokens: the row.
Resolve(c) ==
    /\ At(c, "resolve")
    /\ objects' = [objects EXCEPT ![c] = Seen(c)]
    /\ calls' = IF Expired(Seen(c).access) THEN [calls EXCEPT ![c].at = "resolving"]
                ELSE Resolved(c)
    /\ UNCHANGED <<threats, provider, connection, cache>>

\* get_connection_by_project: the cached object whatever its age, or the row.
LookUp(c) ==
    /\ At(c, "lookup")
    /\ LET w == calls[c].process
           o == IF cache[w] # NoCall THEN cache[w] ELSE c
       IN
       /\ cache' = [cache EXCEPT ![w] = o]
       /\ objects' = IF o = c THEN [objects EXCEPT ![c] = Seen(c)] ELSE objects
       /\ calls' = IF Expired(objects'[o].access)
                   THEN [calls EXCEPT ![c] = [@ EXCEPT !.at = "refreshing", !.object = o]]
                   ELSE Sent(c, o)
    /\ UNCHANGED <<threats, provider, connection>>

-----------------------------------------------------------------------------
(* Refreshing.                                                             *)

Refreshing(c) == At(c, "resolving") \/ At(c, "refreshing")

\* Mutant: the cached object stays.
ForgottenNot(c) == cache

\* refresh_token drops the object this process keeps, and no other.
Forgotten(c) == [cache EXCEPT ![calls[c].process] = NoCall]

\* pre_resolve_project_tokens goes on with the token it has; the registry fails.
RefreshFailed(c) ==
    IF At(c, "resolving") THEN Resolved(c)
    ELSE [calls EXCEPT ![c] = [@ EXCEPT !.at = "failed", !.object = c]]

\* The provider issues an access token and, if it rotates, a refresh token
\* instead of the one it was sent.  The answer may be lost.
Exchange(c) ==
    /\ Refreshing(c)
    /\ Seen(c).refresh = provider.accepts
    /\ provider.issued < MaxTokens
    /\ LET t == provider.issued + 1 IN
       provider' = [provider EXCEPT !.issued = t,
                                       !.accepts = IF provider.rotates THEN t ELSE provider.accepts]
    /\ objects' = [objects EXCEPT ![c] = Seen(c)]
    /\ cache' = Forgotten(c)
    /\ \/ calls' = [calls EXCEPT ![c] =
                      [@ EXCEPT !.at = IF At(c, "resolving") THEN "resolved" ELSE "refreshed",
                                !.answer = provider'.issued]]
       \/ "loss" \in threats /\ calls' = RefreshFailed(c)
    /\ UNCHANGED <<threats, connection>>

\* An old refresh token, or a provider that is not working.
Refuse(c) ==
    /\ Refreshing(c)
    /\ Seen(c).refresh # provider.accepts \/ "refusal" \in threats
    /\ objects' = [objects EXCEPT ![c] = Seen(c)]
    /\ cache' = Forgotten(c)
    /\ calls' = RefreshFailed(c)
    /\ UNCHANGED <<threats, provider, connection>>

\* Mutant: the refresh token of the answer is not stored.
RefreshedHalf(c) == [access |-> calls[c].answer, refresh |-> Seen(c).refresh]

Refreshed(c) ==
    [access  |-> calls[c].answer,
     refresh |-> IF provider.rotates THEN calls[c].answer ELSE Seen(c).refresh]

\* The registry then sends the token of the object it looked up, which is
\* the refreshed one only if the call had loaded it itself.
CommitRefresh(c) ==
    /\ At(c, "resolved") \/ At(c, "refreshed")
    /\ connection' = Refreshed(c)
    /\ objects' = [objects EXCEPT ![c] = Refreshed(c)]
    /\ calls' = IF At(c, "resolved") THEN Resolved(c) ELSE Sent(c, calls[c].object)
    /\ UNCHANGED <<threats, provider, cache>>

-----------------------------------------------------------------------------
(* Around a call.                                                          *)

\* Every access token issued so far expires.
Expire ==
    /\ provider.expired < provider.issued /\ provider.issued < MaxTokens
    /\ provider' = [provider EXCEPT !.expired = provider.issued]
    /\ UNCHANGED <<threats, connection, objects, cache, calls>>

Restart(w) ==
    /\ "loss" \in threats
    /\ cache' = [cache EXCEPT ![w] = NoCall]
    /\ calls' = [c \in ActionCalls |->
                    IF Calling(c) /\ calls[c].process = w
                    THEN [calls[c] EXCEPT !.at = "failed", !.object = c, !.answer = 0]
                    ELSE calls[c]]
    /\ UNCHANGED <<threats, provider, connection, objects>>

TokensNext ==
    \/ \E c \in ActionCalls :
        \/ \E w \in Processes, kind \in CallKinds : StartCall(c, w, kind)
        \/ Resolve(c) \/ LookUp(c) \/ Exchange(c) \/ Refuse(c) \/ CommitRefresh(c)
    \/ \E w \in Processes : Restart(w)
    \/ Expire

-----------------------------------------------------------------------------
(* Properties.                                                             *)

\* Once no call is refreshing, the refresh token of the row is the one the
\* provider accepts, so that a connection that worked can be refreshed again,
\* whatever refreshes overlapped; only a lost answer ends that.
RefreshTokenKept ==
    "loss" \notin threats /\ NoneCalling => connection.refresh = provider.accepts

\* The copies of a process are never invalidated by another one, and a call
\* that finds an expired copy sends the expired token even after it refreshed
\* it.  But, without overlap, no process does so twice with one token.
SentFromCopy(c) == At(c, "sent") /\ calls[c].object # c /\ calls[c].stale

StaleCopyOnce ==
    "overlap" \notin threats =>
        \A c, d \in ActionCalls :
            SentFromCopy(c) /\ SentFromCopy(d) /\ calls[c].process = calls[d].process =>
                c = d \/ calls[c].answer # calls[d].answer
=============================================================================
