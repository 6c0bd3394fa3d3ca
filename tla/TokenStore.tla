----------------------------- MODULE TokenStore -----------------------------
(***************************************************************************)
(* The bearer tokens of TAuthService                                       *)
(* (server/src/liquidstoolap_server/lsauth.pas).                           *)
(*                                                                         *)
(* Tokens are issued for a password, live in memory with an expiry time    *)
(* and a serial number, and are looked up by every SQL request.  Each      *)
(* operation runs under FAuthLock of the HTTP server, so it is one step;   *)
(* inside it the wall clock is read more than once, and may have advanced. *)
(* Between operations the wall clock may also be set back.  A restart of   *)
(* the server forgets every issued token.                                  *)
(*                                                                         *)
(* A token is 32 random bytes: here, the number of the token among all     *)
(* tokens ever made, so that no two are equal.  Token 0 was never made.    *)
(***************************************************************************)
EXTENDS Integers, FiniteSets

CONSTANTS
    MaxIssuedTokens,  \* [auth] max_issued_tokens
    TokenTtl,         \* [auth] token_ttl_seconds, in ticks of the clock
    StaticTokens,     \* the tokens of static_tokens_file
    MaxMinted,        \* bound: tokens made
    MaxClock,         \* bound: the clock
    MaxRestarts       \* bound: restarts of the server

ASSUME TokenAssumption ==
    /\ MaxIssuedTokens \in Nat \ {0}
    /\ TokenTtl \in Nat \ {0}
    /\ StaticTokens \cap Nat = {}
    /\ MaxMinted \in Nat /\ MaxClock \in Nat /\ MaxRestarts \in Nat

VARIABLES
    now,       \* the wall clock
    serial,    \* FIssuedSerial
    store,     \* FIssuedTokens: records of token, expires, serial
    minted,    \* how many tokens were ever made
    restarts,  \* how often the server was restarted
    ledger,    \* history: every entry added to the store since the restart
    latest,    \* history: the latest clock reading of any operation
    refused,   \* history: the tokens that ValidateBearer has refused
    last       \* history: the last answer of ValidateBearer

vars == <<now, serial, store, minted, restarts, ledger, latest, refused, last>>

Entry == [token : Nat \ {0}, expires : Nat, serial : Nat \ {0}]

NoAnswer == [token |-> 0, ok |-> FALSE, at |-> 0]

Init ==
    /\ now = 0
    /\ serial = 0
    /\ store = {}
    /\ minted = 0
    /\ restarts = 0
    /\ ledger = {}
    /\ latest = 0
    /\ refused = {}
    /\ last = NoAnswer

Expired(e, t) == t > e.expires

Unexpired(entries, t) == {e \in entries : ~Expired(e, t)}

\* What PruneExpiredTokens can leave of the store when the clock reads t at
\* its end: every entry is compared with a reading of its own.
Prunings(t) ==
    {kept \in SUBSET store :
        Unexpired(store, t) \subseteq kept /\ kept \subseteq Unexpired(store, now)}

\* Mutant: one entry too many is kept.
EvictionsOffByOne(entries) ==
    {kept \in SUBSET entries :
        /\ IF Cardinality(entries) <= MaxIssuedTokens
           THEN kept = entries
           ELSE Cardinality(kept) = MaxIssuedTokens
        /\ \A e \in entries \ kept, k \in kept : e.serial < k.serial}

\* What EvictOldestIssuedToken can leave of the entries: it is called until
\* fewer than MaxIssuedTokens are left, and removes the smallest serial first.
Evictions(entries) ==
    {kept \in SUBSET entries :
        /\ IF Cardinality(entries) < MaxIssuedTokens
           THEN kept = entries
           ELSE Cardinality(kept) = MaxIssuedTokens - 1
        /\ \A e \in entries \ kept, k \in kept : e.serial < k.serial}

\* Mutant: only the oldest tokens make room, whether any are expired or not.
RoomUnpruned(t) == Evictions(store)

\* What is left of the store when AddIssuedToken has made room: it prunes
\* first, and evicts from what remains.
Room(t) == UNION {Evictions(live) : live \in Prunings(t)}

\* A later reading of the clock within one operation.
LaterReadings == {t \in {now, now + 1} : t <= MaxClock}

ReadClock(t) ==
    /\ now' = t
    /\ latest' = IF t > latest THEN t ELSE latest

\* Mutant: FIssuedSerial is used before it is incremented.
NewEntryOldSerial(t) ==
    [token |-> minted + 1, expires |-> t + TokenTtl, serial |-> serial]

\* The entry that AddIssuedToken makes when the clock reads t.
NewEntry(t) ==
    [token |-> minted + 1, expires |-> t + TokenTtl, serial |-> serial + 1]

\* IssueToken with the right credentials: NewToken and AddIssuedToken.  With
\* wrong credentials, or issuing disabled, nothing changes.
IssueToken ==
    /\ minted < MaxMinted
    /\ \E t \in LaterReadings :
       \E kept \in Room(t) :
          /\ store' = kept \union {NewEntry(t)}
          /\ ledger' = ledger \union {NewEntry(t)}
          /\ ReadClock(t)
    /\ serial' = serial + 1
    /\ minted' = minted + 1
    /\ UNCHANGED <<restarts, refused, last>>

\* Mutants: the lookup trusts the prune before it; it leaves an entry it
\* found expired where it is.
TrustsPrune(found, t) == found # {}
KeepsExpired(found, t) == {}

\* IsIssuedTokenValid on the entry found for a token: it compares the expiry
\* with a new reading of the clock, and deletes the entry when it is past.
StillValid(found, t) == Unexpired(found, t) # {}
DeletedBy(found, t) == found \ Unexpired(found, t)

\* ValidateBearer: prune, then look among the static and the issued tokens.
ValidateBearer(token) ==
    \E t \in LaterReadings :
    \E live \in Prunings(t) :
        LET found == {e \in live : e.token = token}
            ok    == token \in StaticTokens \/ StillValid(found, t)
        IN  /\ store' = live \ DeletedBy(found, t)
            /\ last' = [token |-> token, ok |-> ok, at |-> t]
            /\ refused' = IF ok THEN refused ELSE refused \union {token}
            /\ ReadClock(t)
            /\ UNCHANGED <<serial, minted, restarts, ledger>>

Tick ==
    /\ now < MaxClock
    /\ now' = now + 1
    /\ UNCHANGED <<serial, store, minted, restarts, ledger, latest, refused, last>>

\* Now is local time: the clock is corrected, or daylight saving time ends.
SetClockBack ==
    /\ now > 0
    /\ now' \in 0 .. now - 1
    /\ UNCHANGED <<serial, store, minted, restarts, ledger, latest, refused, last>>

\* A new TAuthService: the tokens live in memory only.
Restart ==
    /\ restarts < MaxRestarts
    /\ restarts' = restarts + 1
    /\ store' = {}
    /\ serial' = 0
    /\ ledger' = {}
    /\ last' = NoAnswer
    /\ UNCHANGED <<now, minted, latest, refused>>

Presented == 0 .. minted \union StaticTokens

Next ==
    \/ IssueToken
    \/ \E token \in Presented : ValidateBearer(token)
    \/ Tick
    \/ SetClockBack
    \/ Restart

Spec == Init /\ [][Next]_vars

-----------------------------------------------------------------------------
(* Properties.                                                              *)

TypeOK ==
    /\ now \in Nat /\ latest \in Nat
    /\ serial \in Nat /\ minted \in Nat /\ restarts \in Nat
    /\ store \in SUBSET Entry
    /\ ledger \in SUBSET Entry
    /\ refused \in SUBSET Nat
    /\ last \in [token : Nat \union StaticTokens, ok : BOOLEAN, at : Nat]

\* docs/user-guide.md:126: the retained tokens are at most max_issued_tokens.
StoreBounded == Cardinality(store) <= MaxIssuedTokens

Newer(e) == {u \in ledger : u.serial > e.serial}

\* A token that is gone was seen expired by some operation, or was followed by
\* max_issued_tokens newer ones.
LostInTime ==
    \A e \in ledger \ store :
        \/ Expired(e, latest)
        \/ Cardinality(Newer(e)) >= MaxIssuedTokens

\* A token that leaves unexpired leaves a full store, and every old token that
\* stays is newer and was not expired when the operation began.
LeavesInTurn ==
    \A e \in store \ store' :
        \/ Expired(e, now')
        \/ /\ Cardinality(store') = MaxIssuedTokens
           /\ \A k \in store \cap store' : k.serial > e.serial /\ ~Expired(k, now)

\* While the server runs, a token leaves the store for two reasons only: it is
\* expired, or it is the oldest and makes room in a store full of live tokens.  No live
\* token makes room while one is kept that had expired when the operation began,
\* also when the clock was set back and the older token is the one that lives
\* longer.
NothingLostEarly ==
    /\ []LostInTime
    /\ [][restarts' = restarts => LeavesInTurn]_vars

\* A token that was refused once is never accepted again, even when the wall
\* clock is set back to a time before its expiry.
RefusedForGood == last.ok => last.token \notin refused

\* No path through ValidateBearer accepts an issued token after its expiry,
\* also when it expires between the prune and the lookup.
AcceptedUnexpired ==
    last.ok /\ last.token \notin StaticTokens =>
        \E e \in ledger : e.token = last.token /\ ~Expired(e, last.at)

=============================================================================
