------------------------------ MODULE AuthCore ------------------------------
(***************************************************************************)
(* The core of the auth extension: the one-time-code (OTC) engine, the     *)
(* PKCE store and the token exchange, with the identity deletion cascade   *)
(* and the webhook events these steps emit (spec.md sections 3, 4.2, 4.3,  *)
(* 4.6, 4.10).  The implementation is not part of this repository: the     *)
(* handlers are modelled from the spec, and the client steps and seeded    *)
(* rows from tests/test_http_ext_auth.py.                                  *)
(*                                                                         *)
(* Every handler is one transaction, except /token, whose transaction is   *)
(* split into its read of the PKCE row and its commit so that two          *)
(* concurrent exchanges and a concurrent identity delete can interleave.   *)
(* The database commits a transaction only if the row it read is          *)
(* unchanged (serializable isolation); otherwise it raises a            *)
(* serialization error, which reaches the client as a 500 (spec 7,         *)
(* InternalServerError).  A handler whose transaction aborts changes      *)
(* nothing, so its failure is a stuttering step and is left out.          *)
(***************************************************************************)
EXTENDS Naturals, Sequences, FiniteSets, SequencesExt

CONSTANTS
    Factors,            \* email factors; factor f belongs to identity f
    Codes,              \* the 6-digit codes the CSPRNG can draw
    Verifiers,          \* PKCE verifiers the clients hold
    Requests,           \* concurrent /token requests
    TTL,                \* OTC time to live, in clock ticks
    MaxFailedAttempts,  \* failed OTC attempts that trigger AttemptsExceeded
    AttemptWindow,      \* the rate-limit window, in clock ticks
    MaxTime,            \* bound on the clock
    MaxOtcs,            \* bound on OTCs created
    MaxLedger,          \* bound on attempts recorded per factor
    MaxGen,             \* bound on PKCE rows written
    NoRow, NoIdentity, NoOtc

ASSUME /\ TTL \in Nat \ {0}
       /\ MaxFailedAttempts \in Nat \ {0}
       /\ AttemptWindow \in Nat \ {0}
       /\ {MaxTime, MaxOtcs, MaxLedger, MaxGen} \subseteq Nat

(* base64url(SHA-256(verifier)): distinct verifiers give distinct         *)
(* challenges, and a challenge is not a verifier.                          *)
S256(v) == [s256 |-> v]
Challenges == {S256(v) : v \in Verifiers}

(* hash_code: SHA-256 of the code's bytes; only the hash is stored.        *)
HashCode(c) == [sha256 |-> c]

EventTypes == {"IdentityCreated", "EmailFactorCreated", "OneTimeCodeRequested",
               "OneTimeCodeVerified", "IdentityAuthenticated"}

VARIABLES
    now,        \* the injected clock
    live,       \* factors (and their identities) that exist
    removed,    \* factors whose identity was deleted
    otcs,       \* OneTimeCode rows [id, factor, hash, expires]
    nextOtc,    \* id of the next OneTimeCode row
    attempts,   \* attempts[f]: AuthenticationAttempt ledger [at, ok]
    verified,   \* factors with verified_at set
    pkce,       \* pkce[ch]: the PKCEChallenge row [identity, gen], or NoRow
    nextGen,    \* generation stamped on the next PKCE row write
    req,        \* req[r]: a /token request [st, ch, v, snap, resp]
    issued,     \* auth tokens issued: [ch, gen, identity]
    events      \* webhook events emitted, in order

vars == <<now, live, removed, otcs, nextOtc, attempts, verified, pkce,
          nextGen, req, issued, events>>

Otc == [id : 1..MaxOtcs, factor : Factors, hash : {HashCode(c) : c \in Codes},
        expires : Nat]
Row == [identity : Factors \cup {NoIdentity}, gen : 1..MaxGen]
EventRec == [type : EventTypes, factor : Factors, otc : 1..MaxOtcs \cup {NoOtc},
          at : Nat]
ReqState == [st : {"idle", "read", "done"}, ch : Challenges \cup {NoRow},
             v : Verifiers \cup {NoRow}, snap : Row \cup {NoRow},
             resp : {0, 200, 400, 403, 500}]

TypeOK ==
    /\ now \in 0..MaxTime
    /\ live \subseteq Factors /\ removed \subseteq Factors
    /\ otcs \subseteq Otc
    /\ nextOtc \in 1..(MaxOtcs + 1)
    /\ attempts \in [Factors -> Seq([at : Nat, ok : BOOLEAN])]
    /\ verified \subseteq Factors
    /\ pkce \in [Challenges -> Row \cup {NoRow}]
    /\ nextGen \in 1..(MaxGen + 1)
    /\ req \in [Requests -> ReqState]
    /\ issued \in Seq([ch : Challenges, gen : 1..MaxGen, identity : Factors])
    /\ events \in Seq(EventRec)

Init ==
    /\ now = 0
    /\ live = {}
    /\ removed = {}
    /\ otcs = {}
    /\ nextOtc = 1
    /\ attempts = [f \in Factors |-> <<>>]
    /\ verified = {}
    /\ pkce = [ch \in Challenges |-> NoRow]
    /\ nextGen = 1
    /\ req = [r \in Requests |->
                [st |-> "idle", ch |-> NoRow, v |-> NoRow, snap |-> NoRow,
                 resp |-> 0]]
    /\ issued = <<>>
    /\ events = <<>>
-----------------------------------------------------------------------------
(* Helpers.                                                                *)

Event(type, f, o) == [type |-> type, factor |-> f, otc |-> o, at |-> now]

(* code_hash is exclusive across all OneTimeCode rows.                     *)
CodeTaken(c) == \E o \in otcs : o.hash = HashCode(c)

(* Failed attempts of factor f inside the rate-limit window.               *)
RecentFailures(f) ==
    Len(SelectSeq(attempts[f],
                  LAMBDA a : ~a.ok /\ a.at + AttemptWindow > now))

(* Mutant: a code is still accepted at the very instant it expires.       *)
ExpiredOffByOne(o) == o.expires < now

(* An OTC is live while the clock is before its expires_at.               *)
Expired(o) == o.expires <= now

(* PKCE record(challenge): insert a row unless one exists (idempotent).    *)
RecordPkce(ch) ==
    IF pkce[ch] = NoRow
    THEN /\ nextGen <= MaxGen
         /\ pkce' = [pkce EXCEPT ![ch] = [identity |-> NoIdentity,
                                          gen |-> nextGen]]
         /\ nextGen' = nextGen + 1
    ELSE UNCHANGED <<pkce, nextGen>>

(* PKCE bind(challenge, identity): attach the identity to the row, which *)
(* is recorded first if the challenge was never seen.                      *)
BindPkce(ch, f) ==
    IF pkce[ch] = NoRow
    THEN /\ nextGen <= MaxGen
         /\ pkce' = [pkce EXCEPT ![ch] = [identity |-> f, gen |-> nextGen]]
         /\ nextGen' = nextGen + 1
    ELSE /\ pkce' = [pkce EXCEPT ![ch].identity = f]
         /\ UNCHANGED nextGen

(* Mutant: the row stores the plaintext code instead of its hash.         *)
IssueOtcPlaintext(f, c, before) ==
    /\ ~CodeTaken(c)
    /\ otcs' = otcs \cup {[id |-> nextOtc, factor |-> f,
                          hash |-> c, expires |-> now + TTL]}
    /\ nextOtc' = nextOtc + 1
    /\ events' = events \o before
                 \o <<Event("OneTimeCodeRequested", f, nextOtc)>>

(* Create a OneTimeCode for f with code c, mail the code and emit          *)
(* OneTimeCodeRequested.  On a code_hash already stored the insert raises *)
(* ConstraintViolationError and the handler's whole transaction aborts,   *)
(* so no step is taken with a code that collides.                         *)
IssueOtc(f, c, before) ==
    /\ ~CodeTaken(c)
    /\ otcs' = otcs \cup {[id |-> nextOtc, factor |-> f,
                          hash |-> HashCode(c), expires |-> now + TTL]}
    /\ nextOtc' = nextOtc + 1
    /\ events' = events \o before
                 \o <<Event("OneTimeCodeRequested", f, nextOtc)>>

-----------------------------------------------------------------------------
(* Handlers.                                                               *)

(* POST /magic-link/register in Code mode: create the identity and its    *)
(* factor, record the PKCE challenge and send a code.                      *)
RegisterMagicLink(f, ch) ==
    /\ f \notin live \cup removed
    /\ nextOtc <= MaxOtcs
    /\ live' = live \cup {f}
    /\ RecordPkce(ch)
    /\ \E c \in Codes :
         IssueOtc(f, c, <<Event("IdentityCreated", f, NoOtc),
                          Event("EmailFactorCreated", f, NoOtc)>>)
    /\ UNCHANGED <<now, removed, attempts, verified, req, issued>>

(* POST /magic-link/email in Code mode: send a fresh code to a factor.     *)
SendCode(f, ch) ==
    /\ f \in live
    /\ nextOtc <= MaxOtcs
    /\ RecordPkce(ch)
    /\ \E c \in Codes : IssueOtc(f, c, <<>>)
    /\ UNCHANGED <<now, live, removed, attempts, verified, req, issued>>

(* Mutant: the matched code is not deleted on success.                    *)
VerifyCodeKeepMatch(f, c, ch) ==
    LET mine    == {o \in otcs : o.factor = f}
        expired == {o \in mine : Expired(o)}
        match   == {o \in mine \ expired : o.hash = HashCode(c)}
    IN
    /\ f \in live
    /\ Len(attempts[f]) < MaxLedger
    /\ \/ /\ match # {}
          /\ LET o == CHOOSE o \in match : TRUE IN
             /\ otcs' = otcs \ expired
             /\ verified' = verified \cup {f}
             /\ attempts' = [attempts EXCEPT ![f] =
                               Append(@, [at |-> now, ok |-> TRUE])]
             /\ events' = Append(events, Event("OneTimeCodeVerified", f, o.id))
             /\ BindPkce(ch, f)
       \/ /\ match = {}
          /\ RecentFailures(f) >= MaxFailedAttempts
          /\ otcs' = otcs \ expired
          /\ UNCHANGED <<verified, attempts, events, pkce, nextGen>>
       \/ /\ match = {}
          /\ RecentFailures(f) < MaxFailedAttempts
          /\ otcs' = otcs \ expired
          /\ attempts' = [attempts EXCEPT ![f] =
                            Append(@, [at |-> now, ok |-> FALSE])]
          /\ UNCHANGED <<verified, events, pkce, nextGen>>
    /\ UNCHANGED <<now, live, removed, nextOtc, req, issued>>

(* POST /magic-link/authenticate with (email, code, challenge): load the  *)
(* factor's codes and delete the expired ones whatever the outcome; on a   *)
(* live match delete it, mark the factor verified, record a successful     *)
(* attempt, emit OneTimeCodeVerified and bind the identity to a PKCE row   *)
(* for the challenge.  Without a live match: AttemptsExceeded when the     *)
(* window already holds MaxFailedAttempts failures, else a failed attempt  *)
(* is recorded and the answer is CodeExpired (the code matched an expired *)
(* row) or InvalidCode.                                                    *)
VerifyCode(f, c, ch) ==
    LET mine    == {o \in otcs : o.factor = f}
        expired == {o \in mine : Expired(o)}
        match   == {o \in mine \ expired : o.hash = HashCode(c)}
    IN
    /\ f \in live
    /\ Len(attempts[f]) < MaxLedger
    /\ \/ /\ match # {}
          /\ LET o == CHOOSE o \in match : TRUE IN
             /\ otcs' = otcs \ (expired \cup {o})
             /\ verified' = verified \cup {f}
             /\ attempts' = [attempts EXCEPT ![f] =
                               Append(@, [at |-> now, ok |-> TRUE])]
             /\ events' = Append(events, Event("OneTimeCodeVerified", f, o.id))
             /\ BindPkce(ch, f)
       \/ /\ match = {}
          /\ RecentFailures(f) >= MaxFailedAttempts
          /\ otcs' = otcs \ expired
          /\ UNCHANGED <<verified, attempts, events, pkce, nextGen>>
       \/ /\ match = {}
          /\ RecentFailures(f) < MaxFailedAttempts
          /\ otcs' = otcs \ expired
          /\ attempts' = [attempts EXCEPT ![f] =
                            Append(@, [at |-> now, ok |-> FALSE])]
          /\ UNCHANGED <<verified, events, pkce, nextGen>>
    /\ UNCHANGED <<now, live, removed, nextOtc, req, issued>>

(* Mutant: the cascade forgets the PKCE rows bound to the identity.       *)
DeleteIdentityKeepPkce(f) ==
    /\ f \in live
    /\ live' = live \ {f}
    /\ removed' = removed \cup {f}
    /\ otcs' = {o \in otcs : o.factor # f}
    /\ attempts' = [attempts EXCEPT ![f] = <<>>]
    /\ verified' = verified \ {f}
    /\ UNCHANGED <<now, pkce, nextOtc, nextGen, req, issued, events>>

(* DELETE of an Identity cascades to its factors, their codes, their      *)
(* attempts and the PKCE rows bound to it.                                 *)
DeleteIdentity(f) ==
    /\ f \in live
    /\ live' = live \ {f}
    /\ removed' = removed \cup {f}
    /\ otcs' = {o \in otcs : o.factor # f}
    /\ attempts' = [attempts EXCEPT ![f] = <<>>]
    /\ verified' = verified \ {f}
    /\ pkce' = [ch \in Challenges |->
                  IF pkce[ch] # NoRow /\ pkce[ch].identity = f
                  THEN NoRow ELSE pkce[ch]]
    /\ UNCHANGED <<now, nextOtc, nextGen, req, issued, events>>

(* GET /token?code=..&verifier=..: the transaction reads the PKCE row.     *)
TokenBegin(r, v, ch) ==
    /\ req[r].st \in {"idle", "done"}
    /\ req' = [req EXCEPT ![r] = [st |-> "read", ch |-> ch, v |-> v,
                                  snap |-> pkce[ch], resp |-> 0]]
    /\ UNCHANGED <<now, live, removed, otcs, nextOtc, attempts, verified,
                   pkce, nextGen, issued, events>>

(* The exchange succeeds when the row exists, is bound to an identity and *)
(* base64url(SHA-256(verifier)) equals its challenge.                      *)
Claimable(rq) ==
    /\ rq.snap # NoRow
    /\ S256(rq.v) = rq.ch
    /\ rq.snap.identity # NoIdentity

(* A missing row, a wrong verifier or an unbound row: 403, nothing        *)
(* written.                                                                *)
TokenReject(r) ==
    /\ req[r].st = "read"
    /\ ~Claimable(req[r])
    /\ req' = [req EXCEPT ![r].st = "done", ![r].resp = 403]
    /\ UNCHANGED <<now, live, removed, otcs, nextOtc, attempts, verified,
                   pkce, nextGen, issued, events>>

(* Mutant: the commit does not check that the row is still the one read.  *)
TokenCommitNoConflictCheck(r) ==
    LET rq == req[r] IN
    /\ rq.st = "read"
    /\ Claimable(rq)
    /\ pkce' = [pkce EXCEPT ![rq.ch] = NoRow]
    /\ issued' = Append(issued, [ch |-> rq.ch, gen |-> rq.snap.gen,
                                 identity |-> rq.snap.identity])
    /\ events' = Append(events, Event("IdentityAuthenticated",
                                      rq.snap.identity, NoOtc))
    /\ req' = [req EXCEPT ![r].st = "done", ![r].resp = 200]
    /\ UNCHANGED <<now, live, removed, otcs, nextOtc, attempts, verified,
                   nextGen>>

(* The row is deleted in the same transaction that returns its contents;  *)
(* the commit goes through only if the row is still the one read.          *)
TokenCommit(r) ==
    LET rq == req[r] IN
    /\ rq.st = "read"
    /\ Claimable(rq)
    /\ pkce[rq.ch] = rq.snap
    /\ pkce' = [pkce EXCEPT ![rq.ch] = NoRow]
    /\ issued' = Append(issued, [ch |-> rq.ch, gen |-> rq.snap.gen,
                                 identity |-> rq.snap.identity])
    /\ events' = Append(events, Event("IdentityAuthenticated",
                                      rq.snap.identity, NoOtc))
    /\ req' = [req EXCEPT ![r].st = "done", ![r].resp = 200]
    /\ UNCHANGED <<now, live, removed, otcs, nextOtc, attempts, verified,
                   nextGen>>

(* A serialization conflict: the row changed since it was read, the      *)
(* commit is refused, and the request is answered 500 with nothing       *)
(* written.                                                                *)
TokenConflict(r) ==
    LET rq == req[r] IN
    /\ rq.st = "read"
    /\ Claimable(rq)
    /\ pkce[rq.ch] # rq.snap
    /\ req' = [req EXCEPT ![r].st = "done", ![r].resp = 500]
    /\ UNCHANGED <<now, live, removed, otcs, nextOtc, attempts, verified,
                   pkce, nextGen, issued, events>>

(* The server's steps on a /token request it has begun.                  *)
TokenStep(r) == TokenReject(r) \/ TokenCommit(r) \/ TokenConflict(r)

(* The injected clock advances.                                            *)
Tick ==
    /\ now < MaxTime
    /\ now' = now + 1
    /\ UNCHANGED <<live, removed, otcs, nextOtc, attempts, verified, pkce,
                   nextGen, req, issued, events>>

Next ==
    \/ \E f \in Factors, ch \in Challenges :
          RegisterMagicLink(f, ch) \/ SendCode(f, ch)
    \/ \E f \in Factors, c \in Codes, ch \in Challenges : VerifyCode(f, c, ch)
    \/ \E f \in Factors : DeleteIdentity(f)
    \/ \E r \in Requests, v \in Verifiers, ch \in Challenges :
          TokenBegin(r, v, ch)
    \/ \E r \in Requests : TokenStep(r)
    \/ Tick

Spec == Init /\ [][Next]_vars

-----------------------------------------------------------------------------
(* Properties.                                                             *)

(* A PKCE row yields at most one auth token: two /token requests for the  *)
(* same row, however their transactions interleave, never both succeed.   *)
TokenOncePerRow ==
    \A i, j \in DOMAIN issued :
        (i # j /\ issued[i].ch = issued[j].ch) => issued[i].gen # issued[j].gen

(* No auth token is issued for an identity that no longer exists: a      *)
(* /token exchange racing the deletion of the identity its row is bound   *)
(* to does not succeed after the delete.                                   *)
NoTokenForDeletedIdentity ==
    [][Len(issued') > Len(issued) => Last(issued').identity \in live']_vars

(* A one-time code is accepted at most once.                               *)
OtcSingleUse ==
    \A i, j \in DOMAIN events :
        (/\ i # j
         /\ events[i].type = "OneTimeCodeVerified"
         /\ events[j].type = "OneTimeCodeVerified")
        => events[i].otc # events[j].otc

(* Every accepted code was requested for the same factor before, and was  *)
(* accepted strictly before its time to live ran out.                      *)
NoLateAcceptance ==
    \A i \in DOMAIN events :
        events[i].type = "OneTimeCodeVerified" =>
            \E j \in 1..(i - 1) :
                /\ events[j].type = "OneTimeCodeRequested"
                /\ events[j].otc = events[i].otc
                /\ events[j].factor = events[i].factor
                /\ events[i].at < events[j].at + TTL

-----------------------------------------------------------------------------
(* Refinement: the PKCE store of AuthCore, whose /token reads the row in  *)
(* one step and deletes it in a later commit, implements PkceStore, whose *)
(* claim is one atomic step.  A row maps to the identity it is bound to   *)
(* (its generation is forgotten), a token to its challenge and identity,  *)
(* and the deleted identities are the removed ones.  A /token read, a     *)
(* rejection or a conflict changes nothing the store shows.                   *)
PkceRow(ch) == IF pkce[ch] = NoRow THEN NoRow ELSE pkce[ch].identity

Pkce == INSTANCE PkceStore WITH
            Identities <- Factors, Absent <- NoRow, Unbound <- NoIdentity,
            rows <- [ch \in Challenges |-> PkceRow(ch)],
            claims <- [i \in DOMAIN issued |-> [ch |-> issued[i].ch,
                                               identity |-> issued[i].identity]],
            deleted <- removed

(* AuthCore implements the atomic PKCE store: every token is issued for   *)
(* the identity the row is bound to when the token is issued, the row is  *)
(* gone after it, and deleting an identity takes its rows in the same     *)
(* step.                                                                   *)
PkceRefinement == Pkce!PSpec

=============================================================================
