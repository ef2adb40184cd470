------------------------------- MODULE WebAuthn -------------------------------
(***************************************************************************)
(* The WebAuthn provider of the auth extension (spec 4.7, C7) and the      *)
(* WebAuthnFactor rows it keeps (spec 3 invariant 1, testable property     *)
(* 8.3), as test_http_auth_ext_webauthn_* drive it.  Its code is not in   *)
(* this repository; the tests are.                                         *)
(*                                                                         *)
(* register/options reuses the user_handle of the email's factors or      *)
(* draws a fresh one, stores a RegistrationChallenge and sets the handle   *)
(* cookie.  register checks the attestation and the stored challenge, and *)
(* inserts the factor in a serializable transaction whose assertion        *)
(* demands that every factor of the email has the cookie's handle.         *)
(* authenticate/options stores an AuthenticationChallenge; authenticate    *)
(* verifies an assertion against a registered credential of the           *)
(* challenge's email and deletes the challenge.  Both transactions read   *)
(* in one step and commit in another, and a commit whose reads changed    *)
(* meanwhile fails with a serialization error, answered 500 (spec 7).     *)
(* An assertion carries its challenge, so a client *)
(* may present one captured from another client (a replay).               *)
(***************************************************************************)
EXTENDS Naturals, Sequences

CONSTANTS
    Emails,    \* email addresses
    Clients,   \* browsers running the ceremonies concurrently
    Handles,   \* user_handle values the server can draw
    Creds,     \* credential ids authenticators can mint
    MaxChals,  \* challenges (registration and authentication) issued
    NoRow      \* no row read

ASSUME MaxChals \in Nat \ {0}

VARIABLES
    factors,   \* WebAuthnFactor rows: [email, handle, cred]
    regChals,  \* WebAuthnRegistrationChallenge rows: [id, email, handle]
    authChals, \* WebAuthnAuthenticationChallenge rows: [id, email]
    drawn,     \* user_handles drawn so far
    minted,    \* credential ids minted so far
    nextChal,  \* id of the next challenge
    cl,        \* cl[c]: client c's ceremony and its request in flight
    logins     \* successful authentications in commit order: [chal, cred]

vars == <<factors, regChals, authChals, drawn, minted, nextChal, cl, logins>>

Factor == [email : Emails, handle : Handles, cred : Creds]
Chal == 1..MaxChals
TypeOK ==
    /\ factors \subseteq Factor
    /\ regChals \subseteq [id : Chal, email : Emails, handle : Handles]
    /\ authChals \subseteq [id : Chal, email : Emails]
    /\ drawn \subseteq Handles
    /\ minted \subseteq Creds
    /\ nextChal \in 1..(MaxChals + 1)
    /\ \A c \in Clients : cl[c].st \in {"idle", "regopt", "reg", "auth"}
                          /\ cl[c].resp \in {0, 200, 400, 500}
    /\ logins \in Seq([chal : Chal, cred : Creds])

Idle == [st |-> "idle", email |-> NoRow, handle |-> NoRow, chal |-> NoRow,
         cred |-> NoRow, att |-> FALSE, snap |-> NoRow, resp |-> 0]

Init ==
    /\ factors = {}
    /\ regChals = {}
    /\ authChals = {}
    /\ drawn = {}
    /\ minted = {}
    /\ nextChal = 1
    /\ cl = [c \in Clients |-> Idle]
    /\ logins = <<>>

FactorsOf(e) == {f \in factors : f.email = e}

(* The rows an authenticate transaction reads: the challenge and the       *)
(* factor of the presented credential.                                     *)
AuthRead(a, k) ==
    [chal |-> IF \E r \in authChals : r.id = a
              THEN CHOOSE r \in authChals : r.id = a ELSE NoRow,
     factor |-> IF \E f \in factors : f.cred = k
                THEN CHOOSE f \in factors : f.cred = k ELSE NoRow]

(* GET /webauthn/register/options: the email's handle, or a fresh one,    *)
(* in the options, the cookie and a new RegistrationChallenge.            *)
RegisterOptions(c, e) ==
    LET existing == {f.handle : f \in FactorsOf(e)}
    IN
    /\ cl[c].st = "idle"
    /\ nextChal <= MaxChals
    /\ \E h \in IF existing # {} THEN existing ELSE Handles \ drawn :
          /\ drawn' = drawn \cup {h}
          /\ regChals' = regChals \cup {[id |-> nextChal, email |-> e, handle |-> h]}
          /\ cl' = [cl EXCEPT ![c] = [Idle EXCEPT !.st = "regopt", !.email = e,
                                                  !.handle = h, !.chal = nextChal]]
    /\ nextChal' = nextChal + 1
    /\ UNCHANGED <<factors, authChals, minted, logins>>

(* POST /webauthn/register with a credential the authenticator minted and *)
(* an attestation that verifies or not: the transaction reads the email's *)
(* factors.                                                                *)
RegisterBegin(c, k, att) ==
    /\ cl[c].st = "regopt"
    /\ k \notin minted
    /\ minted' = minted \cup {k}
    /\ cl' = [cl EXCEPT ![c].st = "reg", ![c].cred = k, ![c].att = att,
                        ![c].snap = FactorsOf(cl[c].email)]
    /\ UNCHANGED <<factors, regChals, authChals, drawn, nextChal, logins>>

(* The attestation verifies and the stored challenge matches.              *)
RegValid(q) ==
    /\ q.att
    /\ [id |-> q.chal, email |-> q.email, handle |-> q.handle] \in regChals

(* The insert's assertion, over the factors the transaction read.         *)
SameHandle(q) == \A f \in q.snap : f.handle = q.handle

(* Mutant of RegisterReject: an attestation that does not verify is       *)
(* reported as AuthenticationFailed, 403, where spec 6 and the test ask    *)
(* for 400.                                                                *)
RegisterRejectForbidden(c) ==
    /\ cl[c].st = "reg"
    /\ ~RegValid(cl[c]) \/ ~SameHandle(cl[c])
    /\ cl' = [cl EXCEPT ![c] = [Idle EXCEPT !.resp = IF cl[c].att THEN 400 ELSE 403]]
    /\ UNCHANGED <<factors, regChals, authChals, drawn, minted, nextChal, logins>>

(* 400: the attestation or the challenge does not verify, or the insert   *)
(* raises AssertionFailed (user_handle must be the same for a given email). *)
RegisterReject(c) ==
    /\ cl[c].st = "reg"
    /\ ~RegValid(cl[c]) \/ ~SameHandle(cl[c])
    /\ cl' = [cl EXCEPT ![c] = [Idle EXCEPT !.resp = 400]]
    /\ UNCHANGED <<factors, regChals, authChals, drawn, minted, nextChal, logins>>

(* Mutant of RegisterCommit: the insert commits under snapshot isolation, *)
(* without checking that the rows its assertion read are unchanged.       *)
RegisterCommitSnapshot(c) ==
    LET q == cl[c] IN
    /\ q.st = "reg"
    /\ RegValid(q) /\ SameHandle(q)
    /\ factors' = factors \cup {[email |-> q.email, handle |-> q.handle, cred |-> q.cred]}
    /\ cl' = [cl EXCEPT ![c] = [Idle EXCEPT !.resp = 200]]
    /\ UNCHANGED <<regChals, authChals, drawn, minted, nextChal, logins>>

(* The WebAuthnFactor is inserted, in the serializable transaction that   *)
(* read the email's factors, which commits only if they are unchanged.    *)
RegisterCommit(c) ==
    LET q == cl[c] IN
    /\ q.st = "reg"
    /\ RegValid(q) /\ SameHandle(q)
    /\ FactorsOf(q.email) = q.snap
    /\ factors' = factors \cup {[email |-> q.email, handle |-> q.handle, cred |-> q.cred]}
    /\ cl' = [cl EXCEPT ![c] = [Idle EXCEPT !.resp = 200]]
    /\ UNCHANGED <<regChals, authChals, drawn, minted, nextChal, logins>>

(* A serialization conflict: the factors read have changed, the insert is *)
(* refused and the request is answered 500 with nothing written.          *)
RegisterConflict(c) ==
    LET q == cl[c] IN
    /\ q.st = "reg"
    /\ RegValid(q) /\ SameHandle(q)
    /\ FactorsOf(q.email) # q.snap
    /\ cl' = [cl EXCEPT ![c] = [Idle EXCEPT !.resp = 500]]
    /\ UNCHANGED <<factors, regChals, authChals, drawn, minted, nextChal, logins>>

(* GET /webauthn/authenticate/options: a new AuthenticationChallenge for  *)
(* the email, listing its credentials.                                    *)
AuthOptions(c, e) ==
    /\ cl[c].st = "idle"
    /\ nextChal <= MaxChals
    /\ authChals' = authChals \cup {[id |-> nextChal, email |-> e]}
    /\ nextChal' = nextChal + 1
    /\ cl' = [cl EXCEPT ![c] = [Idle EXCEPT !.email = e, !.chal = nextChal]]
    /\ UNCHANGED <<factors, regChals, drawn, minted, logins>>

(* POST /webauthn/authenticate with an assertion over challenge a by      *)
(* credential k (its own, or one replayed): the transaction reads the     *)
(* challenge and the credential's factor.                                  *)
AuthBegin(c, a, k) ==
    /\ cl[c].st = "idle"
    /\ a < nextChal
    /\ cl' = [cl EXCEPT ![c] = [Idle EXCEPT !.st = "auth", !.chal = a, !.cred = k,
                                            !.snap = AuthRead(a, k)]]
    /\ UNCHANGED <<factors, regChals, authChals, drawn, minted, nextChal, logins>>

(* The assertion verifies: the challenge is stored and the credential is  *)
(* registered for the challenge's email.                                   *)
AuthValid(q) ==
    /\ q.snap.chal # NoRow /\ q.snap.factor # NoRow
    /\ q.snap.factor.email = q.snap.chal.email

(* 400: no such challenge, or no such credential for its email.            *)
AuthReject(c) ==
    /\ cl[c].st = "auth"
    /\ ~AuthValid(cl[c])
    /\ cl' = [cl EXCEPT ![c] = [Idle EXCEPT !.resp = 400]]
    /\ UNCHANGED <<factors, regChals, authChals, drawn, minted, nextChal, logins>>

(* Mutant of AuthCommit: the challenge is deleted without checking that   *)
(* the rows read are unchanged.                                            *)
AuthCommitNoConflictCheck(c) ==
    LET q == cl[c] IN
    /\ q.st = "auth"
    /\ AuthValid(q)
    /\ authChals' = authChals \ {q.snap.chal}
    /\ logins' = Append(logins, [chal |-> q.chal, cred |-> q.cred])
    /\ cl' = [cl EXCEPT ![c] = [Idle EXCEPT !.resp = 200]]
    /\ UNCHANGED <<factors, regChals, drawn, minted, nextChal>>

(* The challenge is deleted and the client signed in, in the transaction  *)
(* that read the rows, which commits only if they are unchanged.          *)
AuthCommit(c) ==
    LET q == cl[c] IN
    /\ q.st = "auth"
    /\ AuthValid(q)
    /\ AuthRead(q.chal, q.cred) = q.snap
    /\ authChals' = authChals \ {q.snap.chal}
    /\ logins' = Append(logins, [chal |-> q.chal, cred |-> q.cred])
    /\ cl' = [cl EXCEPT ![c] = [Idle EXCEPT !.resp = 200]]
    /\ UNCHANGED <<factors, regChals, drawn, minted, nextChal>>

(* A serialization conflict: the rows read have changed, the delete is    *)
(* refused and the request is answered 500.                                *)
AuthConflict(c) ==
    /\ cl[c].st = "auth"
    /\ AuthValid(cl[c])
    /\ AuthRead(cl[c].chal, cl[c].cred) # cl[c].snap
    /\ cl' = [cl EXCEPT ![c] = [Idle EXCEPT !.resp = 500]]
    /\ UNCHANGED <<factors, regChals, authChals, drawn, minted, nextChal, logins>>

(* The delete of the identity that owns credential k takes its factor.    *)
DeleteIdentity(k) ==
    /\ \E f \in factors : f.cred = k
    /\ factors' = {f \in factors : f.cred # k}
    /\ UNCHANGED <<regChals, authChals, drawn, minted, nextChal, cl, logins>>

(* The server's steps on a request it has begun.                           *)
ServerStep(c) ==
    \/ RegisterReject(c) \/ RegisterCommit(c) \/ RegisterConflict(c)
    \/ AuthReject(c) \/ AuthCommit(c) \/ AuthConflict(c)

Next ==
    \/ \E c \in Clients, e \in Emails : RegisterOptions(c, e) \/ AuthOptions(c, e)
    \/ \E c \in Clients, k \in Creds, att \in BOOLEAN : RegisterBegin(c, k, att)
    \/ \E c \in Clients, a \in Chal, k \in Creds : AuthBegin(c, a, k)
    \/ \E k \in Creds : DeleteIdentity(k)
    \/ \E c \in Clients : ServerStep(c)

Spec == Init /\ [][Next]_vars

-----------------------------------------------------------------------------
(* Properties.                                                             *)

(* Spec 3 invariant 1 and 8.3: every WebAuthnFactor of an email has the   *)
(* same user_handle, even when two browsers register the email at once,  *)
(* each having drawn its own fresh handle at register/options.  This     *)
(* rests on the insert's assertion being serializable with the insert of *)
(* the other browser: under snapshot isolation both commit (write skew).  *)
HandlePerEmail ==
    \A f, g \in factors : f.email = g.email => f.handle = g.handle

(* An AuthenticationChallenge signs in at most once: an assertion replayed *)
(* by a second client, concurrently or later, is refused.                  *)
ChallengeUsedOnce ==
    \A i, j \in 1..Len(logins) : i # j => logins[i].chal # logins[j].chal

=============================================================================
