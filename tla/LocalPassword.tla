---------------------------- MODULE LocalPassword ----------------------------
(***************************************************************************)
(* The local email/password provider of the auth extension (spec 4.5,    *)
(* C5), as test_http_auth_ext_local_password_* drive it: /register,       *)
(* /authenticate, /send-reset-email and /reset-password, and the delete    *)
(* of an identity.  Its code is not in this repository; the tests are.   *)
(*                                                                         *)
(* A password hash is Argon2id with a fresh random salt: the model draws  *)
(* a new salt for every hash, so two hashes of one password differ.  A    *)
(* reset token is signed and stateless; its secret is SHA-256 of the      *)
(* password_hash it was minted against (forgot_form_01 checks this), so   *)
(* the abstract secret is that hash itself.  /reset-password verifies the *)
(* token against the factor it reads and then updates the factor in a    *)
(* serializable transaction: the read and the commit are separate steps,  *)
(* and a commit over a row changed since the read fails with a          *)
(* serialization error, answered 500 (spec 7, InternalServerError).       *)
(*                                                                         *)
(* The provider is taken with require_verification: registration returns *)
(* no code, and the reset marks the factor verified.  A request that      *)
(* changes nothing (a 409 on a taken email, a 403 on a wrong password, a  *)
(* send-reset for an unknown email, which answers 200) is a stuttering    *)
(* step and is left out.                                                   *)
(***************************************************************************)
EXTENDS Naturals, Sequences, FiniteSets

CONSTANTS
    Emails,     \* email addresses
    Passwords,  \* passwords clients choose
    Requests,   \* /reset-password requests, each sent once
    MaxIds,     \* identities created in a behaviour
    NoFactor    \* no factor, or no row read

ASSUME MaxIds \in Nat \ {0}

VARIABLES
    factor,  \* factor[e]: the EmailPasswordFactor of email e, or NoFactor
    salts,   \* salts drawn so far
    ids,     \* identities created so far
    tokens,  \* reset tokens minted: [subject, secret]
    codes,   \* identities with a bound PKCE row
    req,     \* req[r]: the /reset-password request r
    resets   \* successful resets in commit order

vars == <<factor, salts, ids, tokens, codes, req, resets>>

MaxSalts == MaxIds + Cardinality(Requests)

Hash == [pw : Passwords, salt : 0..MaxSalts]
Row == [id : 1..MaxIds, hash : Hash, verified : BOOLEAN]
Token == [subject : 1..MaxIds, secret : Hash]
Snap == [email : Emails \cup {NoFactor}, row : Row \cup {NoFactor}]

TypeOK ==
    /\ factor \in [Emails -> Row \cup {NoFactor}]
    /\ salts \in 0..MaxSalts
    /\ ids \in 0..MaxIds
    /\ tokens \subseteq Token
    /\ codes \subseteq 1..MaxIds
    /\ req \in [Requests -> [st : {"idle", "read", "done"}, token : Token \cup {NoFactor},
                             pw : Passwords \cup {NoFactor}, snap : Snap,
                             resp : {0, 200, 400, 500}]]
    /\ resets \in Seq([subject : 1..MaxIds, secret : Hash, from : Hash, to : Hash])

Init ==
    /\ factor = [e \in Emails |-> NoFactor]
    /\ salts = 0
    /\ ids = 0
    /\ tokens = {}
    /\ codes = {}
    /\ req = [r \in Requests |-> [st |-> "idle", token |-> NoFactor, pw |-> NoFactor,
                                  snap |-> [email |-> NoFactor, row |-> NoFactor],
                                  resp |-> 0]]
    /\ resets = <<>>

(* Mutant of NewHash: the hash has no salt (a plain digest of p).          *)
NewHashUnsalted(p) == [pw |-> p, salt |-> 0]

(* Argon2id of p with a fresh salt; the caller draws it (salts' = salts + 1). *)
NewHash(p) == [pw |-> p, salt |-> salts + 1]

(* The factor an identity owns, read by the token's subject.               *)
Lookup(id) ==
    IF \E e \in Emails : factor[e] # NoFactor /\ factor[e].id = id
    THEN LET e == CHOOSE e \in Emails : factor[e] # NoFactor /\ factor[e].id = id
         IN [email |-> e, row |-> factor[e]]
    ELSE [email |-> NoFactor, row |-> NoFactor]

(* POST /register: a new LocalIdentity and its EmailPasswordFactor.       *)
Register(e, p) ==
    /\ factor[e] = NoFactor
    /\ ids < MaxIds
    /\ factor' = [factor EXCEPT ![e] = [id |-> ids + 1, hash |-> NewHash(p),
                                        verified |-> FALSE]]
    /\ ids' = ids + 1
    /\ salts' = salts + 1
    /\ UNCHANGED <<tokens, codes, req, resets>>

(* POST /authenticate with the right password: a PKCE row is bound to the *)
(* identity and its id returned as the code.                               *)
Authenticate(e, p) ==
    /\ factor[e] # NoFactor
    /\ factor[e].hash.pw = p
    /\ codes' = codes \cup {factor[e].id}
    /\ UNCHANGED <<factor, salts, ids, tokens, req, resets>>

(* POST /send-reset-email for a registered email: a Reset token whose     *)
(* secret is bound to the current password_hash is mailed.                 *)
SendReset(e) ==
    /\ factor[e] # NoFactor
    /\ tokens' = tokens \cup {[subject |-> factor[e].id, secret |-> factor[e].hash]}
    /\ UNCHANGED <<factor, salts, ids, codes, req, resets>>

(* delete of the Identity: its factor and PKCE rows go with it.           *)
DeleteIdentity(e) ==
    /\ factor[e] # NoFactor
    /\ factor' = [factor EXCEPT ![e] = NoFactor]
    /\ codes' = codes \ {factor[e].id}
    /\ UNCHANGED <<salts, ids, tokens, req, resets>>

(* POST /reset-password with a mailed token and a new password: the      *)
(* transaction reads the subject's factor.                                 *)
ResetBegin(r, t, p) ==
    /\ req[r].st = "idle"
    /\ req' = [req EXCEPT ![r] = [st |-> "read", token |-> t, pw |-> p,
                                  snap |-> Lookup(t.subject), resp |-> 0]]
    /\ UNCHANGED <<factor, salts, ids, tokens, codes, resets>>

(* The token verifies against the row read: the row exists and its hash   *)
(* is the token's secret.                                                  *)
Valid(rq) == rq.snap.row # NoFactor /\ rq.snap.row.hash = rq.token.secret

(* Mutant of ResetReject: a bad token is answered like a bad password.   *)
ResetRejectForbidden(r) ==
    /\ req[r].st = "read"
    /\ ~Valid(req[r])
    /\ req' = [req EXCEPT ![r].st = "done", ![r].resp = 403]
    /\ UNCHANGED <<factor, salts, ids, tokens, codes, resets>>

(* Invalid 'reset_token': 400.                                             *)
ResetReject(r) ==
    /\ req[r].st = "read"
    /\ ~Valid(req[r])
    /\ req' = [req EXCEPT ![r].st = "done", ![r].resp = 400]
    /\ UNCHANGED <<factor, salts, ids, tokens, codes, resets>>

(* Mutant of ResetCommit: the update does not check that the row is the  *)
(* one read.                                                               *)
ResetCommitNoConflictCheck(r) ==
    LET rq == req[r]
        e  == rq.snap.email
        h  == NewHash(rq.pw)
    IN
    /\ rq.st = "read"
    /\ Valid(rq)
    /\ factor' = [factor EXCEPT ![e] = [rq.snap.row EXCEPT !.hash = h, !.verified = TRUE]]
    /\ salts' = salts + 1
    /\ codes' = codes \cup {rq.snap.row.id}
    /\ resets' = Append(resets, [subject |-> rq.token.subject, secret |-> rq.token.secret,
                                 from |-> rq.snap.row.hash, to |-> h])
    /\ req' = [req EXCEPT ![r].st = "done", ![r].resp = 200]
    /\ UNCHANGED <<ids, tokens>>

(* The new password_hash is written, the factor marked verified and a     *)
(* PKCE row bound for the token's challenge, in the transaction that read *)
(* the row, which commits only if the row is unchanged.                    *)
ResetCommit(r) ==
    LET rq == req[r]
        e  == rq.snap.email
        h  == NewHash(rq.pw)
    IN
    /\ rq.st = "read"
    /\ Valid(rq)
    /\ factor[e] = rq.snap.row
    /\ factor' = [factor EXCEPT ![e] = [rq.snap.row EXCEPT !.hash = h, !.verified = TRUE]]
    /\ salts' = salts + 1
    /\ codes' = codes \cup {rq.snap.row.id}
    /\ resets' = Append(resets, [subject |-> rq.token.subject, secret |-> rq.token.secret,
                                 from |-> rq.snap.row.hash, to |-> h])
    /\ req' = [req EXCEPT ![r].st = "done", ![r].resp = 200]
    /\ UNCHANGED <<ids, tokens>>

(* A serialization conflict: the factor changed since it was read, the    *)
(* update is refused and the request is answered 500 with nothing written. *)
ResetConflict(r) ==
    /\ req[r].st = "read"
    /\ Valid(req[r])
    /\ factor[req[r].snap.email] # req[r].snap.row
    /\ req' = [req EXCEPT ![r].st = "done", ![r].resp = 500]
    /\ UNCHANGED <<factor, salts, ids, tokens, codes, resets>>

(* The server's steps on a /reset-password request it has begun.          *)
ResetStep(r) == ResetReject(r) \/ ResetCommit(r) \/ ResetConflict(r)

Next ==
    \/ \E e \in Emails, p \in Passwords : Register(e, p) \/ Authenticate(e, p)
    \/ \E e \in Emails : SendReset(e) \/ DeleteIdentity(e)
    \/ \E r \in Requests, t \in tokens, p \in Passwords : ResetBegin(r, t, p)
    \/ \E r \in Requests : ResetStep(r)

Spec == Init /\ [][Next]_vars

-----------------------------------------------------------------------------
(* Properties.                                                             *)

(* Spec 8.5 and S5: a reset token dies with the password it was minted    *)
(* against.  No successful reset used a token whose secret is a hash an   *)
(* earlier reset already replaced: neither the same token twice (two      *)
(* concurrent /reset-password calls included) nor a token minted before   *)
(* a later password change, even when the password is set back to an old *)
(* value.  This rests on the salt and on the commit's conflict check.     *)
ResetRetiresTokens ==
    \A i, j \in 1..Len(resets) : i < j => resets[j].secret # resets[i].from

=============================================================================
