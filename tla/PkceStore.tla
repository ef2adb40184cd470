------------------------------ MODULE PkceStore ------------------------------
(***************************************************************************)
(* What the PKCE store promises (spec 3 invariants 3 and 4, spec 4.2, and *)
(* testable property 8.1), with no transactions in sight: a challenge's   *)
(* row is recorded (a second record is idempotent), bound to an identity, *)
(* and claimed, in one step that hands out a token for the identity the   *)
(* row is bound to at that moment and deletes the row.  Deleting an       *)
(* identity deletes the rows bound to it.  AuthCore, whose /token reads   *)
(* the row in one step and commits in another, is shown to implement it.  *)
(***************************************************************************)
EXTENDS Sequences

CONSTANTS
    Challenges,  \* PKCE challenges
    Identities,  \* identities rows can be bound to
    Absent,      \* no row for the challenge
    Unbound      \* a row bound to no identity yet

VARIABLES
    rows,     \* rows[ch]: Absent, Unbound or the identity the row is bound to
    claims,   \* tokens handed out, in order: [ch, identity]
    deleted   \* identities deleted

pvars == <<rows, claims, deleted>>

PInit ==
    /\ rows = [ch \in Challenges |-> Absent]
    /\ claims = <<>>
    /\ deleted = {}

(* record(challenge) on a challenge with no row.                           *)
Record(ch) ==
    /\ rows[ch] = Absent
    /\ rows' = [rows EXCEPT ![ch] = Unbound]
    /\ UNCHANGED <<claims, deleted>>

(* bind(challenge, identity), creating the row if need be.                 *)
Bind(ch, i) ==
    /\ i \notin deleted
    /\ rows' = [rows EXCEPT ![ch] = i]
    /\ UNCHANGED <<claims, deleted>>

(* claim: a bound row yields one token for its identity and is gone.      *)
Claim(ch) ==
    /\ rows[ch] \in Identities
    /\ claims' = Append(claims, [ch |-> ch, identity |-> rows[ch]])
    /\ rows' = [rows EXCEPT ![ch] = Absent]
    /\ UNCHANGED deleted

(* The identity is deleted, and with it every row bound to it.            *)
Delete(i) ==
    /\ i \notin deleted
    /\ deleted' = deleted \cup {i}
    /\ rows' = [ch \in Challenges |-> IF rows[ch] = i THEN Absent ELSE rows[ch]]
    /\ UNCHANGED claims

PNext ==
    \/ \E ch \in Challenges : Record(ch) \/ Claim(ch)
    \/ \E ch \in Challenges, i \in Identities : Bind(ch, i)
    \/ \E i \in Identities : Delete(i)

PSpec == PInit /\ [][PNext]_pvars
=============================================================================
