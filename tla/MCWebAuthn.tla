----------------------------- MODULE MCWebAuthn -----------------------------
(* One email, two browsers, two handles the server can draw and two       *)
(* credential ids: enough for both browsers to draw different fresh       *)
(* handles for a new email and race their registrations, and for one      *)
(* browser's assertion to be replayed by the other.                        *)
EXTENDS WebAuthn, TLC

CONSTANTS e1, c1, c2, h1, h2, k1, k2

MCEmails == {e1}
MCClients == {c1, c2}
MCHandles == {h1, h2}
MCCreds == {k1, k2}

(* Browsers, handles and credential ids are interchangeable: the server   *)
(* draws any handle not drawn yet and authenticators mint any id not       *)
(* minted yet, and every property checked is an invariant.                 *)
MCSymmetry == Permutations(MCClients) \cup Permutations(MCHandles)
                  \cup Permutations(MCCreds)
=============================================================================
