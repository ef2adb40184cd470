--------------------------- MODULE MCLocalPassword ---------------------------
(* One email, two passwords and two /reset-password requests: a password  *)
(* can be reset, reset again with an older token, or set back to its old  *)
(* value; two identities let the email be registered again after a        *)
(* delete.                                                                 *)
EXTENDS LocalPassword

CONSTANTS e1, p1, p2, r1, r2

MCEmails == {e1}
MCPasswords == {p1, p2}
MCRequests == {r1, r2}
=============================================================================
