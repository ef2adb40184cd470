\* Two concept names, so that a name can be inserted twice; three ids per
\* serial column, enough for two concepts of one name and a link.
CONSTANTS
    Names = {n1, n2}
    MaxIds = 3
    None = None
    Raised = Raised
SPECIFICATION Spec
INVARIANT TypeOK
\* Nothing in common.py deletes a row or drops a table: once every table
\* exists and the serial bounds are reached, only the failing inserts and
\* the idempotent creates remain, so the model never stops.
