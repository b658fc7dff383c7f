------------------------------ MODULE MCJobHub ------------------------------
\* One modal watches one run of two labels, the last its outcome, with a batch
\* of one row.  The object treats its subscribers alike and apart.
EXTENDS JobHub

MCViewers == {"modal"}
=============================================================================
